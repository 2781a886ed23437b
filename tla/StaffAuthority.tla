--------------------------- MODULE StaffAuthority ---------------------------
(***************************************************************************)
(* Staff of one tenant: invitations, membership and identity binding       *)
(* transitions, replacement of a member's authority, and the platform's    *)
(* disabling of a native identity.                                         *)
(*                                                                         *)
(* A command is one transaction at READ COMMITTED.  Its effect becomes     *)
(* visible at its commit, so what it reads of others is the committed      *)
(* state; it waits at row locks, which it keeps to its end.  A step is     *)
(* what happens between two such waits.                                    *)
(*                                                                         *)
(* Revisions only grow, so "the expected revision is the current one" is   *)
(* "nothing changed the row since the client read it": tx[c].fresh.  A     *)
(* principal is active exactly while its membership is invited or active.  *)
(* Every member has the one native binding its membership names, and every *)
(* command its own idempotency key (the keys are those of Requests).       *)
(***************************************************************************)
EXTENDS Naturals, FiniteSets, Relation

CONSTANTS
    Staff,     \* principals, in the order of their ids
    Standing,  \* Standing[p]: where p stands at first, see Init
    Txs,       \* concurrent transactions
    Commands,  \* what managers may ask for: [kind, on, to, want]
    MaxSent    \* bound: commands sent

Controller == {"manage_membership", "manage_authority", "bind"}
Capabilities == Controller \cup {"invite"}
Live == {"invited", "active", "suspended"}

ASSUME StaffAssumption ==
    /\ Staff \subseteq Nat /\ IsFiniteSet(Staff)
    /\ Standing \in [Staff -> {"root", "controller", "suspended", "invited", "none"}]
    /\ \E p \in Staff : Standing[p] \in {"root", "controller"}
    /\ \A cmd \in Commands :
          /\ cmd.kind \in {"invite", "membership", "authority", "binding"}
          /\ cmd.on \in Staff
          /\ cmd.to \in {"active", "suspended", "revoked"}
          /\ cmd.want \subseteq Capabilities
    /\ MaxSent \in Nat

VARIABLES
    member,    \* staff_memberships.status, "none" without a row
    binding,   \* identity_bindings.status of the membership's binding
    identity,  \* native_identities.status, with its credential
    grants,    \* active principal_authority_grants
    delegable, \* the delegable ones among them
    tx,        \* tx[c]: the transaction c
    sent

tables == <<member, binding, identity, grants, delegable>>
vars == <<tables, tx, sent>>

Idle == [pc |-> "idle"]
At(c, pc) == tx[c].pc = pc
Busy == {c \in Txs : ~At(c, "idle")}
Active == {p \in Staff : member[p] = "active"}

Rows == {"membership", "principal", "binding"} \X Staff \X {"share", "update"}

Tx == [pc : {"root", "assert", "target", "check", "write"}, by : Staff, cmd : Commands,
       todo : SUBSET Staff, round : 1..3, fresh : BOOLEAN, locks : SUBSET Rows]

TypeOK ==
    /\ member \in [Staff -> Live \cup {"revoked", "none"}]
    /\ binding \in [Staff -> {"none", "pending", "active", "suspended", "revoked"}]
    /\ identity \in [Staff -> {"active", "disabled"}]
    /\ grants \in [Staff -> SUBSET Capabilities]
    /\ delegable \in [Staff -> SUBSET Capabilities]
    /\ \A p \in Staff : delegable[p] \subseteq grants[p]
    /\ tx \in [Txs -> Tx \cup {Idle}]
    /\ sent \in 0..MaxSent

\* A provisioned root may delegate what it holds; what authority management
\* granted is not delegable.
Init ==
    /\ member = [p \in Staff |-> CASE Standing[p] \in {"root", "controller"} -> "active"
                                   [] OTHER -> Standing[p]]
    /\ binding = [p \in Staff |-> CASE Standing[p] = "none" -> "none"
                                    [] Standing[p] = "invited" -> "pending"
                                    [] Standing[p] = "suspended" -> "suspended"
                                    [] OTHER -> "active"]
    /\ identity = [p \in Staff |-> "active"]
    /\ grants = [p \in Staff |-> CASE Standing[p] = "root" -> Capabilities
                                   [] Standing[p] \in {"controller", "suspended"} -> Controller
                                   [] OTHER -> {}]
    /\ delegable = [p \in Staff |-> IF Standing[p] = "root" THEN Capabilities ELSE {}]
    /\ tx = [c \in Txs |-> Idle]
    /\ sent = 0

-----------------------------------------------------------------------------
(* Row locks *)

Lock(table, p, mode) == <<table, p, mode>>

Conflicts(l, k) == l[1] = k[1] /\ l[2] = k[2] /\ ("update" \in {l[3], k[3]})

NextRow(c) == CHOOSE p \in tx[c].todo : \A q \in tx[c].todo : p <= q

\* assert_staff_manager reads the actor's rows FOR SHARE; the target's row is
\* read FOR UPDATE; the updates lock the rows they write, the trigger's bump
\* of authority_revision the principal's.
Wanted(c) ==
    LET p == tx[c].cmd.on
        kind == tx[c].cmd.kind
    IN  IF tx[c].todo # {} THEN {Lock("membership", NextRow(c), "update")}
        ELSE CASE At(c, "assert") ->
                    {Lock("membership", tx[c].by, "share"), Lock("principal", tx[c].by, "share")}
               [] At(c, "target") /\ kind = "membership" -> {Lock("membership", p, "update")}
               [] At(c, "target") /\ kind = "authority" ->
                    {Lock("membership", p, "update"), Lock("principal", p, "update")}
               [] At(c, "target") /\ kind = "binding" -> {Lock("binding", p, "update")}
               [] At(c, "write") /\ kind = "membership" ->
                    {Lock("principal", p, "update"), Lock("binding", p, "update")}
               [] At(c, "check") /\ kind = "binding" -> {Lock("principal", p, "update")}
               [] OTHER -> {}

Blocks(d, c) ==
    c # d /\ c \in Busy /\ d \in Busy
    /\ \E l \in Wanted(c), k \in tx[d].locks : Conflicts(l, k)

Granted(c) == \A d \in Txs : ~Blocks(d, c)

\* c waits, directly or not, for itself.
WaitsForItself(c) == TransitiveClosure([x, y \in Txs |-> Blocks(y, x)], Txs)[c, c]
Deadlocked(c) == ~Granted(c) /\ WaitsForItself(c)

\* c goes on to pc with the locks it wanted.
Go(c, pc, round) ==
    /\ tx' = [tx EXCEPT ![c].pc = pc, ![c].round = round, ![c].locks = @ \cup Wanted(c)]
    /\ UNCHANGED tables

Refuse(c) == tx' = [tx EXCEPT ![c] = Idle] /\ UNCHANGED tables

-----------------------------------------------------------------------------
(* Authority *)

Capability(cmd) ==
    CASE cmd.kind = "invite" -> "invite"
      [] cmd.kind = "membership" -> "manage_membership"
      [] cmd.kind = "authority" -> "manage_authority"
      [] cmd.kind = "binding" -> "bind"

\* The ActorContext, resolved before the transaction: the capabilities the
\* actor holds then.
Allows(a, cmd) == member[a] = "active" /\ Capability(cmd) \in grants[a]

\* Defect: what the context allowed is taken for what holds.
TrustContext(a, cmd) == TRUE

\* assert_staff_manager
StaffManager(a, cmd) == member[a] = "active" /\ Capability(cmd) \in grants[a]

\* principal_is_effective_tenant_controller, with the bindings b.
EffectiveController(p, b) ==
    /\ member[p] = "active"
    /\ Controller \subseteq grants[p]
    /\ b[p] = "active" /\ identity[p] = "active"

\* assert_other_tenant_controller(p)
OtherController(p) == \E q \in Staff \ {p} : EffectiveController(q, binding)

\* assert_tenant_has_controller, assert_organization_has_controller
HasController(b) == \E q \in Staff : EffectiveController(q, b)

-----------------------------------------------------------------------------
(* The beginning of every command *)

\* A client reads the target's revision and sends a command.
Send(c, a, cmd) ==
    /\ At(c, "idle") /\ sent < MaxSent
    /\ Allows(a, cmd)
    /\ (cmd.kind = "invite") <=> (member[cmd.on] = "none")
    /\ sent' = sent + 1
    /\ tx' = [tx EXCEPT ![c] = [pc |-> "root", by |-> a, cmd |-> cmd, todo |-> {},
                                round |-> 1, fresh |-> TRUE, locks |-> {}]]
    /\ UNCHANGED tables

\* lock_staff_command_authority locks the staff root and asserts the manager;
\* transition_staff_membership and replace_staff_authority do both again.
Rounds(cmd) == IF cmd.kind \in {"membership", "authority"} THEN 2 ELSE 1

\* Defect: the staff root is not locked.
NoRoot(c) == {}

\* lock_tenant_staff_root: the active memberships of the statement's snapshot.
RootRows(c) == Active

\* A statement that locks the root begins: the topology gate is shared, the
\* snapshot is taken.  Round 3 is the one of the controller that must remain.
SnapshotRoot(c) ==
    /\ At(c, "root")
    /\ tx' = [tx EXCEPT ![c].pc = IF tx[c].round = 3 THEN "check" ELSE "assert",
                        ![c].todo = RootRows(c)]
    /\ UNCHANGED <<tables, sent>>

\* ORDER BY principal_id FOR UPDATE.  A row that is no longer active when its
\* lock is granted is passed over, and stays locked.
LockRootRow(c) ==
    /\ c \in Busy /\ tx[c].todo # {}
    /\ Granted(c)
    /\ tx' = [tx EXCEPT ![c].todo = @ \ {NextRow(c)}, ![c].locks = @ \cup Wanted(c)]
    /\ UNCHANGED <<tables, sent>>

AssertStaffManager(c) ==
    /\ At(c, "assert") /\ tx[c].todo = {}
    /\ IF ~StaffManager(tx[c].by, tx[c].cmd) THEN Refuse(c)
       ELSE /\ Granted(c)
            /\ IF tx[c].round < Rounds(tx[c].cmd) THEN Go(c, "root", 2)
               ELSE Go(c, "target", tx[c].round)
    /\ UNCHANGED sent

-----------------------------------------------------------------------------
(* The target *)

\* The states from which transition_staff_membership reaches a status.
MembershipFrom(to) ==
    CASE to = "active" -> {"invited", "suspended"}
      [] to = "suspended" -> {"active"}
      [] to = "revoked" -> Live

\* The states from which transition_identity_binding does.
BindingFrom(to) ==
    CASE to = "active" -> {"suspended"}
      [] to = "suspended" -> {"active"}
      [] to = "revoked" -> {"pending", "active", "suspended"}

\* guard_identity_binding: an update that changes the revision changes the
\* status, along these transitions, and a live binding has a live principal.
GuardIdentityBinding(old, new, live) ==
    /\ <<old, new>> \in {<<"pending", "active">>, <<"active", "suspended">>,
                         <<"suspended", "active">>}
                        \cup ({"pending", "active", "suspended"} \X {"revoked"})
    /\ new = "active" => live

\* What replace_staff_authority takes away: only what the actor may delegate.
Removed(a, cmd) == (grants[cmd.on] \ cmd.want) \cap delegable[a]

\* The early returns after the target is locked, and the guard of the update
\* of a binding.
Acceptable(a, cmd, fresh) ==
    LET p == cmd.on
    IN  CASE cmd.kind = "membership" -> p # a /\ fresh /\ member[p] \in MembershipFrom(cmd.to)
          [] cmd.kind = "authority" ->
               member[p] = "active" /\ p # a /\ fresh /\ cmd.want \subseteq delegable[a]
          [] cmd.kind = "binding" ->
               /\ fresh /\ binding[p] \in BindingFrom(cmd.to)
               /\ GuardIdentityBinding(binding[p], cmd.to, member[p] \in {"invited", "active"})
          [] cmd.kind = "invite" -> member[p] = "none" /\ identity[p] = "active"

\* Whether the command may leave the tenant without a controller.
EndsController(a, cmd) ==
    LET p == cmd.on
    IN  CASE cmd.kind = "membership" -> cmd.to # "active" /\ Controller \subseteq grants[p]
          [] cmd.kind = "authority" ->
               Controller \subseteq grants[p] /\ Removed(a, cmd) \cap Controller # {}
          [] cmd.kind = "binding" -> cmd.to # "active" /\ EffectiveController(p, binding)
          [] OTHER -> FALSE

LockTarget(c) ==
    LET a == tx[c].by
        cmd == tx[c].cmd
    IN  /\ At(c, "target") /\ Granted(c)
        /\ IF ~Acceptable(a, cmd, tx[c].fresh) THEN Refuse(c)
           ELSE IF cmd.kind = "binding"
           THEN Go(c, "check", IF EndsController(a, cmd) THEN 3 ELSE tx[c].round)
           ELSE IF EndsController(a, cmd) THEN Go(c, "root", 3)
           ELSE Go(c, "write", tx[c].round)
        /\ UNCHANGED sent

\* assert_other_tenant_controller; for a binding, its update, which waits for
\* the principal's row, and then assert_tenant_has_controller.
CheckContinuity(c) ==
    LET cmd == tx[c].cmd
    IN  /\ At(c, "check") /\ tx[c].todo = {} /\ Granted(c)
        /\ IF \/ tx[c].round < 3
              \/ cmd.kind = "binding" /\ HasController([binding EXCEPT ![cmd.on] = cmd.to])
              \/ cmd.kind # "binding" /\ OtherController(cmd.on)
           THEN Go(c, "write", tx[c].round)
           ELSE Refuse(c)
        /\ UNCHANGED sent

-----------------------------------------------------------------------------
(* The effect *)

\* The commit: the commands that expect a revision it moved are outdated.
Commit(c, kinds) ==
    tx' = [d \in Txs |->
             IF d = c THEN Idle
             ELSE IF d \in Busy /\ tx[d].cmd.on = tx[c].cmd.on /\ tx[d].cmd.kind \in kinds
             THEN [tx[d] EXCEPT !.fresh = FALSE] ELSE tx[d]]

Writing(c, kind) == At(c, "write") /\ tx[c].cmd.kind = kind /\ Granted(c)

\* The subject of an invitation that committed first has a principal already:
\* the unique constraint refuses the second one.  The second assertion of the
\* manager cannot fail: the rows the first one read are still locked.
InviteNativeStaff(c) ==
    LET p == tx[c].cmd.on
    IN  /\ Writing(c, "invite")
        /\ IF member[p] = "none"
           THEN /\ member' = [member EXCEPT ![p] = "invited"]
                /\ binding' = [binding EXCEPT ![p] = "pending"]
                /\ Commit(c, {})
                /\ UNCHANGED <<identity, grants, delegable>>
           ELSE Refuse(c)
        /\ UNCHANGED sent

\* The principal and its binding follow the membership.
TransitionStaffMembership(c) ==
    LET p == tx[c].cmd.on
        to == tx[c].cmd.to
    IN  /\ Writing(c, "membership")
        /\ IF GuardIdentityBinding(binding[p], to, to = "active")
           THEN /\ member' = [member EXCEPT ![p] = to]
                /\ binding' = [binding EXCEPT ![p] = to]
                /\ Commit(c, {"membership", "binding", "authority"})
                /\ UNCHANGED <<identity, grants, delegable>>
           ELSE Refuse(c)
        /\ UNCHANGED sent

\* An actor may name its own binding.
TransitionIdentityBinding(c) ==
    /\ Writing(c, "binding")
    /\ binding' = [binding EXCEPT ![tx[c].cmd.on] = tx[c].cmd.to]
    /\ Commit(c, {"binding", "authority"})
    /\ UNCHANGED <<member, identity, grants, delegable, sent>>

\* New grants are not delegable.
ReplaceStaffAuthority(c) ==
    LET cmd == tx[c].cmd
        p == cmd.on
        gone == Removed(tx[c].by, cmd)
    IN  /\ Writing(c, "authority")
        /\ grants' = [grants EXCEPT ![p] = (@ \ gone) \cup cmd.want]
        /\ delegable' = [delegable EXCEPT ![p] = @ \ gone]
        /\ Commit(c, IF grants' = grants THEN {} ELSE {"authority"})
        /\ UNCHANGED <<member, binding, identity, sent>>

\* disable_native_identity, by the platform: it takes the topology gate
\* exclusively, so that no tenant command is under way.
DisableNativeIdentity(p) ==
    /\ sent < MaxSent /\ sent' = sent + 1
    /\ \A c \in Busy : At(c, "root") /\ tx[c].round = 1
    /\ identity[p] = "active"
    /\ EffectiveController(p, binding) => OtherController(p)
    /\ identity' = [identity EXCEPT ![p] = "disabled"]
    /\ UNCHANGED <<member, binding, grants, delegable, tx>>

\* PostgreSQL ends a deadlock by aborting a transaction of the circle (40P01).
AbortVictim(c) == Deadlocked(c) /\ Refuse(c) /\ UNCHANGED sent

Step(c) ==
    \/ SnapshotRoot(c)
    \/ LockRootRow(c)
    \/ AssertStaffManager(c)
    \/ LockTarget(c)
    \/ CheckContinuity(c)
    \/ InviteNativeStaff(c)
    \/ TransitionStaffMembership(c)
    \/ TransitionIdentityBinding(c)
    \/ ReplaceStaffAuthority(c)
    \/ AbortVictim(c)

Next ==
    \/ \E c \in Txs, a \in Staff, cmd \in Commands : Send(c, a, cmd)
    \/ \E c \in Txs : Step(c)
    \/ \E p \in Staff : DisableNativeIdentity(p)

Spec == Init /\ [][Next]_vars

-----------------------------------------------------------------------------
(* Properties *)

\* Only an active member signs in with the binding of its membership: binding
\* and membership commands that interleave never leave a suspended, revoked or
\* invited member with a live binding (guard_identity_binding).
BindingFollowsMember == \A p \in Staff : binding[p] = "active" => member[p] = "active"

\* However suspensions, revocations, replacements of authority, transitions of
\* bindings (one's own too) and disabled identities interleave, the tenant
\* keeps a member who can sign in and holds the three controller capabilities
\* (assert_other_tenant_controller, assert_tenant_has_controller, decided
\* steps before the commit).  Checked together with the types of the state and
\* with BindingFollowsMember.
ControllerContinuity ==
    /\ TypeOK
    /\ BindingFollowsMember
    /\ \E p \in Staff : /\ member[p] = "active" /\ Controller \subseteq grants[p]
                        /\ binding[p] = "active" /\ identity[p] = "active"

\* At the commit of a command its actor is still an active member with the
\* capability, and may still delegate what it grants: a request that resolved
\* its ActorContext before the actor was suspended or lost the capability has
\* no effect (assert_staff_manager, FOR SHARE).
AuthorityAtEffect ==
    [][\A c \in Txs :
          At(c, "write") /\ tables' # tables /\ tx'[c] = Idle =>
             LET a == tx[c].by
             IN  /\ member[a] = "active" /\ Capability(tx[c].cmd) \in grants[a]
                 /\ \A p \in Staff : grants'[p] \ grants[p] \subseteq delegable[a]]_vars

\* A membership that is invited, active or suspended can be revoked: the
\* revocation its manager asks for passes guard_identity_binding.
RevocationPossible ==
    \A p \in Staff : member[p] \in Live => GuardIdentityBinding(binding[p], "revoked", FALSE)

\* The order of the staff locks has no inversion: no command is aborted with
\* 40P01 (lock_tenant_staff_root before any row).
InversionFree == \A c \in Txs : ~Deadlocked(c)

-----------------------------------------------------------------------------
(* The inductive invariant *)

\* Where a command has got to: its actor has been asserted, its target has been
\* accepted.
Asserted(c) == c \in Busy /\ ~(tx[c].pc \in {"root", "assert"} /\ tx[c].round = 1)
Past(c) == c \in Busy /\ (tx[c].pc \in {"check", "write"} \/ (At(c, "root") /\ tx[c].round = 3))

\* Rows are left to lock only while the root is locked, and a transition of a
\* binding does not lock it a second time.
TxShape ==
    \A c \in Busy :
        /\ tx[c].todo # {} => tx[c].pc \in {"assert", "check"}
        /\ tx[c].pc \in {"assert", "target"} => tx[c].round < 3
        /\ tx[c].cmd.kind = "binding" => ~(At(c, "root") /\ tx[c].round = 3)
        /\ At(c, "check") => IF tx[c].cmd.kind = "binding" THEN tx[c].todo = {}
                             ELSE tx[c].round = 3

LocksExclusive ==
    \A c, d \in Busy : c # d =>
        \A l \in tx[c].locks, k \in tx[d].locks : ~Conflicts(l, k)

\* The actor's rows stay locked from its assertion on, and the assertion true.
ActorStands ==
    \A c \in Txs : Asserted(c) =>
        /\ Lock("membership", tx[c].by, "share") \in tx[c].locks
        /\ StaffManager(tx[c].by, tx[c].cmd)

\* The target's rows stay locked from its acceptance on, and what was accepted
\* stays so.
TargetStands ==
    \A c \in Txs : Past(c) =>
        LET p == tx[c].cmd.on
        IN  CASE tx[c].cmd.kind = "membership" -> Lock("membership", p, "update") \in tx[c].locks
              [] tx[c].cmd.kind = "authority" ->
                   /\ Lock("membership", p, "update") \in tx[c].locks
                   /\ tx[c].cmd.want \subseteq delegable[tx[c].by]
              [] tx[c].cmd.kind = "binding" ->
                   /\ Lock("binding", p, "update") \in tx[c].locks
                   /\ tx[c].cmd.to # "revoked" => member[p] = "active"
              [] OTHER -> TRUE

InvitedIsPending == \A p \in Staff : member[p] = "invited" => binding[p] \in {"pending", "revoked"}

\* A command that can still be accepted, or has been.
Engaged(c) ==
    /\ c \in Busy /\ tx[c].cmd.kind # "invite"
    /\ ~(At(c, "root") /\ tx[c].round = 1)
    /\ tx[c].fresh \/ Past(c)

Covers(c, p) == p \in tx[c].todo \/ Lock("membership", p, "update") \in tx[c].locks

\* Of two engaged commands with active targets, the one whose snapshot came
\* second has to lock both rows.
TargetsCovered ==
    \A c \in Txs : Engaged(c) /\ member[tx[c].cmd.on] = "active" =>
        /\ Covers(c, tx[c].cmd.on)
        /\ \A d \in Txs \ {c} :
              Engaged(d) /\ member[tx[d].cmd.on] = "active" =>
                 Covers(c, tx[d].cmd.on) \/ Covers(d, tx[c].cmd.on)

\* The command cannot end a controller.
Harmless(c) ==
    LET cmd == tx[c].cmd
    IN  \/ cmd.kind = "invite"
        \/ cmd.kind \in {"membership", "binding"} /\ cmd.to = "active"
        \/ cmd.kind = "authority" /\ Removed(tx[c].by, cmd) \cap Controller = {}

\* What the check of a command established holds until its commit.
OtherRemains ==
    \A c \in Busy :
        At(c, "write") \/ (At(c, "check") /\ tx[c].round < 3) =>
           \/ Harmless(c)
           \/ member[tx[c].cmd.on] # "active"
           \/ OtherController(tx[c].cmd.on)

StaffInv ==
    /\ ControllerContinuity
    /\ InvitedIsPending
    /\ TxShape
    /\ LocksExclusive
    /\ ActorStands
    /\ TargetStands
    /\ TargetsCovered
    /\ OtherRemains

=============================================================================
