------------------------- MODULE OperationalRecovery -------------------------
(***************************************************************************)
(* Operational recovery of one service queue: the scheduled reassessment,  *)
(* the incident it keeps, and the customer-impact notices and autonomous   *)
(* reschedules it sets off.  An operator's reschedule runs the same action *)
(* under his own key; here it is one more change of the source.            *)
(*                                                                         *)
(* A material change of the queue's sources advances its source revision   *)
(* and schedules one reassessment for it, in one transaction.  What F4     *)
(* says of a revision is fixed while the revision lasts (the clock alone   *)
(* changes no verdict); successive revisions are unrelated.  A handler     *)
(* execution is a sequence of transactions, one step each; another worker  *)
(* may take the same reassessment over in between, and the source may move.*)
(* Leases, retries and dead-lettering are those of WorkLease, reduced to   *)
(* the claim token.  The sweep re-schedules what is already scheduled, so  *)
(* it takes no step here.                                                  *)
(***************************************************************************)
EXTENDS Naturals, Sequences, FiniteSets, Functions

CONSTANTS
    Reservations, \* the scope's reservations
    Order,        \* Reservations in the order a proposal lists them
    Workers,      \* handler executions that may be in progress
    Truths,       \* what F4 may say of a revision, see Verdict
    Targets,      \* what a proposal may offer the reservations, see Offers
    MaxAuto,      \* max_auto_actions_per_incident of the granted envelope
    MaxAttempts,  \* max_attempts of a reassessment (8 in the schema)
    MaxFaults,    \* bound: crashes, failures, leases lost by a live worker
    MaxRev        \* bound: source revisions

\* level: 0 healthy, 1 live delay, 2 scheduled shortfall, 3 indeterminate;
\* short: shortfall_seconds > 0; affected: commitments no longer realistic.
Verdict == [level : 0..3, short : BOOLEAN, affected : SUBSET Reservations]
\* No candidate, one inside the granted delay, one beyond it.
Offers == {"none", "within", "beyond"}

ASSUME RecoveryAssumption ==
    /\ Order \in Seq(Reservations) /\ Range(Order) = Reservations /\ IsInjective(Order)
    /\ Truths \subseteq Verdict
    /\ \A t \in Truths : /\ t.level = 0 => ~t.short
                         /\ t.level \in 1..2 => t.short
                         /\ t.affected # {} => t.short /\ t.level \in 2..3
    /\ Targets \subseteq [Reservations -> Offers] /\ Targets # {}
    /\ MaxAuto \in Nat /\ MaxFaults \in Nat
    /\ MaxAttempts \in Nat \ {0} /\ MaxRev \in Nat \ {0}

VARIABLES
    truth,     \* truth[v]: the verdict of revision v, for every revision so far
    work,      \* work[v]: the reassessment of revision v
    proposal,  \* proposal[v]: the offers of the automatic proposal of v, if it was made
    incident,  \* operational_recovery_incidents, in the order of creation
    ledger,    \* operational_recovery_escalations
    action,    \* operational_recovery_actions: status by idempotency key
    moved,     \* keys under which Booking has moved the reservation
    notices,   \* communication tasks, by dedupe identity
    run,       \* run[w]: the handler execution of worker w
    assessed,  \* history: revisions whose verdict has been committed
    faults

vars == <<truth, work, proposal, incident, ledger, action, moved, notices, run, assessed, faults>>
source == <<truth, work>>
ours == <<proposal, incident, ledger, assessed>>
acts == <<action, moved, notices>>

Rev == Len(truth)
Offer(r, t) == [res |-> r, target |-> t]
OffersOf(v) == IF v \in DOMAIN proposal THEN proposal[v] ELSE {}

\* autonomy_reschedule_key: incident, reservation and source revision.
Key(i, r, v) == [inc |-> i, res |-> r, rev |-> v]

Statuses == {"prepared", "running", "succeeded", "rejected"}
Work == [st : {"pending", "leased", "completed", "cancelled", "dead"}, tries : 0..MaxAttempts]
Incident == [st : {"open", "resolved"}, rev : Nat, level : 0..3, prop : Nat]
ActionKey == [inc : Nat, res : Reservations, rev : Nat]

\* The steps of one planned move, and all steps of a handler execution.
ItemStages == {"incident", "prepare", "authorize", "book", "reject",
               "reassess", "lookup", "upsert", "succeed", "notify"}
Stages == {"idle", "assess", "commit", "impact", "plan", "settle"} \cup ItemStages

\* What an execution keeps: the reassessment v with its claim, the revision it
\* assessed and the offers found, the incident and the proposal it works on,
\* whom it still has to tell or to move, and the incident as it read it.
NoRow == [st |-> "resolved", rev |-> 0, level |-> 0, prop |-> 0]
Stage(pc, v, tok, i, p, todo, fresh) ==
    [pc |-> pc, v |-> v, tok |-> tok, seen |-> 0, offers |-> {},
     inc |-> i, prop |-> p, todo |-> todo, fresh |-> fresh, row |-> NoRow]
Idle == Stage("idle", 0, 0, 0, 0, {}, {})
Execution == [pc : Stages, v : Nat, tok : Nat, seen : Nat,
              offers : SUBSET [res : Reservations, target : Offers],
              inc : Nat, prop : Nat, todo : SUBSET Reservations, fresh : SUBSET Reservations,
              row : Incident]

TypeOK ==
    /\ truth \in Seq(Truths) /\ Rev \in 1..MaxRev
    /\ work \in [1..Rev -> Work]
    /\ DOMAIN proposal \subseteq 1..Rev
    /\ \A v \in DOMAIN proposal : \A p \in proposal[v] :
          p.res \in truth[v].affected /\ p.target \in Offers
    /\ incident \in Seq(Incident)
    /\ \A i \in DOMAIN incident : incident[i].rev \in 1..Rev /\ incident[i].prop \in 0..Rev
    /\ DOMAIN action \subseteq ActionKey /\ IsFiniteSet(DOMAIN action)
    /\ action \in [DOMAIN action -> Statuses]
    /\ moved \subseteq DOMAIN action
    /\ run \in [Workers -> Execution]
    /\ assessed \subseteq 1..Rev
    /\ faults \in 0..MaxFaults

Init ==
    /\ \E t \in Truths : truth = <<t>>
    /\ work = [v \in 1..1 |-> [st |-> "pending", tries |-> 0]]
    /\ proposal = [v \in {} |-> {}]
    /\ incident = <<>>
    /\ ledger = {}
    /\ action = [k \in {} |-> "prepared"]
    /\ moved = {} /\ notices = {} /\ assessed = {}
    /\ run = [w \in Workers |-> Idle]
    /\ faults = 0

-----------------------------------------------------------------------------
(* The source revision *)

\* A pending reassessment of an older revision is cancelled.
Superseded(a) == [st |-> IF a.st = "pending" THEN "cancelled" ELSE a.st, tries |-> a.tries]

\* Defect: superseding reaches the revision just scheduled.
ScheduleThenSupersede ==
    work' = [v \in 1..Rev + 1 |-> IF v > Rev THEN [st |-> "cancelled", tries |-> 0]
                                 ELSE Superseded(work[v])]

\* schedule_recovery_reassessment: one reassessment per revision; the pending
\* ones of older revisions are superseded.
Schedule ==
    work' = [v \in 1..Rev + 1 |-> IF v > Rev THEN [st |-> "pending", tries |-> 0]
                                 ELSE Superseded(work[v])]

\* bump_recovery_source_revision, in the transaction of the change.
Bump(t) ==
    /\ Rev < MaxRev
    /\ truth' = Append(truth, t)
    /\ Schedule

SourceChanges ==
    /\ \E t \in Truths : Bump(t)
    /\ UNCHANGED <<ours, acts, run, faults>>

-----------------------------------------------------------------------------
(* The reassessment: claim, verdict, commit *)

At(w, p) == run[w].pc = p
Goto(w, p) == run' = [run EXCEPT ![w].pc = p]
Stop(w) == run' = [run EXCEPT ![w] = Idle]
Enter(w, pc, i, p, todo, fresh) ==
    run' = [run EXCEPT ![w] = Stage(pc, run[w].v, run[w].tok, i, p, todo, fresh)]
\* The handler returns; the runtime will complete the reassessment.
Done(w) == Enter(w, "settle", 0, 0, {}, {})
Fault == faults < MaxFaults /\ faults' = faults + 1

\* lock_action_claim and the runtime's fences: w still holds the claim.
Holds(w) == /\ work[run[w].v].st = "leased"
            /\ work[run[w].v].tries = run[w].tok

Abandoned(v) ==
    {w \in Workers : ~At(w, "idle") /\ run[w].v = v /\ run[w].tok = work[v].tries} = {}

\* The claim and the handler's advisory read of the revision.
Take(w, v) ==
    /\ At(w, "idle")
    /\ work[v].tries < MaxAttempts
    /\ work' = [work EXCEPT ![v] = [st |-> "leased", tries |-> work[v].tries + 1]]
    /\ run' = [run EXCEPT ![w] = Stage(IF Rev = v THEN "assess" ELSE "settle",
                                       v, work[v].tries + 1, 0, 0, {}, {})]
    /\ UNCHANGED <<truth, ours, acts>>

\* A reassessment is claimed when it is pending or its holder died...
Claim(w, v) ==
    /\ work[v].st = "pending" \/ (work[v].st = "leased" /\ Abandoned(v))
    /\ Take(w, v)
    /\ UNCHANGED faults

\* ...or when a live holder lets the lease expire.
Takeover(w, v) == work[v].st = "leased" /\ ~Abandoned(v) /\ Take(w, v) /\ Fault

\* An abandoned reassessment without attempts left is dead-lettered.
Exhaust(v) ==
    /\ work[v].st = "leased" /\ Abandoned(v) /\ work[v].tries = MaxAttempts
    /\ work' = [work EXCEPT ![v].st = "dead"]
    /\ UNCHANGED <<truth, ours, acts, run, faults>>

\* The runtime completes the reassessment, unless the claim is lost.
Settle(w) ==
    /\ At(w, "settle")
    /\ work' = IF Holds(w) THEN [work EXCEPT ![run[w].v].st = "completed"] ELSE work
    /\ Stop(w)
    /\ UNCHANGED <<truth, ours, acts, faults>>

\* An exception leaves the handler: retry_after, dead on the last attempt.
Failed(w) ==
    /\ work' = IF Holds(w)
               THEN [work EXCEPT ![run[w].v].st = IF run[w].tok < MaxAttempts THEN "pending" ELSE "dead"]
               ELSE work
    /\ Stop(w)

\* assess_recovery_capacity in one snapshot, then build_proposal: a candidate
\* or none for each affected reservation.
Assess(w) ==
    /\ At(w, "assess")
    /\ \E f \in Targets :
          run' = [run EXCEPT ![w].pc = "commit", ![w].seen = Rev,
                             ![w].offers = {Offer(r, f[r]) : r \in truth[Rev].affected}]
    /\ UNCHANGED <<source, ours, acts, faults>>

\* get_open_incident: 0 when there is none.
OpenIncident ==
    LET Open == {i \in DOMAIN incident : incident[i].st = "open"}
    IN  IF Open = {} THEN 0 ELSE CHOOSE i \in Open : TRUE

\* classify_recovery_assessment; only a shortfall has a proposal.
Material(t) == t.level > 0
ProposalOf(t, v) == IF t.short THEN v ELSE 0

\* insert_incident, update_incident: verdict t under revision v, proposal p.
Row(t, v, p) == [st |-> IF Material(t) THEN "open" ELSE "resolved", rev |-> v, level |-> t.level, prop |-> p]
Upserted(row) ==
    IF OpenIncident = 0 THEN Append(incident, row)
    ELSE [incident EXCEPT ![OpenIncident] = row]

\* evaluate_recovery_escalation_policy: who must be told.
Impact(t) == IF t.level \in 1..2 THEN t.affected ELSE {}
Outcome(i, v, t, previous) ==
    [inc |-> i, rev |-> v,
     operator |-> Material(t) /\ (previous = 0 \/ t.level > incident[previous].level),
     impact |-> Impact(t)]

\* record_escalation_outcome, unique by incident and revision.
Recorded(i, v) == \E e \in ledger : e.inc = i /\ e.rev = v
Cleared(i) == \E e \in ledger : e.inc = i /\ ~e.operator /\ e.impact = {}

\* record_healthy_scope_closure: the newest resolved incident whose ledger has
\* no cleared outcome.
Closable == {i \in DOMAIN incident : incident[i].st = "resolved" /\ ~Cleared(i)}

\* What the handler does next: tell the recipients of the impact, then plan
\* the moves of proposal p, if there is one.
Continue(w, i, p, recipients) ==
    \/ recipients # {} /\ Enter(w, "impact", i, p, recipients, {})
    \/ recipients = {} /\ p # 0 /\ Enter(w, "plan", i, 0, {}, {})
    \/ recipients = {} /\ p = 0 /\ Done(w)

\* Defect: a verdict taken at another revision is committed.
FreshWhenClaimed(w) == TRUE

\* The fence of the commit: claimed revision, current revision and assessed
\* revision are one.
Fresh(w) == Rev = run[w].v /\ run[w].seen = run[w].v

\* This revision's verdict is already on the open incident.
AlreadyCommitted(v) ==
    /\ OpenIncident # 0
    /\ incident[OpenIncident].rev = v
    /\ v \in DOMAIN proposal /\ incident[OpenIncident].prop = v

\* insert_automatic_proposal: one proposal per revision, the first one stays.
Proposed(v, offers) ==
    [u \in DOMAIN proposal \cup {v} |-> IF u \in DOMAIN proposal THEN proposal[u] ELSE offers]

\* PostgresScheduledAssessmentStore.commit.  A repeated assessment never
\* matches the incident by fingerprint, since that covers the instant of
\* observation: without a proposal to recognise it by, it is written again.
Commit(w) ==
    LET v == run[w].v
        t == truth[run[w].seen]
        i == OpenIncident
        p == ProposalOf(t, v)
        target == IF i = 0 THEN Len(incident) + 1 ELSE i
        newest == CHOOSE c \in Closable : \A d \in Closable : d <= c
        ok == Holds(w) /\ Fresh(w)
    IN
    /\ At(w, "commit")
    /\ \/ ~Holds(w) /\ Stop(w) /\ UNCHANGED <<work, ours>>
       \/ Holds(w) /\ ~Fresh(w) /\ Done(w) /\ UNCHANGED <<work, ours>>
       \/ /\ ok /\ AlreadyCommitted(v)
          /\ Continue(w, i, v, {})
          /\ UNCHANGED <<work, ours>>
       \/ /\ ok /\ ~Material(t) /\ i = 0
          /\ ledger' = IF Closable = {} THEN ledger ELSE ledger \cup {Outcome(newest, v, t, 0)}
          /\ assessed' = assessed \cup {v}
          /\ Done(w)
          /\ UNCHANGED <<work, proposal, incident>>
       \/ /\ ok /\ ~AlreadyCommitted(v) /\ (Material(t) \/ i # 0) /\ Recorded(target, v)
          /\ Failed(w)
          /\ UNCHANGED ours
       \/ /\ ok /\ ~AlreadyCommitted(v) /\ (Material(t) \/ i # 0) /\ ~Recorded(target, v)
          /\ proposal' = IF p = 0 THEN proposal ELSE Proposed(v, run[w].offers)
          /\ incident' = Upserted(Row(t, v, p))
          /\ ledger' = ledger \cup {Outcome(target, v, t, i)}
          /\ assessed' = assessed \cup {v}
          /\ Continue(w, target, p, Impact(t))
          /\ UNCHANGED work
    /\ UNCHANGED <<truth, acts, faults>>

-----------------------------------------------------------------------------
(* Impact notices and the autonomous plan *)

Notice(purpose, i, r, v) == [purpose |-> purpose, inc |-> i, res |-> r, rev |-> v]

\* A proposal lists the reservations in a fixed order, and so they are served.
First(S) ==
    Order[CHOOSE n \in DOMAIN Order :
             Order[n] \in S /\ \A m \in DOMAIN Order : Order[m] \in S => n <= m]

\* communicate_impact, one recipient a step; the dedupe identity makes a
\* repeated notice the same task.
CommunicateImpact(w) ==
    /\ At(w, "impact")
    /\ notices' = notices \cup {Notice("impact", run[w].inc, First(run[w].todo), run[w].v)}
    /\ Continue(w, run[w].inc, run[w].prop, run[w].todo \ {First(run[w].todo)})
    /\ UNCHANGED <<source, ours, action, moved, faults>>

\* reschedule_within_envelope and autonomous_attempt_keys.
Within(v) == {r \in Reservations : Offer(r, "within") \in OffersOf(v)}
Attempts(i) == {k \in DOMAIN action : k.inc = i}

\* Defect: the cap admits one attempt too many.
BudgetOffByOne(i) == Cardinality(Attempts(i)) <= MaxAuto

BudgetLeft(i) == Cardinality(Attempts(i)) < MaxAuto

\* autonomous_execution_plan: what was already attempted at this revision, then
\* at most one new attempt, while the incident's budget lasts.
Tried(i, v) == {r \in Within(v) : Key(i, r, v) \in DOMAIN action}
NewAttempt(i, v) ==
    LET untried == Within(v) \ Tried(i, v)
    IN  IF untried # {} /\ BudgetLeft(i) THEN {First(untried)} ELSE {}

\* The moves under way: the repeated ones first, then the new one.
Moves(w, again, new) ==
    \/ again # {} /\ Enter(w, "incident", run[w].inc, 0, again, new)
    \/ again = {} /\ new # {} /\ Enter(w, "incident", run[w].inc, 0, new, {})
    \/ again = {} /\ new = {} /\ Done(w)

Plan(w) ==
    /\ At(w, "plan")
    /\ Moves(w, Tried(run[w].inc, run[w].v), NewAttempt(run[w].inc, run[w].v))
    /\ UNCHANGED <<source, ours, acts, faults>>

-----------------------------------------------------------------------------
(* The reschedule action *)

Item(w) == First(run[w].todo)
This(w) == Key(run[w].inc, Item(w), run[w].v)

\* The item is over: the next one of the plan, or the end.
NextItem(w) == Moves(w, run[w].todo \ {Item(w)}, run[w].fresh)

\* get_incident: the row the rest of the command goes by.
ReadIncident(w) ==
    /\ At(w, "incident")
    /\ run' = [run EXCEPT ![w].pc = "prepare", ![w].row = incident[run[w].inc]]
    /\ UNCHANGED <<source, ours, acts, faults>>

\* prepare_action: a terminal action is the command's answer, whichever way it
\* ended; a running one is resumed.
PrepareAction(w) ==
    LET k == This(w) IN
    /\ At(w, "prepare")
    /\ IF k \notin DOMAIN action
       THEN /\ action' = [x \in DOMAIN action \cup {k} |-> IF x = k THEN "prepared" ELSE action[x]]
            /\ Goto(w, "authorize")
       ELSE /\ UNCHANGED action
            /\ Goto(w, CASE action[k] = "prepared" -> "authorize"
                         [] action[k] = "running" -> "book"
                         [] OTHER -> "notify")
    /\ UNCHANGED <<source, ours, moved, notices, faults>>

\* transition_action: compare and set; finding the wanted status is success.
Transition(k, expected, status) ==
    action' = IF action[k] = expected THEN [action EXCEPT ![k] = status] ELSE action
Reached(k, expected, status) == action[k] \in {expected, status}

\* The incident, as read, still is what the command was given for.
Current(w) == run[w].row.st = "open" /\ run[w].row.rev = run[w].v

\* validate_fresh_reschedule_authorization.
Authorized(w) == run[w].row.prop \in {0, run[w].v}

Authorize(w) ==
    LET k == This(w) IN
    /\ At(w, "authorize")
    /\ IF Current(w)
       THEN /\ Transition(k, "prepared", "running")
            /\ IF Reached(k, "prepared", "running")
               THEN Goto(w, IF Authorized(w) THEN "book" ELSE "reject")
               ELSE NextItem(w)
       ELSE Transition(k, "prepared", "rejected") /\ NextItem(w)
    /\ UNCHANGED <<source, ours, moved, notices, faults>>

\* Defect: Booking does not compare the locked source revision.
BookAnyRevision(v) == TRUE

\* require_recovery_source_revision, under the row lock.
SourceUnchanged(v) == Rev = v

\* execute_recovery_reschedule: replayed by its own idempotency key, refused
\* when the source moved on or the target is gone, else the reservation moves
\* and the same transaction advances the source revision.
Book(w) ==
    LET k == This(w) IN
    /\ At(w, "book")
    /\ \/ k \in moved /\ Goto(w, "reassess") /\ UNCHANGED <<source, moved>>
       \/ k \notin moved /\ Goto(w, "reject") /\ UNCHANGED <<source, moved>>
       \/ /\ k \notin moved /\ SourceUnchanged(k.rev)
          /\ moved' = moved \cup {k}
          /\ \E t \in Truths : Bump(t)
          /\ Goto(w, "reassess")
    /\ UNCHANGED <<ours, action, notices, faults>>

\* reject_reschedule_action, and the rejection it re-raises.
Reject(w) ==
    /\ At(w, "reject")
    /\ Transition(This(w), "running", "rejected")
    /\ NextItem(w)
    /\ UNCHANGED <<source, ours, moved, notices, faults>>

\* reconcile_recovery_incident: assess, look for the incident, and write it,
\* in three transactions and without a fence.
Reassess(w) ==
    /\ At(w, "reassess")
    /\ run' = [run EXCEPT ![w].pc = "lookup", ![w].seen = Rev]
    /\ UNCHANGED <<source, ours, acts, faults>>

Lookup(w) ==
    /\ At(w, "lookup")
    /\ Goto(w, IF ~Material(truth[run[w].seen]) /\ OpenIncident = 0 THEN "succeed" ELSE "upsert")
    /\ UNCHANGED <<source, ours, acts, faults>>

\* upsert_assessment keeps the proposal the command read; a healthy verdict
\* without an open incident is a LookupError.
Upsert(w) ==
    /\ At(w, "upsert")
    /\ IF ~Material(truth[run[w].seen]) /\ OpenIncident = 0
       THEN Failed(w) /\ UNCHANGED incident
       ELSE /\ incident' = Upserted(Row(truth[run[w].seen], run[w].seen, run[w].row.prop))
            /\ Goto(w, "succeed")
            /\ UNCHANGED work
    /\ UNCHANGED <<truth, proposal, ledger, assessed, acts, faults>>

Succeed(w) ==
    /\ At(w, "succeed")
    /\ Transition(This(w), "running", "succeeded")
    /\ IF Reached(This(w), "running", "succeeded") THEN Goto(w, "notify") ELSE NextItem(w)
    /\ UNCHANGED <<source, ours, moved, notices, faults>>

\* execute_autonomy_plan tells the subject, whatever the action's status.
Notify(w) ==
    /\ At(w, "notify")
    /\ notices' = notices \cup {Notice("rescheduled", run[w].inc, Item(w), run[w].v)}
    /\ NextItem(w)
    /\ UNCHANGED <<source, ours, action, moved, faults>>

-----------------------------------------------------------------------------
(* Failures *)

\* The process dies between two transactions.
Crash(w) ==
    /\ ~At(w, "idle") /\ Fault
    /\ Stop(w)
    /\ UNCHANGED <<source, ours, acts>>

\* A transaction of the handler fails: the exception goes to the runtime.
Fails(w) ==
    /\ ~At(w, "idle") /\ ~At(w, "settle") /\ Fault
    /\ Failed(w)
    /\ UNCHANGED <<truth, ours, acts>>

-----------------------------------------------------------------------------

Handle(w) ==
    \/ Assess(w) \/ Commit(w)
    \/ CommunicateImpact(w) \/ Plan(w) \/ Settle(w)

Reschedule(w) ==
    \/ ReadIncident(w) \/ PrepareAction(w) \/ Authorize(w) \/ Book(w) \/ Reject(w)
    \/ Reassess(w) \/ Lookup(w) \/ Upsert(w) \/ Succeed(w) \/ Notify(w)

Next ==
    \/ SourceChanges
    \/ \E w \in Workers : Handle(w) \/ Reschedule(w) \/ Crash(w) \/ Fails(w)
    \/ \E w \in Workers, v \in 1..Rev : Claim(w, v) \/ Takeover(w, v)
    \/ \E v \in 1..Rev : Exhaust(v)

Spec == Init /\ [][Next]_vars

\* Workers keep polling for work and a handler that runs keeps running.
FairSpec ==
    /\ Spec
    /\ \A w \in Workers : WF_vars(Handle(w) \/ Reschedule(w))
    /\ WF_vars(\E w \in Workers, v \in 1..MaxRev : v <= Rev /\ Claim(w, v))

-----------------------------------------------------------------------------
(* Properties *)

\* The granted envelope caps what the automation really does to an incident:
\* the appointments it moved for one incident never exceed the cap, although
\* the attempts are counted in one transaction, recorded in a second and
\* executed in a third, by workers that may hold the same or an older
\* revision's reassessment at once (autonomous_execution_plan).
AutonomyBudget ==
    \A i \in DOMAIN incident : Cardinality({k \in moved : k.inc = i}) <= MaxAuto

\* A recovery move disturbs only a reservation that the truth of this moment
\* says cannot be kept, and the automation moves none beyond the granted
\* delay: a proposal computed for an earlier revision moves nobody
\* (require_recovery_source_revision, reschedule_within_envelope).
NoNeedlessMove ==
    [][\A k \in moved' \ moved :
          /\ k.res \in truth[Rev].affected
          /\ Offer(k.res, "within") \in OffersOf(k.rev)]_vars

\* What is recorded and told about a revision is what F4 said of that revision:
\* every escalation outcome names the commitments its own revision broke, and
\* every impact notice rests on such an outcome (the commit's fence).
ImpactIsTrue ==
    /\ \A e \in ledger : e.impact = Impact(truth[e.rev])
    /\ \A n \in notices : n.purpose = "impact" =>
          \E e \in ledger : e.inc = n.inc /\ e.rev = n.rev /\ n.res \in e.impact

\* The latest authoritative revision is never given up unassessed: through any
\* sequence of changes, take-overs, crashes and superseded reassessments, its
\* own is neither cancelled nor completed before its verdict is committed.
\* Checked together with the types of the state.
NoRevisionLost ==
    /\ TypeOK
    /\ work[Rev].st \in {"completed", "cancelled"} => Rev \in assessed

\* Contract 32 section 13: "the persisted purpose MUST match what actually
\* happened" - a rescheduled notice is only for an appointment Booking moved.
NoticesMatchMoves ==
    \A n \in notices : n.purpose = "rescheduled" => Key(n.inc, n.res, n.rev) \in moved

\* Contract 32 section 14: "each moved subject receives a deduped
\* `operational_recovery_rescheduled` notification".
MovesAreTold ==
    \A i \in 1..MaxRev, r \in Reservations, v \in 1..MaxRev :
        Key(i, r, v) \in moved ~> Notice("rescheduled", i, r, v) \in notices

\* Contract 32 section 15 A: an incident "resolves only after truth is
\* restored" - with the current revision assessed and nothing in progress, an
\* incident is open exactly when the truth is material.
IncidentIsTrue ==
    (Rev \in assessed /\ \A w \in Workers : At(w, "idle"))
        => (OpenIncident # 0 <=> Material(truth[Rev]))

-----------------------------------------------------------------------------
(* The inductive invariant *)

MovedFor(i) == {k \in moved : k.inc = i}

\* What may still move at this revision is inside the incident's budget.  The
\* attempts of an older revision may exceed the cap, but Booking refuses them.
Allowed(k) == k.rev = Rev => Cardinality(MovedFor(k.inc)) < MaxAuto

\* A move advances the revision, so a revision moves at most once.
BudgetSound ==
    /\ \A k \in DOMAIN action : k.rev <= Rev /\ Allowed(k)
    /\ \A k \in moved : k.rev < Rev /\ Cardinality(MovedFor(k.inc)) <= MaxAuto

\* Who is being told, or moved, by execution x.
TellsTruth(x) ==
    \E e \in ledger : e.inc = x.inc /\ e.rev = x.v /\ x.todo \subseteq e.impact

MovesWithin(x) ==
    \A r \in x.todo \cup x.fresh : r \in Within(x.v) /\ Allowed(Key(x.inc, r, x.v))

\* An execution past its commit at the current revision has committed that
\* revision's verdict.
ExecutionSound(x) ==
    /\ x.v \in 1..Rev
    /\ x.pc = "commit" =>
          /\ x.seen \in x.v..Rev
          /\ \A p \in x.offers : p.res \in truth[x.seen].affected
    /\ x.pc \notin {"assess", "commit"} /\ x.v = Rev => Rev \in assessed
    /\ x.pc \in {"impact", "plan"} \cup ItemStages => x.inc \in DOMAIN incident
    /\ x.pc = "impact" => x.todo # {} /\ TellsTruth(x)
    /\ x.pc \in ItemStages =>
          /\ x.todo # {} /\ MovesWithin(x)
          /\ x.pc \notin {"incident", "prepare"} => Key(x.inc, First(x.todo), x.v) \in DOMAIN action
          /\ x.row.prop <= Rev
    /\ x.pc \in {"lookup", "upsert"} => x.seen \in 1..Rev

LedgerSound == \A e \in ledger : e.rev \in 1..Rev /\ e.impact = Impact(truth[e.rev])

RecoveryInv ==
    /\ NoRevisionLost
    /\ ImpactIsTrue
    /\ LedgerSound
    /\ DOMAIN proposal \subseteq assessed
    /\ BudgetSound
    /\ \A w \in Workers : ~At(w, "idle") => ExecutionSound(run[w])
=============================================================================
