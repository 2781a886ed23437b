------------------------- MODULE ReservationLifecycle -------------------------
(***************************************************************************)
(* One Reservation, the clients that change it, the outbox events it       *)
(* emits, the worker that turns those events into a no-show evaluation     *)
(* (handle_reservation_lifecycle_event), and the scheduled action that     *)
(* performs the evaluation.                                                *)
(*                                                                         *)
(* A command is one transaction that locks the Reservation row, so it is   *)
(* one step.  The event handler is several transactions: it reads a        *)
(* snapshot, reconciles the schedule from that snapshot, and then runs the *)
(* remaining consequences and publishes.  It may crash between any two of  *)
(* them and, once its lease expires, a second handler works on the same    *)
(* event while the first is still running: the reconciliation is not       *)
(* fenced by the outbox claim.  The leases themselves are the subject of   *)
(* WorkLease; here a lease may expire at any moment.                       *)
(***************************************************************************)
EXTENDS Integers, Sequences, FiniteSets

CONSTANTS
    Starts,         \* start instants a slot may have
    NoShowAfter,    \* no_show_after_minutes of the policy snapshot
    DeclineCancels, \* decline_action = "cancel" in the policy snapshot
    MaxTime,        \* bound on clock_timestamp()
    Clients,        \* callers of the Reservation commands
    Handlers,       \* concurrent executions of the outbox handler
    MaxEvents,      \* bound on the lifecycle events of the Reservation
    MaxRevision,    \* bound on the revision a command may still raise
    EventAttempts,  \* max_attempts of an outbox message
    ActionAttempts  \* max_attempts of a scheduled action

ASSUME LifecycleAssumption ==
    /\ Starts \subseteq Nat /\ Starts # {}
    /\ NoShowAfter \in Nat \ {0}
    /\ DeclineCancels \in BOOLEAN
    /\ MaxTime \in Nat
    /\ MaxEvents \in Nat \ {0}
    /\ MaxRevision \in Nat \ {0}
    /\ EventAttempts \in Nat \ {0}
    /\ ActionAttempts \in Nat \ {0}

VARIABLES
    now,        \* clock_timestamp()
    res,        \* the Reservation row with its attendance projection
    view,       \* view[c]: what client c last read, or NoView
    events,     \* lifecycle outbox messages, in the order of their commits
    job,        \* job[h]: the event handler execution h, or NoJob
    action,     \* action[s]: the scheduled action with the dedupe key of start s
    evaluated,  \* starts whose no-show idempotency key is completed
    recorded    \* number of reservation.no_show_recorded.v1 events

vars == <<now, res, view, events, job, action, evaluated, recorded>>

NoView == [revision |-> 0]
NoJob  == [at |-> "idle"]

Attendances == {"pending", "checked_in", "no_show"}
EventTypes  == {"created", "rescheduled", "cancelled"}

Reservation == [status: {"confirmed", "cancelled"}, start: Starts,
                revision: 1..(MaxRevision + 1), attendance: Attendances]
Event  == [type: EventTypes, state: {"pending", "delivered", "dead"},
           attempts: 0..EventAttempts]
Job    == [at: {"read"}, event: 1..MaxEvents, claim: 1..EventAttempts]
          \cup [at: {"schedule", "rest"}, event: 1..MaxEvents,
                claim: 1..EventAttempts, snap: Reservation]
Action == [status: {"none", "pending", "leased", "completed", "cancelled", "dead"},
           executeAt: Nat, attempts: 0..ActionAttempts,
           ran: BOOLEAN]

NewEvent(type) == [type |-> type, state |-> "pending", attempts |-> 0]

TypeOK ==
    /\ now \in 0..MaxTime
    /\ res \in Reservation
    /\ view \in [Clients -> Reservation \cup {NoView}]
    /\ events \in Seq(Event) /\ Len(events) <= MaxEvents
    /\ job \in [Handlers -> Job \cup {NoJob}]
    /\ action \in [Starts -> Action]
    /\ evaluated \subseteq Starts
    /\ recorded \in Nat

Init ==
    /\ now = 0
    /\ \E s \in Starts : res = [status |-> "confirmed", start |-> s,
                                revision |-> 1, attendance |-> "pending"]
    /\ view = [c \in Clients |-> NoView]
    /\ events = <<NewEvent("created")>>
    /\ job = [h \in Handlers |-> NoJob]
    /\ action = [s \in Starts |-> [status |-> "none", executeAt |-> 0,
                                   attempts |-> 0, ran |-> FALSE]]
    /\ evaluated = {}
    /\ recorded = 0

-----------------------------------------------------------------------------
(* Commands.  Each one compares expected_revision with the locked row. *)

Read(c) ==
    /\ view' = [view EXCEPT ![c] = res]
    /\ UNCHANGED <<now, res, events, job, action, evaluated, recorded>>

\* ensure_reservation_revision and the confirmed check; the client's view is
\* consumed by the attempt.
Accepted(c) ==
    /\ view[c].revision = res.revision
    /\ res.status = "confirmed"
    /\ res.revision < MaxRevision
    /\ view' = [view EXCEPT ![c] = NoView]

Emit(type) ==
    /\ Len(events) < MaxEvents
    /\ events' = Append(events, NewEvent(type))

\* UPDATE ... SET status = 'cancelled' WHERE status = 'pending' AND key not kept.
WithoutPending(keep) ==
    [s \in Starts |-> IF action[s].status = "pending" /\ s \notin keep
                      THEN [action[s] EXCEPT !.status = "cancelled"]
                      ELSE action[s]]

CancelReservation(c) ==
    /\ Accepted(c)
    /\ res' = [res EXCEPT !.status = "cancelled", !.revision = @ + 1]
    /\ Emit("cancelled")
    /\ UNCHANGED <<now, job, action, evaluated, recorded>>

\* Neither the attendance nor the scheduled actions are touched here.
RescheduleReservation(c, s) ==
    /\ Accepted(c)
    /\ res' = [res EXCEPT !.start = s, !.revision = @ + 1]
    /\ Emit("rescheduled")
    /\ UNCHANGED <<now, job, action, evaluated, recorded>>

\* record_attendance: a decline may cancel the Reservation, by policy.
RecordAttendance(c, response) ==
    /\ Accepted(c)
    /\ IF response = "declined" /\ DeclineCancels
       THEN /\ res' = [res EXCEPT !.status = "cancelled", !.revision = @ + 1]
            /\ action' = WithoutPending({})
            /\ Emit("cancelled")
       ELSE /\ res' = [res EXCEPT !.revision = @ + 1]
            /\ UNCHANGED <<action, events>>
    /\ UNCHANGED <<now, job, evaluated, recorded>>

CheckInReservation(c) ==
    /\ Accepted(c)
    /\ res.attendance = "pending"
    /\ res' = [res EXCEPT !.attendance = "checked_in", !.revision = @ + 1]
    /\ action' = WithoutPending({})
    /\ UNCHANGED <<now, events, job, evaluated, recorded>>

-----------------------------------------------------------------------------
(* The lifecycle event handler *)

\* The outbox claims event e for execution h, possibly while the execution of
\* an expired claim is still running.
ClaimEvent(h, e) ==
    /\ job[h] = NoJob
    /\ events[e].state = "pending"
    /\ events[e].attempts < EventAttempts
    /\ events' = [events EXCEPT ![e].attempts = @ + 1]
    /\ job' = [job EXCEPT ![h] = [at |-> "read", event |-> e,
                                  claim |-> events[e].attempts + 1]]
    /\ UNCHANGED <<now, res, view, action, evaluated, recorded>>

\* get_lifecycle_snapshot, in a transaction of its own.
ReadSnapshot(h) ==
    /\ job[h].at = "read"
    /\ job' = [job EXCEPT ![h] = [at |-> "schedule", event |-> job[h].event,
                                  claim |-> job[h].claim, snap |-> res]]
    /\ UNCHANGED <<now, res, view, events, action, evaluated, recorded>>

\* max(start + no_show_after, db_now)
ExecuteAt(s) == IF s + NoShowAfter <= now THEN now ELSE s + NoShowAfter

\* Defect: the obsolete rows are cancelled after the insert, the new one too.
ScheduleThenCancel(s) ==
    [WithoutPending({}) EXCEPT ![s] =
        IF @.status = "none"
        THEN [status |-> "cancelled", executeAt |-> ExecuteAt(s),
              attempts |-> 0, ran |-> FALSE]
        ELSE @]

\* schedule_action: insert, or accept an existing row with equal contents
\* whatever its status.  The other pending rows have been cancelled.
ScheduleAction(s) ==
    LET kept == WithoutPending({s})
    IN  IF action[s].status = "none"
        THEN [kept EXCEPT ![s] = [status |-> "pending", executeAt |-> ExecuteAt(s),
                                  attempts |-> 0, ran |-> FALSE]]
        ELSE kept

\* ScheduledActionDedupeConflict: the row exists with another execute_at.
DedupeConflict(s) ==
    /\ action[s].status # "none"
    /\ action[s].executeAt # ExecuteAt(s)

\* The claim's attempt failed: retry while attempts are left, else dead-letter.
\* A stale claim changes nothing.
FailedEvent(h) ==
    LET e == job[h].event
    IN  IF /\ events[e].state = "pending"
           /\ events[e].attempts = job[h].claim
           /\ events[e].attempts >= EventAttempts
        THEN [events EXCEPT ![e].state = "dead"]
        ELSE events

Reconciles(h) ==
    /\ job[h].at = "schedule"
    /\ events[job[h].event].type # "cancelled"
    /\ job[h].snap.status = "confirmed"

\* cancel_reservation_schedule, or reconcile_reservation_schedule for a
\* snapshot that is not confirmed.
CancelSchedule(h) ==
    /\ job[h].at = "schedule"
    /\ ~Reconciles(h)
    /\ action' = WithoutPending({})
    /\ job' = [job EXCEPT ![h].at = "rest"]
    /\ UNCHANGED <<now, res, view, events, evaluated, recorded>>

\* reconcile_reservation_schedule for a confirmed snapshot.
ReconcileSchedule(h) ==
    /\ Reconciles(h)
    /\ ~DedupeConflict(job[h].snap.start)
    /\ action' = ScheduleAction(job[h].snap.start)
    /\ job' = [job EXCEPT ![h].at = "rest"]
    /\ UNCHANGED <<now, res, view, events, evaluated, recorded>>

\* The conflict rolls the transaction back and fails the attempt.
ReconcileFails(h) ==
    /\ Reconciles(h)
    /\ DedupeConflict(job[h].snap.start)
    /\ events' = FailedEvent(h)
    /\ job' = [job EXCEPT ![h] = NoJob]
    /\ UNCHANGED <<now, res, view, action, evaluated, recorded>>

\* Notifications, access, slot recovery and publication succeed; the outbox
\* row is completed if the claim is still the current one.
DeliverEvent(h) ==
    /\ job[h].at = "rest"
    /\ LET e == job[h].event
       IN  IF events[e].state = "pending" /\ events[e].attempts = job[h].claim
           THEN events' = [events EXCEPT ![e].state = "delivered"]
           ELSE UNCHANGED events
    /\ job' = [job EXCEPT ![h] = NoJob]
    /\ UNCHANGED <<now, res, view, action, evaluated, recorded>>

\* The process dies, or a later consequence fails, before the event completes.
HandlerCrash(h) ==
    /\ job[h] # NoJob
    /\ job' = [job EXCEPT ![h] = NoJob]
    /\ UNCHANGED <<now, res, view, events, action, evaluated, recorded>>

\* claim_outbox_messages dead-letters an expired claim without attempts left,
\* whether or not its handler is still running.
ExhaustEvent(e) ==
    /\ events[e].state = "pending"
    /\ events[e].attempts >= EventAttempts
    /\ events' = [events EXCEPT ![e].state = "dead"]
    /\ UNCHANGED <<now, res, view, job, action, evaluated, recorded>>

-----------------------------------------------------------------------------
(* The no-show evaluation *)

\* A due action is claimed, or reclaimed after its lease expired.
ClaimAction(s) ==
    /\ \/ action[s].status = "pending" /\ action[s].executeAt <= now
       \/ action[s].status = "leased"
    /\ action' = [action EXCEPT ![s] =
          IF action[s].attempts < ActionAttempts
          THEN [action[s] EXCEPT !.status = "leased", !.attempts = @ + 1, !.ran = FALSE]
          ELSE [action[s] EXCEPT !.status = "dead"]]
    /\ UNCHANGED <<now, res, view, events, job, evaluated, recorded>>

TooEarly == now < res.start + NoShowAfter

\* Defect: the cutoff is computed from the action's start, not the current one.
EvaluateOldStart(s) ==
    /\ action[s].status = "leased"
    /\ ~action[s].ran
    /\ s \in evaluated \/ res.status # "confirmed" \/ now >= s + NoShowAfter
    /\ IF s \notin evaluated /\ res.status = "confirmed" /\ res.attendance = "pending"
       THEN /\ res' = [res EXCEPT !.attendance = "no_show", !.revision = @ + 1]
            /\ recorded' = recorded + 1
       ELSE UNCHANGED <<res, recorded>>
    /\ evaluated' = evaluated \cup {s}
    /\ action' = [action EXCEPT ![s].ran = TRUE]
    /\ UNCHANGED <<now, view, events, job>>

\* Defect: the outcome is recorded without raising the revision.
EvaluateSilently(s) ==
    /\ action[s].status = "leased"
    /\ ~action[s].ran
    /\ s \in evaluated \/ res.status # "confirmed" \/ ~TooEarly
    /\ IF s \notin evaluated /\ res.status = "confirmed" /\ res.attendance = "pending"
       THEN /\ res' = [res EXCEPT !.attendance = "no_show"]
            /\ recorded' = recorded + 1
       ELSE UNCHANGED <<res, recorded>>
    /\ evaluated' = evaluated \cup {s}
    /\ action' = [action EXCEPT ![s].ran = TRUE]
    /\ UNCHANGED <<now, view, events, job>>

\* Defect: an outcome already recorded is recorded again.
EvaluateAgain(s) ==
    /\ action[s].status = "leased"
    /\ ~action[s].ran
    /\ s \in evaluated \/ res.status # "confirmed" \/ ~TooEarly
    /\ IF s \notin evaluated /\ res.status = "confirmed" /\ res.attendance # "checked_in"
       THEN /\ res' = [res EXCEPT !.attendance = "no_show", !.revision = @ + 1]
            /\ recorded' = recorded + 1
       ELSE UNCHANGED <<res, recorded>>
    /\ evaluated' = evaluated \cup {s}
    /\ action' = [action EXCEPT ![s].ran = TRUE]
    /\ UNCHANGED <<now, view, events, job>>

\* evaluate_no_show under the claim fence, including its idempotent replay.
EvaluateNoShow(s) ==
    /\ action[s].status = "leased"
    /\ ~action[s].ran
    /\ s \in evaluated \/ res.status # "confirmed" \/ ~TooEarly
    /\ IF s \notin evaluated /\ res.status = "confirmed" /\ res.attendance = "pending"
       THEN /\ res' = [res EXCEPT !.attendance = "no_show", !.revision = @ + 1]
            /\ recorded' = recorded + 1
       ELSE UNCHANGED <<res, recorded>>
    /\ evaluated' = evaluated \cup {s}
    /\ action' = [action EXCEPT ![s].ran = TRUE]
    /\ UNCHANGED <<now, view, events, job>>

\* NoShowEvaluationTooEarly rolls back and is retried, or dead-lettered.
EvaluateTooEarly(s) ==
    /\ action[s].status = "leased"
    /\ ~action[s].ran
    /\ s \notin evaluated /\ res.status = "confirmed" /\ TooEarly
    /\ action' = [action EXCEPT ![s].status =
          IF action[s].attempts < ActionAttempts THEN "pending" ELSE "dead"]
    /\ UNCHANGED <<now, res, view, events, job, evaluated, recorded>>

CompleteAction(s) ==
    /\ action[s].status = "leased"
    /\ action[s].ran
    /\ action' = [action EXCEPT ![s].status = "completed"]
    /\ UNCHANGED <<now, res, view, events, job, evaluated, recorded>>

Tick ==
    /\ now < MaxTime
    /\ now' = now + 1
    /\ UNCHANGED <<res, view, events, job, action, evaluated, recorded>>

-----------------------------------------------------------------------------

Command(c) ==
    \/ Read(c)
    \/ CancelReservation(c)
    \/ \E s \in Starts : RescheduleReservation(c, s)
    \/ \E response \in {"confirmed", "declined"} : RecordAttendance(c, response)
    \/ CheckInReservation(c)

HandlerProgress(h) ==
    \/ ReadSnapshot(h)
    \/ CancelSchedule(h)
    \/ ReconcileSchedule(h)
    \/ ReconcileFails(h)
    \/ DeliverEvent(h)

Next ==
    \/ \E c \in Clients : Command(c)
    \/ \E h \in Handlers : HandlerProgress(h) \/ HandlerCrash(h)
    \/ \E h \in Handlers, e \in DOMAIN events : ClaimEvent(h, e)
    \/ \E e \in DOMAIN events : ExhaustEvent(e)
    \/ \E s \in Starts : ClaimAction(s) \/ EvaluateNoShow(s) \/ EvaluateTooEarly(s)
                         \/ CompleteAction(s)
    \/ Tick

Spec == Init /\ [][Next]_vars

\* Time passes, the outbox and the scheduler keep claiming, and handlers that
\* do not crash finish.  Nothing is assumed of the clients.
Fairness ==
    /\ WF_vars(Tick)
    /\ \A h \in Handlers : WF_vars(HandlerProgress(h))
    /\ WF_vars(\E h \in Handlers, e \in DOMAIN events : ClaimEvent(h, e))
    /\ WF_vars(\E e \in DOMAIN events : ExhaustEvent(e))
    /\ \A s \in Starts :
          /\ WF_vars(ClaimAction(s))
          /\ WF_vars(EvaluateNoShow(s) \/ EvaluateTooEarly(s))
          /\ WF_vars(CompleteAction(s))

FairSpec == Spec /\ Fairness

-----------------------------------------------------------------------------
(* Properties *)

\* No lost update: a command changes the Reservation only if the row is still
\* exactly what its caller read, attendance included.  This needs every
\* writer, the no-show evaluation too, to raise the revision
\* (ensure_reservation_revision).
NoStaleCommand ==
    [][\A c \in Clients :
          view[c] # NoView /\ view'[c] = NoView /\ res' # res => view[c] = res
      ]_vars

\* A no-show is recorded only for a confirmed Reservation nobody checked in,
\* once the cutoff of its current start has passed, whatever start the
\* scheduled action was created for (evaluate_no_show).
NoShowJustified ==
    [][res'.attendance = "no_show" /\ res.attendance # "no_show"
       => /\ res.status = "confirmed" /\ res.attendance = "pending"
          /\ now >= res.start + NoShowAfter
      ]_vars

\* The no-show event is emitted exactly when the outcome is recorded, once,
\* although every start of the Reservation has its own action and key.
\* Checked together with the types of the state.
NoShowRecordedOnce ==
    TypeOK /\ recorded = IF res.attendance = "no_show" THEN 1 ELSE 0

\* Work that ran out of attempts is left for an operator to see.
DeadLetter ==
    \/ \E e \in DOMAIN events : events[e].state = "dead"
    \/ \E s \in Starts : action[s].status = "dead"

Undecided == res.status = "confirmed" /\ res.attendance = "pending"
Rescheduled == \E e \in DOMAIN events : events[e].type = "rescheduled"

\* A Reservation that is never rescheduled is not forgotten: it is cancelled,
\* checked in, declared a no-show, or a dead letter shows why not.
NeverForgotten ==
    Undecided ~> (~Undecided \/ Rescheduled \/ DeadLetter)

\* Every event has been handled and no handler is running.
Settled ==
    /\ \A e \in DOMAIN events : events[e].state = "delivered"
    /\ \A h \in Handlers : job[h] = NoJob

\* "Reschedule/cancel consumers idempotently cancel obsolete pending
\* actions/tasks and create replacements": once all events are delivered, an
\* undecided Reservation has an evaluation of its current start.
ReplacementScheduled ==
    Settled /\ Undecided => action[res.start].status # "cancelled"

\* "The internal handler runs again": redelivering an event is accepted by
\* the consequence it already applied (schedule_action's dedupe).
RedeliveryAccepted ==
    \A h \in Handlers : Reconciles(h) => ~DedupeConflict(job[h].snap.start)

\* "Reconciliation still converges against the latest Reservation snapshot":
\* once all events are delivered, no other start is waiting for evaluation.
ConvergesToLatest ==
    Settled => \A s \in Starts :
        action[s].status = "pending" => res.status = "confirmed" /\ s = res.start
-----------------------------------------------------------------------------
(* The inductive invariant *)

\* Only the one evaluation that records a no-show may raise the revision past
\* the bound of the commands.
RevisionBound == res.attendance # "no_show" => res.revision <= MaxRevision

\* A view of the current revision is a view of the current row.
ViewCurrent ==
    \A c \in Clients :
        /\ view[c].revision <= res.revision
        /\ view[c].revision = res.revision => view[c] = res

\* A handler works on an event that was emitted.
JobHasEvent == \A h \in Handlers : job[h] # NoJob => job[h].event \in DOMAIN events

LifecycleInv ==
    /\ NoShowRecordedOnce
    /\ RevisionBound
    /\ ViewCurrent
    /\ JobHasEvent

=============================================================================
