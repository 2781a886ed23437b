--------------------- MODULE ReservationLifecycleProofs ---------------------
(***************************************************************************)
(* Proofs about ReservationLifecycle for any starts, clients, handlers and *)
(* bounds.                                                                 *)
(***************************************************************************)
EXTENDS ReservationLifecycle, SequenceTheorems, TLAPS

-----------------------------------------------------------------------------
(* Rows *)

Revised(x)     == [x EXCEPT !.revision = @ + 1]
Cancelled(x)   == [x EXCEPT !.status = "cancelled", !.revision = @ + 1]
Moved(x, s)    == [x EXCEPT !.start = s, !.revision = @ + 1]
Attended(x, a) == [x EXCEPT !.attendance = a, !.revision = @ + 1]

\* A Reservation one revision on is a Reservation...
LEMMA RevisedRow ==
    ASSUME NEW x \in Reservation, x.revision <= MaxRevision
    PROVE  /\ Revised(x) \in Reservation
           /\ Revised(x).revision = x.revision + 1
           /\ Revised(x).attendance = x.attendance
<1>1. x.revision + 1 \in 1..(MaxRevision + 1)
  BY LifecycleAssumption DEF Reservation
<1>2. PICK y : y = Revised(x)
  OBVIOUS
<1>3. /\ y \in Reservation
      /\ y.revision = x.revision + 1 /\ y.attendance = x.attendance
  BY <1>1, <1>2 DEF Reservation, Revised
<1>4. QED
  BY <1>2, <1>3

\* ...when it is cancelled...
LEMMA CancelledRow ==
    ASSUME NEW x \in Reservation, x.revision <= MaxRevision
    PROVE  /\ Cancelled(x) \in Reservation
           /\ Cancelled(x).revision = x.revision + 1
           /\ Cancelled(x).attendance = x.attendance
<1>1. x.revision + 1 \in 1..(MaxRevision + 1)
  BY LifecycleAssumption DEF Reservation
<1>2. PICK y : y = Cancelled(x)
  OBVIOUS
<1>3. /\ y \in Reservation
      /\ y.revision = x.revision + 1 /\ y.attendance = x.attendance
  BY <1>1, <1>2 DEF Reservation, Cancelled
<1>4. QED
  BY <1>2, <1>3

\* ...when it is moved to another start...
LEMMA MovedRow ==
    ASSUME NEW x \in Reservation, x.revision <= MaxRevision, NEW s \in Starts
    PROVE  /\ Moved(x, s) \in Reservation
           /\ Moved(x, s).revision = x.revision + 1
           /\ Moved(x, s).attendance = x.attendance
<1>1. x.revision + 1 \in 1..(MaxRevision + 1)
  BY LifecycleAssumption DEF Reservation
<1>2. PICK y : y = Moved(x, s)
  OBVIOUS
<1>3. /\ y \in Reservation
      /\ y.revision = x.revision + 1 /\ y.attendance = x.attendance
  BY <1>1, <1>2 DEF Reservation, Moved
<1>4. QED
  BY <1>2, <1>3

\* ...and when its attendance is recorded.
LEMMA AttendedRow ==
    ASSUME NEW x \in Reservation, x.revision <= MaxRevision, NEW a \in Attendances
    PROVE  /\ Attended(x, a) \in Reservation
           /\ Attended(x, a).revision = x.revision + 1
           /\ Attended(x, a).attendance = a
<1>1. x.revision + 1 \in 1..(MaxRevision + 1)
  BY LifecycleAssumption DEF Reservation
<1>2. PICK y : y = Attended(x, a)
  OBVIOUS
<1>3. /\ y \in Reservation
      /\ y.revision = x.revision + 1 /\ y.attendance = a
  BY <1>1, <1>2 DEF Reservation, Attended
<1>4. QED
  BY <1>2, <1>3

-----------------------------------------------------------------------------
(* What a step does to the Reservation and to the views of it *)

\* A command that was accepted: it raises the revision and uses up the view.
Changed(c) ==
    /\ view[c].revision = res.revision
    /\ res.revision < MaxRevision
    /\ view' = [view EXCEPT ![c] = NoView]
    /\ res' \in Reservation
    /\ res'.revision = res.revision + 1
    /\ \/ res'.attendance = res.attendance
       \/ res.attendance = "pending" /\ res'.attendance = "checked_in"
    /\ recorded' = recorded

\* The evaluation records a no-show.
Recorded ==
    /\ res.status = "confirmed" /\ res.attendance = "pending" /\ ~TooEarly
    /\ res' \in Reservation
    /\ res'.revision = res.revision + 1
    /\ res'.attendance = "no_show"
    /\ recorded' = recorded + 1
    /\ view' = view

\* The rest of the system leaves the Reservation alone; a client may read it.
Kept ==
    /\ UNCHANGED <<res, recorded>>
    /\ view' = view \/ \E c \in Clients : view' = [view EXCEPT ![c] = res]

\* A command of a client reads the Reservation or changes it.
LEMMA CommandEffect ==
    ASSUME TypeOK, NEW c \in Clients, Command(c)
    PROVE  Kept \/ Changed(c)
<1>1. CASE Read(c)
  BY <1>1 DEF Read, Kept
<1>2. ASSUME Accepted(c) PROVE res \in Reservation /\ res.revision <= MaxRevision
  BY <1>2, LifecycleAssumption DEF Accepted, TypeOK, Reservation
<1>3. ASSUME Accepted(c), recorded' = recorded,
             res' \in Reservation, res'.revision = res.revision + 1,
             \/ res'.attendance = res.attendance
             \/ res.attendance = "pending" /\ res'.attendance = "checked_in"
      PROVE  Changed(c)
  BY <1>3 DEF Accepted, Changed
<1>4. ASSUME Accepted(c), recorded' = recorded, res' \in Reservation,
             res'.revision = res.revision + 1 /\ res'.attendance = res.attendance
      PROVE  Changed(c)
  BY <1>3, <1>4
<1>5. CASE CancelReservation(c)
  <2>1. Accepted(c) /\ recorded' = recorded
        /\ res' = Cancelled(res)
    BY <1>5 DEF CancelReservation, Cancelled
  <2>2. QED
    BY <1>2, <1>4, <2>1, CancelledRow
<1>6. ASSUME NEW s \in Starts, RescheduleReservation(c, s) PROVE Changed(c)
  <2>1. Accepted(c) /\ recorded' = recorded
        /\ res' = Moved(res, s)
    BY <1>6 DEF RescheduleReservation, Moved
  <2>2. QED
    BY <1>2, <1>4, <2>1, MovedRow
<1>7. ASSUME NEW response \in {"confirmed", "declined"}, RecordAttendance(c, response)
      PROVE  Changed(c)
  <2>1. Accepted(c) /\ recorded' = recorded
    BY <1>7 DEF RecordAttendance
  <2>2. \/ res' = Cancelled(res)
        \/ res' = Revised(res)
    BY <1>7 DEF RecordAttendance, Cancelled, Revised
  <2>3. CASE res' = Cancelled(res)
    BY <1>2, <1>4, <2>1, <2>3, CancelledRow
  <2>4. CASE res' = Revised(res)
    BY <1>2, <1>4, <2>1, <2>4, RevisedRow
  <2>5. QED
    BY <2>2, <2>3, <2>4
<1>8. CASE CheckInReservation(c)
  <2>1. /\ Accepted(c) /\ recorded' = recorded /\ res.attendance = "pending"
        /\ res' = Attended(res, "checked_in")
    BY <1>8 DEF CheckInReservation, Attended
  <2>2. "checked_in" \in Attendances
    BY DEF Attendances
  <2>3. /\ res' \in Reservation /\ res'.revision = res.revision + 1
        /\ res'.attendance = "checked_in"
    BY <1>2, <2>1, <2>2, AttendedRow
  <2>4. QED
    BY <1>3, <2>1, <2>3
<1>9. QED
  BY <1>1, <1>5, <1>6, <1>7, <1>8 DEF Command

\* An evaluation records a no-show of a confirmed Reservation nobody checked in
\* whose cutoff has passed, or changes nothing of it.
LEMMA EvaluateEffect ==
    ASSUME TypeOK, RevisionBound, NEW s \in Starts, EvaluateNoShow(s)
    PROVE  Kept \/ Recorded
<1>1. CASE s \notin evaluated /\ res.status = "confirmed" /\ res.attendance = "pending"
  <2>1. /\ res' = Attended(res, "no_show")
        /\ recorded' = recorded + 1 /\ view' = view /\ ~TooEarly
    BY <1>1 DEF EvaluateNoShow, Attended
  <2>2. res \in Reservation /\ res.revision <= MaxRevision
    BY <1>1 DEF TypeOK, RevisionBound
  <2>3. "no_show" \in Attendances
    BY DEF Attendances
  <2>4. res' \in Reservation /\ res'.revision = res.revision + 1 /\ res'.attendance = "no_show"
    BY <2>1, <2>2, <2>3, AttendedRow
  <2>5. QED
    BY <1>1, <2>1, <2>4 DEF Recorded
<1>2. CASE ~ (s \notin evaluated /\ res.status = "confirmed" /\ res.attendance = "pending")
  BY <1>2 DEF EvaluateNoShow, Kept
<1>3. QED
  BY <1>1, <1>2

\* Every step keeps the Reservation, is an accepted command, or records a
\* no-show.
LEMMA ReservationStep ==
    ASSUME TypeOK, RevisionBound, [Next]_vars
    PROVE  Kept \/ Recorded \/ \E c \in Clients : Changed(c)
<1>1. ASSUME NEW h \in Handlers, HandlerProgress(h) \/ HandlerCrash(h) PROVE Kept
  BY <1>1 DEF HandlerProgress, ReadSnapshot, CancelSchedule, ReconcileSchedule, ReconcileFails,
     DeliverEvent, HandlerCrash, Kept
<1>2. ASSUME NEW e \in DOMAIN events,
             ExhaustEvent(e) \/ \E h \in Handlers : ClaimEvent(h, e)
      PROVE  Kept
  BY <1>2 DEF ExhaustEvent, ClaimEvent, Kept
<1>3. ASSUME NEW s \in Starts, ClaimAction(s) \/ EvaluateTooEarly(s) \/ CompleteAction(s)
      PROVE  Kept
  BY <1>3 DEF ClaimAction, EvaluateTooEarly, CompleteAction, Kept
<1>4. CASE Tick \/ UNCHANGED vars
  BY <1>4 DEF Tick, vars, Kept
<1>5. QED
  BY <1>1, <1>2, <1>3, <1>4, CommandEffect, EvaluateEffect DEF Next

-----------------------------------------------------------------------------
(* Types of the rest of the state *)

\* A scheduled action with new fields is a scheduled action.
LEMMA ActionRow ==
    ASSUME NEW x \in Action, NEW y,
           NEW st \in {"none", "pending", "leased", "completed", "cancelled", "dead"}
    PROVE  /\ y = [x EXCEPT !.status = st] => y \in Action
           /\ y = [x EXCEPT !.ran = TRUE] => y \in Action
           /\ x.attempts < ActionAttempts /\
              y = [x EXCEPT !.status = st, !.attempts = @ + 1, !.ran = FALSE] => y \in Action
<1>1. /\ x.status \in {"none", "pending", "leased", "completed", "cancelled", "dead"}
      /\ x.executeAt \in Nat /\ x.attempts \in 0..ActionAttempts
  BY DEF Action
<1>2. x.ran \in BOOLEAN
  BY DEF Action
<1>3. ASSUME NEW n \in 0..ActionAttempts, NEW b \in BOOLEAN,
             NEW t \in {"none", "pending", "leased", "completed", "cancelled", "dead"}
      PROVE  [status |-> t, executeAt |-> x.executeAt, attempts |-> n, ran |-> b] \in Action
  BY <1>1, Zenon DEF Action
<1>4. ASSUME y = [x EXCEPT !.status = st] PROVE y \in Action
  <2>1. y = [status |-> st, executeAt |-> x.executeAt, attempts |-> x.attempts, ran |-> x.ran]
    BY <1>4 DEF Action
  <2>2. QED
    BY <1>1, <1>2, <1>3, <2>1, Zenon
<1>5. ASSUME y = [x EXCEPT !.ran = TRUE] PROVE y \in Action
  <2>1. y = [status |-> x.status, executeAt |-> x.executeAt, attempts |-> x.attempts, ran |-> TRUE]
    BY <1>5 DEF Action
  <2>2. QED
    BY <1>1, <1>3, <2>1, Zenon
<1>6. ASSUME x.attempts < ActionAttempts,
             y = [x EXCEPT !.status = st, !.attempts = @ + 1, !.ran = FALSE]
      PROVE  y \in Action
  <2>1. y = [status |-> st, executeAt |-> x.executeAt, attempts |-> x.attempts + 1, ran |-> FALSE]
    BY <1>6 DEF Action
  <2>2. x.attempts + 1 \in 0..ActionAttempts
    BY <1>1, <1>6, LifecycleAssumption
  <2>3. QED
    BY <1>3, <2>1, <2>2, Zenon
<1>7. QED
  BY <1>4, <1>5, <1>6

\* An outbox message with a new state, or one more attempt, is a message.
LEMMA EventRow ==
    ASSUME NEW x \in Event, NEW y
    PROVE  /\ y = [x EXCEPT !.state = "delivered"] => y \in Event
           /\ y = [x EXCEPT !.state = "dead"] => y \in Event
           /\ x.attempts < EventAttempts /\ y = [x EXCEPT !.attempts = @ + 1] => y \in Event
BY LifecycleAssumption DEF Event

\* The messages stay messages under what a handler does to one of them.
LEMMA EventsExcept ==
    ASSUME TypeOK, NEW e \in DOMAIN events, NEW x \in Event, NEW evs,
           evs = [events EXCEPT ![e] = x]
    PROVE  evs \in Seq(Event) /\ Len(evs) = Len(events)
BY LenProperties, ExceptSeq DEF TypeOK

\* A command adds at most one event and cancels scheduled actions.
LEMMA WithoutPendingType ==
    ASSUME TypeOK, NEW keep
    PROVE  WithoutPending(keep) \in [Starts -> Action]
<1>1. ASSUME NEW s \in Starts
      PROVE  [action[s] EXCEPT !.status = "cancelled"] \in Action /\ action[s] \in Action
  <2>1. action[s] \in Action
    BY DEF TypeOK
  <2>2. QED
    BY <2>1, ActionRow
<1>2. QED
  BY SMTT(30), <1>1 DEF WithoutPending

\* The action that is scheduled for a start is pending or was there before.
LEMMA ScheduleActionType ==
    ASSUME TypeOK, NEW s \in Starts
    PROVE  ScheduleAction(s) \in [Starts -> Action]
<1>1. ExecuteAt(s) \in Nat
  BY LifecycleAssumption DEF ExecuteAt, TypeOK
<1>2. [status |-> "pending", executeAt |-> ExecuteAt(s), attempts |-> 0, ran |-> FALSE] \in Action
  <2>1. 0 \in 0..ActionAttempts
    BY LifecycleAssumption
  <2>2. QED
    BY <1>1, <2>1, Zenon DEF Action
<1>3. WithoutPending({s}) \in [Starts -> Action]
  BY WithoutPendingType
<1>4. QED
  BY <1>2, <1>3 DEF ScheduleAction

\* What a step does to the outbox: nothing, one more message, or one message
\* changed.
EventsStep ==
    \/ events' = events
    \/ /\ Len(events) < MaxEvents
       /\ \E type \in EventTypes : events' = Append(events, NewEvent(type))
    \/ \E e \in DOMAIN events, x \in Event : events' = [events EXCEPT ![e] = x]

\* The outbox keeps its type and no message disappears.
LEMMA EventsStepType ==
    ASSUME TypeOK, EventsStep
    PROVE  /\ events' \in Seq(Event) /\ Len(events') <= MaxEvents
           /\ DOMAIN events \subseteq DOMAIN events'
<1>1. events \in Seq(Event) /\ Len(events) <= MaxEvents /\ Len(events) \in Nat
      /\ DOMAIN events = 1..Len(events)
  BY LenProperties DEF TypeOK
<1>2. ASSUME NEW type \in EventTypes, Len(events) < MaxEvents,
             events' = Append(events, NewEvent(type))
      PROVE  /\ events' \in Seq(Event) /\ Len(events') <= MaxEvents
             /\ DOMAIN events \subseteq DOMAIN events'
  <2>1. NewEvent(type) \in Event
    BY LifecycleAssumption DEF NewEvent, Event
  <2>2. events' \in Seq(Event) /\ Len(events') = Len(events) + 1
    BY <1>1, <1>2, <2>1, AppendProperties
  <2>3. DOMAIN events' = 1..Len(events')
    BY <2>2, LenProperties
  <2>4. QED
    BY <1>1, <1>2, <2>2, <2>3, LifecycleAssumption
<1>3. ASSUME NEW e \in DOMAIN events, NEW x \in Event, events' = [events EXCEPT ![e] = x]
      PROVE  /\ events' \in Seq(Event) /\ Len(events') <= MaxEvents
             /\ DOMAIN events \subseteq DOMAIN events'
  <2>1. events' \in Seq(Event) /\ Len(events') = Len(events)
    BY <1>3, EventsExcept
  <2>2. QED
    BY <1>1, <1>3, <2>1
<1>4. QED
  BY <1>1, <1>2, <1>3 DEF EventsStep

\* The jobs keep their types, and no job is given an event that is not there.
JobsStep ==
    \/ job' = job
    \/ \E h \in Handlers, x \in Job \cup {NoJob} :
          /\ job' = [job EXCEPT ![h] = x]
          /\ x # NoJob => x.event \in DOMAIN events

\* What a handler has of a job in progress.
LEMMA JobRow ==
    ASSUME TypeOK, JobHasEvent, NEW h \in Handlers, job[h] # NoJob
    PROVE  /\ job[h].event \in 1..MaxEvents /\ job[h].event \in DOMAIN events
           /\ job[h].claim \in 1..EventAttempts
           /\ events[job[h].event] \in Event
           /\ job[h].at \in {"schedule", "rest"} => job[h].snap \in Reservation
<1>1. job[h] \in Job
  BY DEF TypeOK
<1>2. job[h].event \in DOMAIN events
  BY DEF JobHasEvent
<1>3. events[job[h].event] \in Event
  BY <1>2, ElementOfSeq, LenProperties DEF TypeOK
<1>4. QED
  BY <1>1, <1>2, <1>3 DEF Job

\* A handler that moves on to the rest of the consequences keeps its job.
LEMMA JobRest ==
    ASSUME NEW x \in Job, x.at = "schedule", NEW y, y = [x EXCEPT !.at = "rest"]
    PROVE  y \in Job /\ y.event = x.event
BY DEF Job

\* A command leaves the jobs alone and adds at most one event.
LEMMA CommandRest ==
    ASSUME TypeOK, NEW c \in Clients, Command(c)
    PROVE  EventsStep /\ JobsStep /\ action' \in [Starts -> Action]
           /\ now' = now /\ evaluated' = evaluated
<1>1. action \in [Starts -> Action]
  BY DEF TypeOK
<1>2. WithoutPending({}) \in [Starts -> Action]
  BY WithoutPendingType
<1>3. job' = job /\ now' = now /\ evaluated' = evaluated
  BY DEF Command, Read, CancelReservation, RescheduleReservation, RecordAttendance,
     CheckInReservation
<1>4. action' = action \/ action' = WithoutPending({})
  BY DEF Command, Read, CancelReservation, RescheduleReservation, RecordAttendance,
     CheckInReservation
<1>5. events' = events \/ Emit("cancelled") \/ Emit("rescheduled")
  BY DEF Command, Read, CancelReservation, RescheduleReservation, RecordAttendance,
     CheckInReservation
<1>6. QED
  BY <1>1, <1>2, <1>3, <1>4, <1>5 DEF EventsStep, JobsStep, Emit, EventTypes

\* A step of a handler, by the job it leaves behind.
LEMMA HandlerRest ==
    ASSUME TypeOK, JobHasEvent, NEW h \in Handlers, HandlerProgress(h) \/ HandlerCrash(h)
    PROVE  EventsStep /\ JobsStep /\ action' \in [Starts -> Action]
           /\ now' = now /\ evaluated' = evaluated
<1>1. action \in [Starts -> Action] /\ job \in [Handlers -> Job \cup {NoJob}]
      /\ res \in Reservation
  BY DEF TypeOK
<1>2. job[h] # NoJob /\ job[h] \in Job
  <2>1. job[h] # NoJob
    BY DEF HandlerProgress, ReadSnapshot, CancelSchedule, ReconcileSchedule, ReconcileFails,
       DeliverEvent, HandlerCrash, Reconciles, NoJob
  <2>2. QED
    BY <1>1, <2>1
<1>3. now' = now /\ evaluated' = evaluated
  BY DEF HandlerProgress, ReadSnapshot, CancelSchedule, ReconcileSchedule, ReconcileFails,
     DeliverEvent, HandlerCrash
<1>4. ASSUME NEW x \in Event, x = events[job[h].event],
             \/ events' = [events EXCEPT ![job[h].event].state = "dead"]
             \/ events' = [events EXCEPT ![job[h].event].state = "delivered"]
      PROVE  EventsStep
  <2>1. /\ [x EXCEPT !.state = "dead"] \in Event
        /\ [x EXCEPT !.state = "delivered"] \in Event
    BY EventRow
  <2>2. \/ events' = [events EXCEPT ![job[h].event] = [x EXCEPT !.state = "dead"]]
        \/ events' = [events EXCEPT ![job[h].event] = [x EXCEPT !.state = "delivered"]]
    BY <1>4
  <2>3. QED
    BY <1>2, <2>1, <2>2, JobRow, Zenon DEF EventsStep
<1>5. ASSUME job' = [job EXCEPT ![h] = NoJob] PROVE JobsStep
  BY <1>5 DEF JobsStep
<1>6. CASE ReadSnapshot(h)
  <2>1. [at |-> "schedule", event |-> job[h].event, claim |-> job[h].claim, snap |-> res] \in Job
    BY <1>1, <1>2, JobRow DEF Job
  <2>2. job[h].event \in DOMAIN events
    BY <1>2, JobRow
  <2>3. JobsStep
    <3> DEFINE x == [at |-> "schedule", event |-> job[h].event, claim |-> job[h].claim, snap |-> res]
    <3>1. x.event = job[h].event /\ x \in Job
      BY <2>1
    <3>2. job' = [job EXCEPT ![h] = x]
      BY <1>6 DEF ReadSnapshot
    <3> HIDE DEF x
    <3>3. QED
      BY <2>2, <3>1, <3>2 DEF JobsStep
  <2>4. QED
    BY <1>1, <1>3, <1>6, <2>3 DEF ReadSnapshot, EventsStep
<1>7. ASSUME job[h].at = "schedule", job' = [job EXCEPT ![h].at = "rest"] PROVE JobsStep
  <2>1. /\ [job[h] EXCEPT !.at = "rest"] \in Job
        /\ [job[h] EXCEPT !.at = "rest"].event = job[h].event
    BY <1>2, <1>7, JobRest
  <2>2. job' = [job EXCEPT ![h] = [job[h] EXCEPT !.at = "rest"]]
    BY <1>7
  <2>3. job[h].event \in DOMAIN events
    BY <1>2, JobRow
  <2>4. QED
    BY <2>1, <2>2, <2>3, Zenon DEF JobsStep
<1>8. CASE CancelSchedule(h)
  BY <1>3, <1>7, <1>8, WithoutPendingType DEF CancelSchedule, EventsStep
<1>9. CASE ReconcileSchedule(h)
  <2>1. job[h].snap \in Reservation /\ job[h].at = "schedule"
    BY <1>2, <1>9, JobRow DEF ReconcileSchedule, Reconciles
  <2>2. job[h].snap.start \in Starts
    BY <2>1 DEF Reservation
  <2>3. QED
    BY <1>3, <1>7, <1>9, <2>1, <2>2, ScheduleActionType DEF ReconcileSchedule, EventsStep
<1>10. CASE ReconcileFails(h)
  <2>1. EventsStep
    <3>1. CASE events' = events
      BY <3>1 DEF EventsStep
    <3>2. CASE events' = [events EXCEPT ![job[h].event].state = "dead"]
      BY <1>2, <1>4, <3>2, JobRow
    <3>3. QED
      BY <1>10, <3>1, <3>2 DEF ReconcileFails, FailedEvent
  <2>2. QED
    BY <1>1, <1>3, <1>5, <1>10, <2>1 DEF ReconcileFails
<1>11. CASE DeliverEvent(h)
  <2>1. EventsStep
    <3>1. CASE events' = events
      BY <3>1 DEF EventsStep
    <3>2. CASE events' = [events EXCEPT ![job[h].event].state = "delivered"]
      BY <1>2, <1>4, <3>2, JobRow
    <3>3. QED
      BY <1>11, <3>1, <3>2 DEF DeliverEvent
  <2>2. QED
    BY <1>1, <1>3, <1>5, <1>11, <2>1 DEF DeliverEvent
<1>12. CASE HandlerCrash(h)
  BY <1>1, <1>3, <1>5, <1>12 DEF HandlerCrash, EventsStep
<1>13. QED
  BY <1>6, <1>8, <1>9, <1>10, <1>11, <1>12 DEF HandlerProgress

\* A claim or the exhaustion of an event.
LEMMA EventRest ==
    ASSUME TypeOK, NEW e \in DOMAIN events,
           ExhaustEvent(e) \/ \E h \in Handlers : ClaimEvent(h, e)
    PROVE  EventsStep /\ JobsStep /\ action' \in [Starts -> Action]
           /\ now' = now /\ evaluated' = evaluated
<1>1. /\ action \in [Starts -> Action] /\ events[e] \in Event /\ e \in 1..MaxEvents
  <2>1. events \in Seq(Event) /\ DOMAIN events = 1..Len(events) /\ Len(events) \in Nat
    BY LenProperties DEF TypeOK
  <2>2. events[e] \in Event
    BY <2>1, ElementOfSeq
  <2>3. QED
    BY <2>1, <2>2, LifecycleAssumption DEF TypeOK
<1>2. CASE ExhaustEvent(e)
  <2>1. [events[e] EXCEPT !.state = "dead"] \in Event
    BY <1>1, EventRow
  <2>2. events' = [events EXCEPT ![e] = [events[e] EXCEPT !.state = "dead"]]
    BY <1>2 DEF ExhaustEvent
  <2>3. EventsStep
    BY <2>1, <2>2, Zenon DEF EventsStep
  <2>4. QED
    BY <1>1, <1>2, <2>3 DEF ExhaustEvent, JobsStep
<1>3. ASSUME NEW h \in Handlers, ClaimEvent(h, e)
      PROVE  EventsStep /\ JobsStep /\ action' \in [Starts -> Action]
             /\ now' = now /\ evaluated' = evaluated
  <2>1. events[e].attempts < EventAttempts /\ events[e].attempts \in Nat
    BY <1>1, <1>3 DEF ClaimEvent, Event
  <2>2. [events[e] EXCEPT !.attempts = @ + 1] \in Event
    BY <1>1, <2>1, EventRow
  <2>3. events' = [events EXCEPT ![e] = [events[e] EXCEPT !.attempts = @ + 1]]
    BY <1>3 DEF ClaimEvent
  <2>4. EventsStep
    BY <2>2, <2>3, Zenon DEF EventsStep
  <2>5. JobsStep
    <3> DEFINE x == [at |-> "read", event |-> e, claim |-> events[e].attempts + 1]
    <3>1. events[e].attempts + 1 \in 1..EventAttempts
      BY <2>1, LifecycleAssumption
    <3>2. x \in Job /\ x.event = e
      BY <1>1, <3>1 DEF Job
    <3>3. job' = [job EXCEPT ![h] = x]
      BY <1>3 DEF ClaimEvent
    <3> HIDE DEF x
    <3>4. QED
      BY <3>2, <3>3 DEF JobsStep
  <2>6. QED
    BY <1>1, <1>3, <2>4, <2>5 DEF ClaimEvent
<1>4. QED
  BY <1>2, <1>3

\* A step of the scheduled action of a start.
LEMMA ActionRest ==
    ASSUME TypeOK, NEW s \in Starts,
           ClaimAction(s) \/ EvaluateNoShow(s) \/ EvaluateTooEarly(s) \/ CompleteAction(s)
    PROVE  /\ EventsStep /\ JobsStep /\ action' \in [Starts -> Action]
           /\ now' = now /\ evaluated' \subseteq Starts
<1>1. action \in [Starts -> Action] /\ action[s] \in Action /\ evaluated \subseteq Starts
  BY DEF TypeOK
<1>2. events' = events /\ job' = job /\ now' = now /\ evaluated' \subseteq evaluated \cup {s}
  BY DEF ClaimAction, EvaluateNoShow, EvaluateTooEarly, CompleteAction
<1>3. ASSUME NEW x \in Action, action' = [action EXCEPT ![s] = x]
      PROVE  action' \in [Starts -> Action]
  BY SMTT(30), <1>1, <1>3
<1>4. /\ [action[s] EXCEPT !.status = "pending"] \in Action
      /\ [action[s] EXCEPT !.status = "completed"] \in Action
      /\ [action[s] EXCEPT !.status = "dead"] \in Action
      /\ [action[s] EXCEPT !.ran = TRUE] \in Action
  BY <1>1, ActionRow
<1>5. CASE ClaimAction(s)
  <2>1. ASSUME action[s].attempts < ActionAttempts PROVE action' \in [Starts -> Action]
    <3>1. [action[s] EXCEPT !.status = "leased", !.attempts = @ + 1, !.ran = FALSE] \in Action
      BY <1>1, <2>1, ActionRow
    <3>2. action' = [action EXCEPT ![s] =
            [action[s] EXCEPT !.status = "leased", !.attempts = @ + 1, !.ran = FALSE]]
      <4>1. action' = [action EXCEPT ![s] =
              IF action[s].attempts < ActionAttempts
              THEN [action[s] EXCEPT !.status = "leased", !.attempts = @ + 1, !.ran = FALSE]
              ELSE [action[s] EXCEPT !.status = "dead"]]
        BY <1>5, Zenon DEF ClaimAction
      <4>2. QED
        BY <2>1, <4>1
    <3>3. QED
      BY ZenonT(40), <1>3, <3>1, <3>2
  <2>2. ASSUME ~ action[s].attempts < ActionAttempts PROVE action' \in [Starts -> Action]
    <3>1. action' = [action EXCEPT ![s] = [action[s] EXCEPT !.status = "dead"]]
      BY <1>5, <2>2, Zenon DEF ClaimAction
    <3>2. QED
      BY <1>3, <1>4, <3>1, Zenon
  <2>3. action' \in [Starts -> Action]
    BY <2>1, <2>2
  <2>4. QED
    BY <1>1, <1>2, <2>3 DEF EventsStep, JobsStep
<1>6. CASE EvaluateNoShow(s) \/ EvaluateTooEarly(s) \/ CompleteAction(s)
  <2>1. \/ action' = [action EXCEPT ![s] = [action[s] EXCEPT !.ran = TRUE]]
        \/ action' = [action EXCEPT ![s] = [action[s] EXCEPT !.status = "pending"]]
        \/ action' = [action EXCEPT ![s] = [action[s] EXCEPT !.status = "dead"]]
        \/ action' = [action EXCEPT ![s] = [action[s] EXCEPT !.status = "completed"]]
    BY <1>6 DEF EvaluateNoShow, EvaluateTooEarly, CompleteAction
  <2>2. action' \in [Starts -> Action]
    BY <1>3, <1>4, <2>1, Zenon
  <2>3. QED
    BY <1>1, <1>2, <2>2 DEF EventsStep, JobsStep
<1>7. QED
  BY <1>5, <1>6

\* Every step keeps the outbox, the jobs, the actions and the keys well formed.
LEMMA RestStep ==
    ASSUME TypeOK, JobHasEvent, [Next]_vars
    PROVE  /\ EventsStep /\ JobsStep /\ action' \in [Starts -> Action]
           /\ now' \in 0..MaxTime /\ evaluated' \subseteq Starts
<1>1. now \in 0..MaxTime /\ evaluated \subseteq Starts /\ action \in [Starts -> Action]
  BY DEF TypeOK
<1>2. CASE Tick
  BY <1>1, <1>2, LifecycleAssumption DEF Tick, EventsStep, JobsStep
<1>3. CASE UNCHANGED vars
  BY <1>1, <1>3 DEF vars, EventsStep, JobsStep
<1>4. ASSUME NEW c \in Clients, Command(c)
      PROVE  /\ EventsStep /\ JobsStep /\ action' \in [Starts -> Action]
             /\ now' \in 0..MaxTime /\ evaluated' \subseteq Starts
  BY <1>1, <1>4, CommandRest
<1>5. ASSUME NEW h \in Handlers, HandlerProgress(h) \/ HandlerCrash(h)
      PROVE  /\ EventsStep /\ JobsStep /\ action' \in [Starts -> Action]
             /\ now' \in 0..MaxTime /\ evaluated' \subseteq Starts
  BY <1>1, <1>5, HandlerRest
<1>6. ASSUME NEW e \in DOMAIN events,
             ExhaustEvent(e) \/ \E h \in Handlers : ClaimEvent(h, e)
      PROVE  /\ EventsStep /\ JobsStep /\ action' \in [Starts -> Action]
             /\ now' \in 0..MaxTime /\ evaluated' \subseteq Starts
  BY <1>1, <1>6, EventRest
<1>7. ASSUME NEW s \in Starts,
             ClaimAction(s) \/ EvaluateNoShow(s) \/ EvaluateTooEarly(s) \/ CompleteAction(s)
      PROVE  /\ EventsStep /\ JobsStep /\ action' \in [Starts -> Action]
             /\ now' \in 0..MaxTime /\ evaluated' \subseteq Starts
  BY <1>1, <1>7, ActionRest
<1>8. QED
  BY <1>2, <1>3, <1>4, <1>5, <1>6, <1>7 DEF Next

-----------------------------------------------------------------------------
(* The invariant *)

\* No view is the current row before anything was read.
LEMMA LifecycleInit == Init => LifecycleInv
<1> SUFFICES ASSUME Init PROVE LifecycleInv
  OBVIOUS
<1>1. res \in Reservation /\ res.attendance = "pending" /\ res.revision = 1
  BY LifecycleAssumption DEF Init, Reservation, Attendances
<1>2. events \in Seq(Event) /\ Len(events) <= MaxEvents
  <2>1. NewEvent("created") \in Event
    BY LifecycleAssumption DEF NewEvent, Event, EventTypes
  <2>2. QED
    BY <2>1, LifecycleAssumption DEF Init
<1>3. action \in [Starts -> Action]
  <2>1. 0 \in 0..ActionAttempts /\ 0 \in Nat
    BY LifecycleAssumption
  <2>2. [status |-> "none", executeAt |-> 0, attempts |-> 0, ran |-> FALSE] \in Action
    BY <2>1, Zenon DEF Action
  <2>3. QED
    BY <2>2 DEF Init
<1>4. TypeOK
  BY <1>1, <1>2, <1>3, LifecycleAssumption DEF Init, TypeOK
<1>5. NoShowRecordedOnce
  BY <1>1, <1>4 DEF Init, NoShowRecordedOnce
<1>6. RevisionBound
  BY <1>1, LifecycleAssumption DEF RevisionBound
<1>7. ViewCurrent
  BY <1>1 DEF Init, ViewCurrent, NoView
<1>8. JobHasEvent
  BY DEF Init, JobHasEvent
<1>9. QED
  BY <1>5, <1>6, <1>7, <1>8 DEF LifecycleInv

\* The Reservation, its views and the count of no-shows keep agreeing.
LEMMA ReservationInductive ==
    ASSUME LifecycleInv, [Next]_vars
    PROVE  /\ res' \in Reservation /\ recorded' \in Nat
           /\ view' \in [Clients -> Reservation \cup {NoView}]
           /\ recorded' = IF res'.attendance = "no_show" THEN 1 ELSE 0
           /\ RevisionBound' /\ ViewCurrent'
<1>1. /\ TypeOK /\ RevisionBound /\ ViewCurrent
      /\ recorded = IF res.attendance = "no_show" THEN 1 ELSE 0
  BY DEF LifecycleInv, NoShowRecordedOnce
<1>2. /\ res \in Reservation /\ recorded \in Nat
      /\ view \in [Clients -> Reservation \cup {NoView}]
      /\ res.revision \in 1..(MaxRevision + 1) /\ MaxRevision \in Nat
      /\ \A c \in Clients : view[c].revision \in Nat
  BY <1>1, LifecycleAssumption DEF TypeOK, Reservation, NoView
<1>3. NoView.revision = 0
  BY DEF NoView
<1>4. CASE Kept
  <2>1. res' = res /\ recorded' = recorded
    BY <1>4 DEF Kept
  <2>2. view' \in [Clients -> Reservation \cup {NoView}]
        /\ \A d \in Clients : view'[d] = view[d] \/ view'[d] = res
    BY <1>2, <1>4 DEF Kept
  <2>3. ViewCurrent'
    BY <1>1, <1>2, <2>1, <2>2 DEF ViewCurrent
  <2>4. QED
    BY <1>1, <1>2, <2>1, <2>2, <2>3 DEF RevisionBound
<1>5. CASE Recorded
  <2>1. /\ res' \in Reservation /\ res'.revision = res.revision + 1 /\ view' = view
        /\ res'.attendance = "no_show" /\ recorded' = recorded + 1
        /\ res.attendance = "pending"
    BY <1>5 DEF Recorded
  <2>2. ViewCurrent'
    BY <1>1, <1>2, <2>1 DEF ViewCurrent
  <2>3. QED
    BY <1>1, <1>2, <2>1, <2>2 DEF RevisionBound
<1>6. ASSUME NEW c \in Clients, Changed(c)
      PROVE  /\ res' \in Reservation /\ recorded' \in Nat
             /\ view' \in [Clients -> Reservation \cup {NoView}]
             /\ recorded' = IF res'.attendance = "no_show" THEN 1 ELSE 0
             /\ RevisionBound' /\ ViewCurrent'
  <2>1. /\ res' \in Reservation /\ res'.revision = res.revision + 1
        /\ res.revision < MaxRevision /\ recorded' = recorded
        /\ view' = [view EXCEPT ![c] = NoView]
        /\ \/ res'.attendance = res.attendance
           \/ res.attendance = "pending" /\ res'.attendance = "checked_in"
    BY <1>6 DEF Changed
  <2>2. view' \in [Clients -> Reservation \cup {NoView}]
        /\ \A d \in Clients : view'[d] = view[d] \/ view'[d] = NoView
    BY <1>2, <2>1
  <2>3. ViewCurrent'
    BY <1>1, <1>2, <1>3, <2>1, <2>2 DEF ViewCurrent
  <2>4. QED
    BY <1>1, <1>2, <2>1, <2>2, <2>3 DEF RevisionBound
<1>7. QED
  BY <1>1, <1>4, <1>5, <1>6, ReservationStep

\* Every step keeps the invariant.
LEMMA LifecycleNext == LifecycleInv /\ [Next]_vars => LifecycleInv'
<1> SUFFICES ASSUME LifecycleInv, [Next]_vars PROVE LifecycleInv'
  OBVIOUS
<1>1. TypeOK /\ JobHasEvent
  BY DEF LifecycleInv, NoShowRecordedOnce
<1>2. /\ EventsStep /\ JobsStep /\ action' \in [Starts -> Action]
      /\ now' \in 0..MaxTime /\ evaluated' \subseteq Starts
  BY <1>1, RestStep
<1>3. /\ events' \in Seq(Event) /\ Len(events') <= MaxEvents
      /\ DOMAIN events \subseteq DOMAIN events'
  BY <1>1, <1>2, EventsStepType
<1>4. job' \in [Handlers -> Job \cup {NoJob}] /\ JobHasEvent'
  BY <1>1, <1>2, <1>3 DEF JobsStep, JobHasEvent, TypeOK
<1>5. /\ res' \in Reservation /\ recorded' \in Nat
      /\ view' \in [Clients -> Reservation \cup {NoView}]
      /\ recorded' = IF res'.attendance = "no_show" THEN 1 ELSE 0
      /\ RevisionBound' /\ ViewCurrent'
  BY ReservationInductive
<1>6. TypeOK'
  BY <1>2, <1>3, <1>4, <1>5 DEF TypeOK
<1>7. QED
  BY <1>4, <1>5, <1>6 DEF LifecycleInv, NoShowRecordedOnce

\* The invariant holds in every reachable state: the types, the bound on the
\* revision, and that a view with the current revision is the current row.
THEOREM LifecycleInvariant == Spec => []LifecycleInv
BY LifecycleInit, LifecycleNext, PTL DEF Spec

\* However many starts the Reservation has had, and however often their
\* actions are retried, the no-show event is emitted exactly when the outcome
\* is recorded, once (evaluate_no_show).
THEOREM OneNoShow == Spec => []NoShowRecordedOnce
<1>1. LifecycleInv => NoShowRecordedOnce
  BY DEF LifecycleInv
<1>2. QED
  BY <1>1, LifecycleInvariant, PTL

\* A command that changes the Reservation was issued by a client whose view is
\* the row as it is, whatever the evaluation and the other clients did since
\* it was read (ensure_reservation_revision).
THEOREM NoLostUpdate == Spec => NoStaleCommand
<1>1. ASSUME LifecycleInv, [Next]_vars
      PROVE  [\A c \in Clients :
                view[c] # NoView /\ view'[c] = NoView /\ res' # res => view[c] = res]_vars
  <2> SUFFICES ASSUME NEW d \in Clients, view[d] # NoView, view'[d] = NoView, res' # res
               PROVE  view[d] = res
    OBVIOUS
  <2>1. /\ TypeOK /\ RevisionBound /\ ViewCurrent
        /\ view \in [Clients -> Reservation \cup {NoView}]
    BY <1>1 DEF LifecycleInv, NoShowRecordedOnce, TypeOK
  <2>2. ~Kept /\ ~Recorded
    BY DEF Kept, Recorded
  <2>3. PICK c \in Clients : Changed(c)
    BY <1>1, <2>1, <2>2, ReservationStep
  <2>4. c = d
    BY <2>1, <2>3 DEF Changed
  <2>5. QED
    BY <2>1, <2>3, <2>4 DEF Changed, ViewCurrent
<1>2. QED
  BY <1>1, LifecycleInvariant, PTL DEF Spec, NoStaleCommand

\* The instants the cutoff is computed from are numbers.
LEMMA Instants ==
    ASSUME TypeOK
    PROVE  now \in Nat /\ res.start \in Nat /\ NoShowAfter \in Nat
<1>1. now \in 0..MaxTime /\ res \in Reservation
  BY DEF TypeOK
<1>2. res.start \in Starts
  BY <1>1 DEF Reservation
<1>3. now \in Nat
  BY <1>1, LifecycleAssumption
<1>4. res.start \in Nat
  BY <1>2, LifecycleAssumption
<1>5. NoShowAfter \in Nat
  BY LifecycleAssumption
<1>6. QED
  BY <1>3, <1>4, <1>5

\* A no-show is recorded of a confirmed Reservation nobody checked in, once the
\* cutoff of its current start has passed, whichever start's action evaluates
\* it (evaluate_no_show).
THEOREM JustifiedNoShow == Spec => NoShowJustified
<1>1. ASSUME LifecycleInv, [Next]_vars
      PROVE  [res'.attendance = "no_show" /\ res.attendance # "no_show"
              => /\ res.status = "confirmed" /\ res.attendance = "pending"
                 /\ now >= res.start + NoShowAfter]_vars
  <2> SUFFICES ASSUME res'.attendance = "no_show", res.attendance # "no_show"
               PROVE  /\ res.status = "confirmed" /\ res.attendance = "pending"
                      /\ now >= res.start + NoShowAfter
    OBVIOUS
  <2>1. TypeOK /\ RevisionBound
    BY <1>1 DEF LifecycleInv, NoShowRecordedOnce
  <2>2. Recorded
    BY <1>1, <2>1, ReservationStep DEF Kept, Changed
  <2>3. now \in Nat /\ res.start \in Nat /\ NoShowAfter \in Nat
    BY <2>1, Instants
  <2>4. QED
    BY <2>2, <2>3 DEF Recorded, TooEarly
<1>2. QED
  BY <1>1, LifecycleInvariant, PTL DEF Spec, NoShowJustified

=============================================================================
