------------------------------ MODULE LiveQueue ------------------------------
(***************************************************************************)
(* One service queue on the day: admission and its intake control, the     *)
(* FIFO selection with its triage facts (skips, recall holds, operator     *)
(* selections), and the service sessions and resource activities that      *)
(* follow a call.                                                          *)
(*                                                                         *)
(* Every command locks the queue row, or the resource row, before it reads *)
(* what it decides on, so a command is one step.  What is not in the       *)
(* transaction is the operator: a command carries the revision that the    *)
(* operator's screen showed some time ago, and an automatic call whose     *)
(* response is lost is sent again under the same idempotency key.          *)
(*                                                                         *)
(* A revision only grows, and is only compared with the one a screen       *)
(* shows.  It is therefore represented by the screens that still show it:  *)
(* a step that advances the revision of a row drops the screens of that    *)
(* row, whose commands would all be refused with a revision conflict.      *)
(*                                                                         *)
(* Entries are numbered in admission order: admitted_at is read under the  *)
(* queue lock.  The queue and its resources stay active.                   *)
(***************************************************************************)
EXTENDS Integers, Sequences, FiniteSets

CONSTANTS
    Parties,     \* subject parties
    Operators,   \* staff screens
    Callers,     \* clients that send call_next
    Resources,   \* resources
    Assigned,    \* resources assigned to the queue's location today
    HoldTicks,   \* how long an until_time hold or a timed intake stop lasts
    MaxEntries,  \* bound: queue entries
    MaxTime      \* bound: the clock

ASSUME LiveQueueAssumption ==
    /\ Assigned \subseteq Resources
    /\ HoldTicks \in Nat \ {0}
    /\ MaxEntries \in Nat /\ MaxTime \in Nat

VARIABLES
    now,      \* clock_timestamp()
    entry,    \* queue_entries with their active hold and skip, by admission
    session,  \* session[e]: the service_sessions row of entry e
    activity, \* activity[r]: r has an open resource_activities row
    intake,   \* the queue's service_queue_intake_controls row
    screen,   \* screen[o]: the staff_queue row operator o looks at
    request   \* request[c]: is the idempotency record of c's call_next complete

vars == <<now, entry, session, activity, intake, screen, request>>

Forever == MaxTime + HoldTicks + 1
NoHold == 0
NoSession == [st |-> "none", r |-> "none", open |-> 0]
NoScreen == [e |-> 0]

Entries == DOMAIN entry
Active == {"waiting", "called", "serving"}
Done == {"completed", "cancelled", "no_show"}
LiveSession == {"active", "paused"}

Entry == [party : Parties, st : Active \cup Done, hold : 0..Forever, skip : BOOLEAN,
          passes : -1..1]
Session == [st : {"none", "completed"} \cup LiveSession, r : Resources \cup {"none"}, open : 0..1]
Screen == [e : Nat, st : Active \cup Done, skip : BOOLEAN, hold : 0..Forever,
           service : {"none", "completed"} \cup LiveSession]

TypeOK ==
    /\ now \in 0..MaxTime
    /\ entry \in Seq(Entry)
    /\ session \in Seq(Session) /\ Len(session) = Len(entry)
    /\ activity \in [Resources -> BOOLEAN]
    /\ intake \in [accepting : BOOLEAN, until : 0..Forever]
    /\ screen \in [Operators -> Screen \cup {NoScreen}]
    /\ \A o \in Operators : screen[o].e \in {0} \cup Entries
    /\ request \in [Callers -> {"new", "done"}]

Init ==
    /\ now = 0
    /\ entry = <<>>
    /\ session = <<>>
    /\ activity = [r \in Resources |-> FALSE]
    /\ intake = [accepting |-> TRUE, until |-> Forever]
    /\ screen = [o \in Operators |-> NoScreen]
    /\ request = [c \in Callers |-> "new"]

-----------------------------------------------------------------------------
(* Admission *)

\* require_queue_accepting_intake: stopped, and the stop has not run out.
Stopped == ~intake.accepting /\ intake.until > now

InQueue(p) == \E e \in Entries : entry[e].party = p /\ entry[e].st \in Active

\* insert_queue_entry
Admit(p) ==
    /\ Len(entry) < MaxEntries
    /\ ~InQueue(p)
    /\ entry' = Append(entry, [party |-> p, st |-> "waiting", hold |-> NoHold,
                               skip |-> FALSE, passes |-> 0])
    /\ session' = Append(session, NoSession)
    /\ UNCHANGED <<now, activity, intake, screen, request>>

\* queue.check_in: staff admission of a walk-in or of a reservation.
CheckIn(p) == ~Stopped /\ Admit(p)

\* queue.join: admission by the subject or its representative.
JoinQueue(p) == Admit(p)

\* set_intake_control, under the revision of the control that was read.
SetIntakeControl(accepting, until) ==
    /\ intake' = [accepting |-> accepting, until |-> until]
    /\ UNCHANGED <<now, entry, session, activity, screen, request>>

-----------------------------------------------------------------------------
(* Automatic selection *)

Held(e) == entry[e].hold > now

\* Defect: a time hold ends in what the screens show, not in its row.
KeepTimeHold(x) == x

\* expire_time_hold, expire_queue_time_holds: no revision step.
ExpireTimeHold(x) == IF x.hold <= now THEN [x EXCEPT !.hold = NoHold] ELSE x

\* Defect: skips stay active.
ConsumeNothing(x) == x

\* consume_active_skips
ConsumeSkip(x) == [x EXCEPT !.skip = FALSE]

\* Defect: the consumption of a skip leaves the revision alone.
NoneAdvanced(en) == {}

\* The entries whose revision consume_active_skips advances.
AdvancedByConsumption(en) == {e \in DOMAIN en : en[e].skip /\ en[e].st = "waiting"}

\* lock_next_eligible_entry, after the time holds were expired.
Eligible(x) == x.st = "waiting" /\ x.hold = NoHold /\ ~x.skip

Selectable(en) == {e \in DOMAIN en : Eligible(en[e])}

\* An entry that stops waiting never waits again: its hold and skip rows are
\* not read any more.
LeaveLine(x, st) == [x EXCEPT !.st = st, !.hold = NoHold, !.skip = FALSE, !.passes = 0]

HeadOf(S) == CHOOSE e \in S : \A f \in S : e <= f

\* History: a skip lets the next automatic selection, and no other, go past
\* its entry; going past an entry that no hold keeps back uses that pass.
CountPass(x, e, head) ==
    LET passed == e < head /\ x.st = "waiting" /\ ~Held(e)
    IN  [x EXCEPT !.passes = IF passed /\ @ < 1 THEN -1 ELSE IF @ > 0 THEN 0 ELSE @]

\* The revision of the entries in B advances.
Advance(B) == screen' = [o \in Operators |-> IF screen[o].e \in B THEN NoScreen ELSE screen[o]]

\* The transaction of queue.call_next.
CallHead ==
    LET en == [e \in Entries |-> ExpireTimeHold(entry[e])]
        head == HeadOf(Selectable(en))
    IN  IF Selectable(en) = {}
        THEN /\ entry' = en
             /\ UNCHANGED screen
        ELSE /\ entry' = [e \in Entries |->
                             IF e = head THEN LeaveLine(en[e], "called")
                             ELSE ConsumeSkip(CountPass(en[e], e, head))]
             /\ Advance({head} \cup AdvancedByConsumption(en))

\* queue.call_next: a completed idempotency record answers without effect.
CallNext(c) ==
    /\ \/ request[c] = "done" /\ UNCHANGED <<entry, screen, request>>
       \/ /\ request[c] = "new"
          /\ CallHead
          /\ request' = [request EXCEPT ![c] = "done"]
    /\ UNCHANGED <<now, session, activity, intake>>

\* The client repeats its request until an answer arrives; the next request
\* has a key of its own.
ReceiveAnswer(c) ==
    /\ request[c] = "done"
    /\ request' = [request EXCEPT ![c] = "new"]
    /\ UNCHANGED <<now, entry, session, activity, intake, screen>>

-----------------------------------------------------------------------------
(* What is shown *)

\* recall_eligible of staff_queue: the effect of a time hold ends by the clock.
RecallEligible(e) == entry[e].st = "waiting" /\ ~Held(e) /\ ~entry[e].skip

\* The entries that get_queue_status counts as entries_ahead of a customer.
AheadOf(e) == {f \in Entries : f < e /\ RecallEligible(f)}

-----------------------------------------------------------------------------
(* Revision fenced commands of an operator *)

\* staff_queue: the entry, its gate against recall, its session.
Seen(e) ==
    [e |-> e, st |-> entry[e].st, skip |-> entry[e].skip,
     hold |-> IF Held(e) THEN entry[e].hold ELSE NoHold, service |-> session[e].st]

Read(o, e) ==
    /\ entry[e].st \in Active
    /\ screen' = [screen EXCEPT ![o] = Seen(e)]
    /\ UNCHANGED <<now, entry, session, activity, intake, request>>

\* lock_waiting_entry, lock_queue_entry, lock_session_context: the revision
\* the command expects is the one of the row.
Fresh(o, e) == screen[o].e = e

Waiting(e) == entry[e].st = "waiting"

\* An entry command succeeds with x as the new row.
Commit(e, x) == entry' = [entry EXCEPT ![e] = x] /\ Advance({e})

\* queue.operator_select: around FIFO, a hold or the entry's own skip.
OperatorSelect(o, e) ==
    /\ Fresh(o, e) /\ Waiting(e)
    /\ Commit(e, LeaveLine(entry[e], "called"))
    /\ UNCHANGED <<now, session, activity, intake, request>>

\* queue.recall_hold
RecallHold(o, e, until) ==
    LET x == ExpireTimeHold(entry[e])
    IN  /\ Fresh(o, e) /\ Waiting(e)
        /\ x.hold = NoHold /\ ~x.skip
        /\ Commit(e, [x EXCEPT !.hold = until])
        /\ UNCHANGED <<now, session, activity, intake, request>>

\* queue.release_recall_hold, naming the hold that the screen showed.
ReleaseRecallHold(o, e) ==
    LET x == ExpireTimeHold(entry[e])
    IN  /\ Fresh(o, e) /\ Waiting(e)
        /\ x.hold # NoHold /\ x.hold = screen[o].hold
        /\ Commit(e, [x EXCEPT !.hold = NoHold])
        /\ UNCHANGED <<now, session, activity, intake, request>>

\* queue.skip, of the current head only; it expires the holds of the queue.
Skip(o, e) ==
    LET en == [f \in Entries |-> ExpireTimeHold(entry[f])]
    IN  /\ Fresh(o, e) /\ Waiting(e)
        /\ e \in Selectable(en) /\ e = HeadOf(Selectable(en))
        /\ entry' = [en EXCEPT ![e].skip = TRUE, ![e].passes = 1]
        /\ Advance({e})
        /\ UNCHANGED <<now, session, activity, intake, request>>

\* queue.classify_expected_workload with another classification.
ClassifyExpectedWorkload(o, e) ==
    /\ Fresh(o, e) /\ entry[e].st \in {"waiting", "called"}
    /\ Commit(e, entry[e])
    /\ UNCHANGED <<now, session, activity, intake, request>>

\* queue.leave, of a waiting or called entry.
LeaveQueue(o, e) ==
    /\ Fresh(o, e) /\ entry[e].st \in {"waiting", "called"}
    /\ Commit(e, LeaveLine(entry[e], "cancelled"))
    /\ UNCHANGED <<now, session, activity, intake, request>>

\* queue.mark_no_show
MarkNoShow(o, e) ==
    /\ Fresh(o, e) /\ entry[e].st = "called"
    /\ session[e] = NoSession
    /\ Commit(e, [entry[e] EXCEPT !.st = "no_show"])
    /\ UNCHANGED <<now, session, activity, intake, request>>

-----------------------------------------------------------------------------
(* Execution *)

Serves(r) == \E e \in Entries : session[e].r = r /\ session[e].st \in LiveSession

\* service_session.start: the resource is locked after the entry; the
\* occupation trigger and the live-resource index refuse a busy resource.
StartService(o, e, r) ==
    /\ Fresh(o, e) /\ entry[e].st = "called"
    /\ r \in Assigned
    /\ ~activity[r] /\ ~Serves(r)
    /\ session' = [session EXCEPT ![e] = [st |-> "active", r |-> r, open |-> 0]]
    /\ Commit(e, [entry[e] EXCEPT !.st = "serving"])
    /\ UNCHANGED <<now, activity, intake, request>>

\* service_session.pause: one open interruption.
PauseService(o, e) ==
    /\ Fresh(o, e) /\ session[e].st = "active"
    /\ session' = [session EXCEPT ![e].st = "paused", ![e].open = @ + 1]
    /\ Advance({e})
    /\ UNCHANGED <<now, entry, activity, intake, request>>

\* service_session.resume closes it.
ResumeService(o, e) ==
    /\ Fresh(o, e) /\ session[e].st = "paused" /\ session[e].open > 0
    /\ session' = [session EXCEPT ![e].st = "active", ![e].open = 0]
    /\ Advance({e})
    /\ UNCHANGED <<now, entry, activity, intake, request>>

\* Defect: a paused session may be completed.
CompletePaused(o, e) ==
    /\ Fresh(o, e) /\ session[e].st \in LiveSession /\ entry[e].st = "serving"
    /\ session' = [session EXCEPT ![e].st = "completed"]
    /\ entry' = [entry EXCEPT ![e].st = "completed"]
    /\ Advance({e})
    /\ UNCHANGED <<now, activity, intake, request>>

\* service_session.complete and mark_queue_entry_service_completed.
CompleteService(o, e) ==
    /\ Fresh(o, e) /\ session[e].st = "active" /\ entry[e].st = "serving"
    /\ session' = [session EXCEPT ![e].st = "completed"]
    /\ entry' = [entry EXCEPT ![e].st = "completed"]
    /\ Advance({e})
    /\ UNCHANGED <<now, activity, intake, request>>

\* resource_activity.start: the occupation trigger and the open-activity index.
StartResourceActivity(r) ==
    /\ ~activity[r] /\ ~Serves(r)
    /\ activity' = [activity EXCEPT ![r] = TRUE]
    /\ UNCHANGED <<now, entry, session, intake, screen, request>>

EndResourceActivity(r) ==
    /\ activity[r]
    /\ activity' = [activity EXCEPT ![r] = FALSE]
    /\ UNCHANGED <<now, entry, session, intake, screen, request>>

Tick ==
    /\ now < MaxTime
    /\ now' = now + 1
    /\ UNCHANGED <<entry, session, activity, intake, screen, request>>

-----------------------------------------------------------------------------
Instants == {now + HoldTicks, Forever}

\* The commands that carry the revision operator o saw.
OperatorCommand(o, e) ==
    \/ OperatorSelect(o, e)
    \/ \E until \in Instants : RecallHold(o, e, until)
    \/ ReleaseRecallHold(o, e)
    \/ Skip(o, e)
    \/ ClassifyExpectedWorkload(o, e)
    \/ LeaveQueue(o, e)
    \/ MarkNoShow(o, e)
    \/ \E r \in Resources : StartService(o, e, r)
    \/ PauseService(o, e)
    \/ ResumeService(o, e)
    \/ CompleteService(o, e)

Next ==
    \/ \E p \in Parties : CheckIn(p) \/ JoinQueue(p)
    \/ SetIntakeControl(TRUE, Forever)
    \/ \E until \in Instants : SetIntakeControl(FALSE, until)
    \/ \E c \in Callers : CallNext(c) \/ ReceiveAnswer(c)
    \/ \E o \in Operators, e \in Entries : Read(o, e) \/ OperatorCommand(o, e)
    \/ \E r \in Resources : StartResourceActivity(r) \/ EndResourceActivity(r)
    \/ Tick

Spec == Init /\ [][Next]_vars

-----------------------------------------------------------------------------
(* Properties *)

\* A skip defers its entry for exactly one automatic selection: call_next goes
\* past a waiting entry that no hold keeps back only if an operator skipped the
\* entry since the selection before (consume_active_skips,
\* expire_queue_time_holds).
BoundedOvertaking == \A e \in Entries : entry[e].passes >= 0

\* The queue, the sessions and the resources tell one story, and the deferred
\* coherence triggers never have a reason to abort a command: an entry is served
\* exactly while its session is live and completed exactly when the session is,
\* a session is paused exactly while one interruption is open, and a resource
\* serves one entry, or has an open activity, or neither
\* (assert_service_queue_coherence, guard_live_resource_occupation).  Checked
\* together with the types of the state.
ServiceCoherent ==
    /\ TypeOK
    /\ \A e \in Entries :
          /\ session[e].st \in LiveSession <=> entry[e].st = "serving"
          /\ session[e].st = "completed" <=> entry[e].st = "completed"
          /\ session[e].st = "paused" <=> session[e].open = 1
    /\ \A r \in Resources :
          LET served == {e \in Entries : session[e].r = r /\ session[e].st \in LiveSession}
          IN  Cardinality(served) <= 1 /\ (activity[r] => served = {})

\* The staff screen, the customers' positions and the selection agree, although
\* the reads judge a time hold by the clock and the selection by its row: an
\* automatic call calls the recall-eligible entry that was shown nobody ahead,
\* nobody only when no entry was shown recall-eligible, and moves everyone else
\* up by that one entry, behind those whose skip it used up
\* (lock_next_eligible_entry, consume_active_skips, staff_queue,
\* get_queue_status).
CallsTheHead ==
    [][\A c \in Callers : request[c] = "new" /\ request'[c] = "done" =>
          LET called == {e \in Entries : entry'[e].st # entry[e].st}
              back(e) == {f \in Entries : /\ f < e /\ entry[f].st = "waiting"
                                          /\ ~Held(f) /\ entry[f].skip /\ called # {}}
          IN  /\ called = {e \in Entries : RecallEligible(e) /\ AheadOf(e) = {}}
              /\ \A e \in Entries : AheadOf(e)' = (AheadOf(e) \ called) \cup back(e)
      ]_vars

\* What an operator acts on is what the operator saw: no command succeeds after
\* the entry was called, skipped, un-skipped, held or released, or after its
\* session changed, since the screen was read.  A time hold that ran out is the
\* one change the revision does not carry.
ActsOnWhatWasSeen ==
    [][\A o \in Operators, e \in Entries :
          OperatorCommand(o, e) =>
             /\ entry[e].st = screen[o].st
             /\ entry[e].skip = screen[o].skip
             /\ Held(e) => entry[e].hold = screen[o].hold
             /\ session[e].st = screen[o].service]_vars

\* A stopped queue admits nobody.
StopIntakeHolds == [][Stopped => Len(entry') = Len(entry)]_vars

-----------------------------------------------------------------------------
(* The inductive invariant *)

\* A skip is one unused pass of an entry that waits.
SkipIsPass == \A e \in Entries : entry[e].skip => entry[e].st = "waiting" /\ entry[e].passes = 1

\* A screen whose revision is the row's shows the row.
ScreenCurrent ==
    \A o \in Operators, e \in Entries :
        Fresh(o, e) =>
           /\ entry[e].st = screen[o].st
           /\ entry[e].skip = screen[o].skip
           /\ Held(e) => entry[e].hold = screen[o].hold
           /\ session[e].st = screen[o].service

QueueInv ==
    /\ ServiceCoherent
    /\ BoundedOvertaking
    /\ SkipIsPass
    /\ ScreenCurrent

=============================================================================
