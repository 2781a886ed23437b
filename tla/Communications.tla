---------------------------- MODULE Communications ----------------------------
(***************************************************************************)
(* Delivery of communication tasks: the scheduled handler that hands a     *)
(* message to an external provider, the reconciliation loop that looks an  *)
(* unresolved delivery up, the provider's own outcome reports, and the     *)
(* escalation step that opens the next channel of a failed notification.   *)
(*                                                                         *)
(* Every transaction that touches a task locks its row, so a transaction   *)
(* is one step.  Provider calls happen between transactions and are steps  *)
(* of their own.  The lease protocol of the scheduled actions is that of   *)
(* WorkLease; here a claim is simply valid until it expires.               *)
(*                                                                         *)
(* One database day and one recipient are modelled, every policy channel   *)
(* has an endpoint of its own, and channels are numbered in policy order.  *)
(***************************************************************************)
EXTENDS Naturals, Sequences, FiniteSets

CONSTANTS
    Workers,        \* concurrent handler executions
    Channels,       \* number of channels of channel_policy
    Reachable,      \* the sets of channels a recipient may be reachable on
    MaxEscalations, \* max_escalations_per_task
    MaxContacts,    \* max_contacts_per_subject_per_day
    Deadlines,      \* expires_at of a new task, drawn from this set
    RetryAfter,     \* retry_after_seconds
    ReconcileAfter, \* reconcile_after_seconds
    MaxTries,       \* max_attempts of a scheduled action
    SendResults,    \* what provider.send may answer
    LookupResults,  \* what provider.lookup may answer about a sent message
    Reports,        \* what an outcome report may say about a sent message
    MaxRoots,       \* bound: tasks that are not escalation children
    MaxDeliveries,  \* bound: delivery attempts of one task
    MaxFaults,      \* bound: crashes, lost leases, errors, lost points
    MaxTime         \* bound: the clock

Results == {"accepted", "delivered", "ambiguous", "retryable", "final"}

ASSUME DeliveryAssumption ==
    /\ Channels \in Nat \ {0}
    /\ Reachable \subseteq SUBSET (1..Channels)
    /\ MaxEscalations \in Nat
    /\ MaxContacts \in Nat \ {0}
    /\ Deadlines \subseteq Nat
    /\ RetryAfter \in Nat \ {0} /\ ReconcileAfter \in Nat \ {0}
    /\ MaxTries \in Nat \ {0}
    /\ SendResults \cup LookupResults \cup Reports \subseteq Results
    /\ MaxRoots \in Nat /\ MaxDeliveries \in Nat
    /\ MaxFaults \in Nat /\ MaxTime \in Nat

VARIABLES
    now,    \* clock_timestamp()
    points, \* channels on which the recipient has a usable contact point
    task,   \* communication_tasks, in the order of their creation
    dlv,    \* dlv[t]: the communication_deliveries of task t, by attempt_no
    work,   \* open and dead scheduled_actions, by their dedupe key
    job,    \* job[w]: what handler execution w is doing
    faults  \* faults so far

vars == <<now, points, task, dlv, work, job, faults>>
rows == <<task, dlv, work>>

NoTask == 0
NoChannel == 0
NoWorker == "none"

Closed == {"completed", "cancelled", "failed"}
Tasks == DOMAIN task
Live(t) == task[t].st \notin Closed

\* A task row; parent and via (the ledger's to_channel) are set for a child.
NewTask(exp, pin, parent, root, via) ==
    [st |-> "pending", exp |-> exp, pin |-> pin, parent |-> parent,
     root |-> root, via |-> via,
     failedFacts |-> 0, facts |-> {}]

\* Dedupe keys: the first dispatch of a task, the dispatch after a failed
\* attempt n, the reconciliation of attempt n at an instant.
Dispatch(t, n, at)  == [kind |-> "dispatch", t |-> t, n |-> n, at |-> at]
Reconcile(t, n, at) == [kind |-> "reconcile", t |-> t, n |-> n, at |-> at]

Fresh == [st |-> "pending", tries |-> 0, by |-> NoWorker]
Open(k) == work[k].st \in {"pending", "leased"}

Idle == [pc |-> "idle"]
Job(pc, k, n, res) == [pc |-> pc, key |-> k, n |-> n, res |-> res]

Task == [st : {"pending", "delivering"} \cup Closed, exp : Nat, pin : 0..Channels,
         parent : Nat, root : Nat, via : 0..Channels, failedFacts : Nat,
         facts : SUBSET {"unreachable", "poisoned"}]
Delivery == [st : {"attempting"} \cup Results, ch : 1..Channels, sent : Nat]
ActionKey == [kind : {"dispatch", "reconcile"}, t : Nat, n : Nat, at : Nat]
Action == [st : {"pending", "leased", "dead"}, tries : 0..MaxTries,
           by : Workers \cup {NoWorker}]
Execution == [pc : {"prepare", "poison", "send", "lookup", "finalize", "ok", "retry", "dead"},
              key : ActionKey, n : Nat, res : Results \cup {"none", "missing"}]

TypeOK ==
    /\ now \in 0..MaxTime /\ faults \in 0..MaxFaults
    /\ points \subseteq 1..Channels
    /\ task \in Seq(Task)
    /\ dlv \in Seq(Seq(Delivery)) /\ Len(dlv) = Len(task)
    /\ \A k \in DOMAIN work :
          /\ k \in ActionKey /\ k.t \in Tasks /\ k.n \in 0..Len(dlv[k.t])
          /\ work[k] \in Action
    /\ job \in [Workers -> Execution \cup {Idle}]

Init ==
    /\ now = 0 /\ faults = 0
    /\ points \in Reachable
    /\ task = <<>>
    /\ dlv = <<>>
    /\ work = [k \in {} |-> Fresh]
    /\ job = [w \in Workers |-> Idle]

\* The actions map with rows K replaced by, or added with, value v.
Put(wk, K, v) == [k \in DOMAIN wk \cup K |-> IF k \in K THEN v ELSE wk[k]]
Drop(wk, K)   == [k \in DOMAIN wk \ K |-> wk[k]]

-----------------------------------------------------------------------------
(* Creation and cancellation of tasks *)

\* create_communication_task and the lifecycle, reminder and slot-offer
\* intents: the task and its dispatch are inserted together; a second call
\* with the same dedupe key finds the row and changes nothing.
CreateTask(exp) ==
    /\ Cardinality({t \in Tasks : task[t].parent = NoTask}) < MaxRoots
    /\ exp > now
    /\ LET t == Len(task) + 1
       IN  /\ task' = Append(task, NewTask(exp, NoChannel, NoTask, t, NoChannel))
           /\ dlv' = Append(dlv, <<>>)
           /\ work' = Put(work, {Dispatch(t, 0, now)}, Fresh)
    /\ UNCHANGED <<now, faults, points, job>>

\* Defect: cancellation also takes tasks that are being delivered.
CancelDelivering(t) ==
    /\ Live(t)
    /\ task' = [task EXCEPT ![t].st = "cancelled"]
    /\ work' = Drop(work, {k \in DOMAIN work : k.kind = "dispatch" /\ k.t = t
                                               /\ work[k].st = "pending"})
    /\ UNCHANGED <<now, faults, points, dlv, job>>

\* _cancel_stale_pending_for_reservation, _cancel_pending_reminder_communications:
\* only pending tasks are cancelled, with their pending dispatches.
CancelPending(t) ==
    /\ task[t].st = "pending"
    /\ task' = [task EXCEPT ![t].st = "cancelled"]
    /\ work' = Drop(work, {k \in DOMAIN work : k.kind = "dispatch" /\ k.t = t
                                               /\ work[k].st = "pending"})
    /\ UNCHANGED <<now, faults, points, dlv, job>>

\* cancel_slot_offer_notification leaves the dispatch in place.
CancelSlotOffer(t) ==
    /\ task[t].st = "pending"
    /\ task' = [task EXCEPT ![t].st = "cancelled"]
    /\ UNCHANGED <<now, faults, points, dlv, work, job>>

-----------------------------------------------------------------------------
(* Escalation *)

Lineage(ts, t) == {i \in DOMAIN ts : ts[i].root = ts[t].root}
Children(ts, t) == {i \in Lineage(ts, t) : ts[i].parent # NoTask}

\* parent_attempted_channel: the channel of the latest delivery, if any.
AttemptedChannel(ds, t) ==
    IF ds[t] = <<>> THEN NoChannel ELSE ds[t][Len(ds[t])].ch

\* remaining_escalation_channels and resolve_next_channel_contact_point.
\* The ledger knows the channels escalated to, and the parent's deliveries
\* the channel it tried; the walk starts after that one.
NextChannels(ts, ds, t) ==
    {c \in points : /\ c > AttemptedChannel(ds, t)
                    /\ \A i \in Children(ts, t) : ts[i].via # c}

\* revalidated_escalation_parent: the trigger still holds.
MayEscalate(ts, t) ==
    /\ ts[t].st = "failed"
    /\ \A i \in Children(ts, t) : ts[i].st \in Closed
    /\ \A i \in Children(ts, t) : ts[i].parent # t

\* The ordinal guard, the daily fatigue guard, and a channel to go to.
Refused(ts, ds, t) ==
    \/ Cardinality(Children(ts, t)) >= MaxEscalations
    \/ Len(ts) >= MaxContacts
    \/ NextChannels(ts, ds, t) = {}

LatestOf(a, b) == IF a > b THEN a ELSE b

\* child_expires_at
ChildDeadline(exp) == LatestOf(exp, now + LatestOf(RetryAfter, ReconcileAfter))

\* The terminal fact of a lineage.
LineageUnreachable(ts, t) == [ts EXCEPT ![t].facts = ts[t].facts \cup {"unreachable"}]

FirstOf(S) == CHOOSE c \in S : \A d \in S : c <= d

\* Defect: the replay check of the parent is missing.
EscalateAgain(ts, ds, t) ==
    IF Refused(ts, ds, t)
    THEN /\ task' = LineageUnreachable(ts, t)
         /\ dlv' = ds /\ UNCHANGED work
    ELSE LET c == FirstOf(NextChannels(ts, ds, t))
             i == Len(ts) + 1
         IN  /\ task' = Append(ts, NewTask(ChildDeadline(ts[t].exp), c, t, ts[t].root, c))
             /\ dlv' = Append(ds, <<>>)
             /\ work' = Put(work, {Dispatch(i, 0, now)}, Fresh)

\* Defect: a refused escalation closes the lineage without a fact.
EscalateSilently(ts, ds, t) ==
    IF MayEscalate(ts, t) /\ ~Refused(ts, ds, t)
    THEN EscalateAgain(ts, ds, t)
    ELSE task' = ts /\ dlv' = ds /\ UNCHANGED work

\* escalate_channel: nothing, a terminal fact, or the child with its dispatch.
EscalateChannel(ts, ds, t) ==
    IF ~MayEscalate(ts, t)
    THEN task' = ts /\ dlv' = ds /\ UNCHANGED work
    ELSE IF Refused(ts, ds, t)
    THEN /\ task' = LineageUnreachable(ts, t)
         /\ dlv' = ds /\ UNCHANGED work
    ELSE LET c == FirstOf(NextChannels(ts, ds, t))
             i == Len(ts) + 1
         IN  /\ task' = Append(ts, NewTask(ChildDeadline(ts[t].exp), c, t, ts[t].root, c))
             /\ dlv' = Append(ds, <<>>)
             /\ work' = Put(work, {Dispatch(i, 0, now)}, Fresh)

\* The task closes as failed with its task_failed fact.
FailedTask(t, why) ==
    [task EXCEPT ![t].st = "failed", ![t].failedFacts = task[t].failedFacts + 1,
                 ![t].facts = task[t].facts \cup why]

\* close_task_failed_and_escalate: one transaction closes the task, appends
\* its task_failed fact and takes the escalation step; a task that is closed
\* already only repeats the step.
CloseTaskFailedAndEscalate(t, ds) ==
    EscalateChannel(IF Live(t) THEN FailedTask(t, {}) ELSE task, ds, t)

-----------------------------------------------------------------------------
(* Results *)

\* Defect: any late answer overwrites a failed delivery.
AcceptsAfterFailure(t, n, r) == dlv[t][n].st # "delivered"

\* The fence of finalize_provider_result: delivered and definitively failed
\* deliveries are final; a retryable failure only yields to delivered.
AcceptsResult(t, n, r) ==
    /\ dlv[t][n].st \notin {"delivered", "final"}
    /\ dlv[t][n].st = "retryable" => r = "delivered"

\* Defect: the re-arm is not restricted to open tasks.
RearmClosed(t) == task[t].exp > now

\* The compare-and-set of _rearm_retryable_failure.
MayRearm(t) == Live(t) /\ task[t].exp > now

\* Defect: the reconciliation being executed counts as the next one.
EnsureOneReconciliation(t, n) ==
    IF \E k \in DOMAIN work : k.kind = "reconcile" /\ k.t = t /\ k.n = n /\ Open(k)
    THEN UNCHANGED work
    ELSE work' = Put(work, {Reconcile(t, n, now + ReconcileAfter)}, Fresh)

\* ensure_reconciliation: at most one future reconciliation per delivery.
EnsureReconciliation(t, n) ==
    IF \E k \in DOMAIN work : /\ k.kind = "reconcile" /\ k.t = t /\ k.n = n
                              /\ Open(k) /\ work[k].tries < MaxTries /\ k.at > now
    THEN UNCHANGED work
    ELSE work' = Put(work, {Reconcile(t, n, now + ReconcileAfter)}, Fresh)

\* finalize_provider_result
FinalizeProviderResult(t, n, r) ==
    LET ds == [dlv EXCEPT ![t][n].st = r]
    IN  IF ~AcceptsResult(t, n, r)
        THEN UNCHANGED rows
        ELSE CASE r = "delivered" ->
                    /\ task' = [task EXCEPT ![t].st = "completed"]
                    /\ dlv' = ds /\ UNCHANGED work
               [] r = "retryable" ->
                    /\ dlv' = ds
                    /\ IF MayRearm(t)
                       THEN /\ task' = [task EXCEPT ![t].st = "pending"]
                            /\ work' = Put(work, {Dispatch(t, n, now + RetryAfter)}, Fresh)
                       ELSE UNCHANGED <<task, work>>
               [] r = "final" -> CloseTaskFailedAndEscalate(t, ds)
               [] OTHER ->
                    /\ dlv' = ds /\ UNCHANGED task
                    /\ EnsureReconciliation(t, n)

-----------------------------------------------------------------------------
(* The scheduled handler *)

Key(w) == job[w].key
Subject(w) == job[w].key.t

\* lock_action_claim
Owned(w) == Key(w) \in DOMAIN work /\ work[Key(w)].st = "leased" /\ work[Key(w)].by = w

At(w, p) == job[w].pc = p
Goto(w, p) == job' = [job EXCEPT ![w].pc = p]

Fault == faults < MaxFaults /\ faults' = faults + 1

\* The recipient's contact point of a channel is deactivated.  (A point that
\* merely loses its verification still serves the tasks pinned to it.)
LosePoint(c) ==
    /\ Fault
    /\ c \in points
    /\ points' = points \ {c}
    /\ UNCHANGED <<now, rows, job>>

Claim(w, k) ==
    /\ At(w, "idle")
    /\ work[k].st = "pending" /\ k.at <= now
    /\ work' = Put(work, {k}, [st |-> "leased", tries |-> work[k].tries + 1, by |-> w])
    /\ job' = [job EXCEPT ![w] = Job("prepare", k, 0, "none")]
    /\ UNCHANGED <<now, faults, points, task, dlv>>

\* A fenced transaction finds the claim gone: LeaseLostWorkError.
FenceLost(w) ==
    /\ job[w].pc \in {"prepare", "poison", "finalize"}
    /\ ~Owned(w)
    /\ job' = [job EXCEPT ![w] = Idle]
    /\ UNCHANGED <<now, faults, points, rows>>

Preparing(w, kind) == At(w, "prepare") /\ Owned(w) /\ Key(w).kind = kind

Expired(t) == task[t].exp <= now
Latest(t) == Len(dlv[t])
LatestStatus(t) == IF dlv[t] = <<>> THEN "none" ELSE dlv[t][Len(dlv[t])].st

\* Defect: a delivery that was interrupted is taken for one that never began.
UnresolvedButAttempting == {"accepted", "ambiguous"}

Unresolved == {"attempting", "accepted", "ambiguous"}

FutureDispatchExists(t) ==
    \E k \in DOMAIN work : /\ k.kind = "dispatch" /\ k.t = t /\ k.at > now
                           /\ Open(k) /\ work[k].tries < MaxTries

\* The gate both preparations share: a closed task, or one whose latest
\* (reconciled) delivery arrived, has nothing left to do.
SkipClosed(w, kind, n) ==
    LET t == Subject(w)
        arrived == n > 0 /\ dlv[t][n].st = "delivered"
    IN  /\ Preparing(w, kind)
        /\ ~Live(t) \/ (arrived /\ (kind = "reconcile" \/ ~Expired(t)))
        /\ task' = IF Live(t) THEN [task EXCEPT ![t].st = "completed"] ELSE task
        /\ Goto(w, "ok")
        /\ UNCHANGED <<now, faults, points, dlv, work>>

\* The deadline gate: the task closes without asking the provider.
DeadlineMissed(w) ==
    LET t == Subject(w)
    IN  /\ At(w, "prepare") /\ Owned(w)
        /\ Live(t) /\ Expired(t)
        /\ Key(w).kind = "reconcile" => dlv[t][Key(w).n].st # "delivered"
        /\ CloseTaskFailedAndEscalate(t, dlv)
        /\ Goto(w, "ok")
        /\ UNCHANGED <<now, faults, points>>

\* prepare_dispatch with an unresolved delivery, prepare_reconciliation: ask
\* the provider instead of sending.
PrepareLookup(w, kind, n) ==
    /\ Preparing(w, kind)
    /\ Live(Subject(w)) /\ ~Expired(Subject(w))
    /\ n > 0 /\ dlv[Subject(w)][n].st \in Unresolved
    /\ job' = [job EXCEPT ![w] = Job("lookup", Key(w), n, "none")]
    /\ UNCHANGED <<now, faults, points, rows>>

\* The delivery failed and its retry is scheduled, or belongs to a dispatch.
SkipFailed(w, kind, n) ==
    /\ Preparing(w, kind)
    /\ Live(Subject(w)) /\ ~Expired(Subject(w))
    /\ n > 0 /\ dlv[Subject(w)][n].st = "retryable"
    /\ kind = "reconcile" \/ FutureDispatchExists(Subject(w))
    /\ Goto(w, "ok")
    /\ UNCHANGED <<now, faults, points, rows>>

\* prepare_dispatch passes its gates and resolves a route.
Resolves(w) ==
    /\ Preparing(w, "dispatch")
    /\ Live(Subject(w)) /\ ~Expired(Subject(w))
    /\ LatestStatus(Subject(w)) \notin Unresolved \cup {"delivered"}
    /\ LatestStatus(Subject(w)) = "retryable" => ~FutureDispatchExists(Subject(w))

\* The route: the pinned contact point, or the first usable policy channel.
Routes(t) == IF task[t].pin # NoChannel THEN points \cap {task[t].pin} ELSE points

\* A new attempt is recorded before the provider hears of it.
PrepareSend(w) ==
    LET t == Subject(w)
        c == FirstOf(Routes(t))
    IN  /\ Resolves(w)
        /\ Routes(t) # {}
        /\ Len(dlv[t]) < MaxDeliveries
        /\ task' = [task EXCEPT ![t].pin = c, ![t].st = "delivering"]
        /\ dlv' = [dlv EXCEPT ![t] = Append(@, [st |-> "attempting", ch |-> c, sent |-> 0])]
        /\ job' = [job EXCEPT ![w] = Job("send", Key(w), Len(dlv[t]) + 1, "none")]
        /\ UNCHANGED <<now, faults, points, work>>

\* RecipientChannelUnavailable: the pinned contact point is gone.
PinnedUnreachable(w) ==
    /\ Resolves(w)
    /\ Routes(Subject(w)) = {} /\ task[Subject(w)].pin # NoChannel
    /\ CloseTaskFailedAndEscalate(Subject(w), dlv)
    /\ Goto(w, "ok")
    /\ UNCHANGED <<now, faults, points>>

\* DeliveryConfigurationError: no policy channel reaches the recipient, or the
\* policy was left without a usable route or a single provider.  The preparation
\* rolls back.
PoisonFound(w) ==
    /\ Resolves(w)
    /\ \/ /\ Routes(Subject(w)) = {} /\ task[Subject(w)].pin = NoChannel
          /\ UNCHANGED faults
       \/ Fault
    /\ Goto(w, "poison")
    /\ UNCHANGED <<now, points, rows>>

\* fail_poisoned_communication_task_if_orphaned, in its own transaction.
FailPoisonedTask(w) ==
    LET t == Subject(w)
        siblings == {k \in DOMAIN work \ {Key(w)} :
                        k.kind = "dispatch" /\ k.t = t /\ Open(k) /\ work[k].tries < MaxTries}
    IN  /\ At(w, "poison") /\ Owned(w)
        /\ task' = IF Live(t) /\ siblings = {}
                   THEN FailedTask(t, {"poisoned"}) ELSE task
        /\ Goto(w, "dead")
        /\ UNCHANGED <<now, faults, points, dlv, work>>

\* provider.send: the answer, or an exception before or after the handoff.
Send(w) ==
    /\ At(w, "send")
    /\ \/ \E r \in SendResults \cup {"ambiguous"} :
             /\ dlv' = [dlv EXCEPT ![Subject(w)][job[w].n].sent =
                                         dlv[Subject(w)][job[w].n].sent + 1]
             /\ job' = [job EXCEPT ![w].pc = "finalize", ![w].res = r]
       \/ /\ job' = [job EXCEPT ![w].pc = "finalize", ![w].res = "ambiguous"]
          /\ UNCHANGED dlv
    /\ UNCHANGED <<now, faults, points, task, work>>

\* provider.lookup: the provider does not know a message it never received.
Lookup(w) ==
    /\ At(w, "lookup")
    /\ \E r \in IF dlv[Subject(w)][job[w].n].sent = 0 THEN {"ambiguous"} ELSE LookupResults :
          job' = [job EXCEPT ![w].pc = "finalize", ![w].res = r]
    /\ UNCHANGED <<now, faults, points, rows>>

\* The delivery names a provider this process does not have.
ProviderMissing(w) ==
    /\ job[w].pc \in {"send", "lookup"}
    /\ job' = [job EXCEPT ![w].pc = "finalize", ![w].res = "missing"]
    /\ UNCHANGED <<now, faults, points, rows>>

\* _finalize_owned_provider_result; a missing provider is a definitive
\* failure and dead-letters the action.
Finalize(w) ==
    /\ At(w, "finalize") /\ Owned(w)
    /\ LET r == IF job[w].res = "missing" THEN "final" ELSE job[w].res
       IN  FinalizeProviderResult(Subject(w), job[w].n, r)
    /\ Goto(w, IF job[w].res = "missing" THEN "dead" ELSE "ok")
    /\ UNCHANGED <<now, faults, points>>

\* The handler raises: a lookup error, a database error (prepare and finalize
\* lock task and delivery in opposite orders), a processing timeout.
HandlerFails(w) ==
    /\ Fault
    /\ job[w].pc \in {"prepare", "poison", "send", "lookup", "finalize"}
    /\ Goto(w, "retry")
    /\ UNCHANGED <<now, points, rows>>

\* The runtime settles the action, unless the claim was lost.  Completed rows
\* are dropped: nothing reads them.
Settle(w) ==
    /\ job[w].pc \in {"ok", "retry", "dead"}
    /\ work' = IF ~Owned(w) THEN work
               ELSE IF At(w, "ok") THEN Drop(work, {Key(w)})
               ELSE Put(work, {Key(w)},
                        [work[Key(w)] EXCEPT
                            !.by = NoWorker,
                            !.st = IF At(w, "retry") /\ work[Key(w)].tries < MaxTries
                                   THEN "pending" ELSE "dead"])
    /\ job' = [job EXCEPT ![w] = Idle]
    /\ UNCHANGED <<now, faults, points, task, dlv>>

\* The process dies between two of its steps.
Crash(w) ==
    /\ Fault
    /\ ~At(w, "idle")
    /\ job' = [job EXCEPT ![w] = Idle]
    /\ UNCHANGED <<now, points, rows>>

\* A lease runs out; the row is claimable again, or its budget is used up.
LeaseExpires(k) ==
    /\ Fault
    /\ work[k].st = "leased"
    /\ work' = [work EXCEPT ![k].by = NoWorker,
                            ![k].st = IF work[k].tries < MaxTries THEN "pending" ELSE "dead"]
    /\ UNCHANGED <<now, points, task, dlv, job>>

\* DeliveryOutcomeEventHandler: the provider reports about a message it has,
\* late and as often as it likes.
OutcomeReport(t, n, r) ==
    /\ dlv[t][n].sent > 0
    /\ FinalizeProviderResult(t, n, r)
    /\ UNCHANGED <<now, faults, points, job>>

Tick ==
    /\ now < MaxTime
    /\ now' = now + 1
    /\ UNCHANGED <<faults, points, rows, job>>

HandlerStep(w) ==
    \/ FenceLost(w)
    \/ SkipClosed(w, "dispatch", Latest(Subject(w)))
    \/ SkipClosed(w, "reconcile", Key(w).n)
    \/ DeadlineMissed(w)
    \/ PrepareLookup(w, "dispatch", Latest(Subject(w)))
    \/ PrepareLookup(w, "reconcile", Key(w).n)
    \/ SkipFailed(w, "dispatch", Latest(Subject(w)))
    \/ SkipFailed(w, "reconcile", Key(w).n)
    \/ PrepareSend(w)
    \/ PinnedUnreachable(w)
    \/ PoisonFound(w)
    \/ FailPoisonedTask(w)
    \/ Send(w)
    \/ Lookup(w)
    \/ ProviderMissing(w)
    \/ Finalize(w)
    \/ HandlerFails(w)
    \/ Settle(w)

Next ==
    \/ \E exp \in Deadlines : CreateTask(exp)
    \/ \E t \in Tasks : CancelPending(t) \/ CancelSlotOffer(t)
    \/ \E c \in 1..Channels : LosePoint(c)
    \/ \E w \in Workers : \E k \in DOMAIN work : Claim(w, k)
    \/ \E w \in Workers : ~At(w, "idle") /\ HandlerStep(w)
    \/ \E w \in Workers : Crash(w)
    \/ \E k \in DOMAIN work : LeaseExpires(k)
    \/ \E t \in Tasks : \E n \in DOMAIN dlv[t], r \in Reports : OutcomeReport(t, n, r)
    \/ Tick

Spec == Init /\ [][Next]_vars

-----------------------------------------------------------------------------
(* Properties *)

\* The customer is never sent a message again on a guess: whatever crashes,
\* loses its lease or is retried, an attempt is handed over at most once, and a
\* further attempt exists only once its predecessor is known to have failed (or
\* turned out delivered later).  A not-found or ambiguous answer never leads to
\* a resend under a fresh identity (prepare_dispatch, finalize_provider_result).
\* Checked together with the types of the state.
NoBlindResend ==
    /\ TypeOK
    /\ \A t \in Tasks : \A n \in DOMAIN dlv[t] :
        /\ dlv[t][n].sent <= 1
        /\ n < Len(dlv[t]) => dlv[t][n].st \notin {"attempting", "accepted", "ambiguous"}

\* Escalation is sequential: a notification lineage never has two live tasks,
\* whatever late results arrive about its earlier tasks.
SequentialEscalation ==
    \A s, t \in Tasks : Live(s) /\ Live(t) /\ task[s].root = task[t].root => s = t

\* A failed task never ends in silence and is reported once: it has exactly
\* one task_failed fact, and an escalation child, a lineage_unreachable fact
\* or the poison verdict that explains why nothing follows.
FailureIsReported ==
    \A t \in Tasks :
        /\ task[t].failedFacts <= 1
        /\ task[t].st = "failed" =>
              /\ task[t].failedFacts = 1
              /\ \/ \E i \in Tasks : task[i].parent = t
                 \/ task[t].facts # {}

\* Outcomes are final: a late result completes a closed task at most and never
\* downgrades a completed one; a delivery that arrived or definitively failed
\* keeps that status, and a retryable failure is only ever corrected to
\* delivered (finalize_provider_result, provider events out of order).
OutcomesAreFinal ==
    [][\A t \in Tasks :
          /\ task[t].st \in Closed => task'[t].st \in {task[t].st, "completed"}
          /\ \A n \in DOMAIN dlv[t] :
                /\ dlv[t][n].st \in {"delivered", "final"} => dlv'[t][n].st = dlv[t][n].st
                /\ dlv[t][n].st = "retryable" => dlv'[t][n].st \in {"retryable", "delivered"}]_vars

\* No message leaves for a task after the task was cancelled, although the
\* send happens outside every transaction.
NoSendAfterCancel ==
    [][\A t \in Tasks : \A n \in DOMAIN dlv[t] :
          dlv'[t][n].sent > dlv[t][n].sent => task[t].st # "cancelled"]_vars

HasWork(t) == \E k \in DOMAIN work : k.t = t /\ Open(k)

\* A live task has an open action that will look at it again, unless an action
\* of it used up its attempts or its retryable failure was recorded after the
\* deadline (see NeverStranded).
StrandedOnlyWhenExpected ==
    \A t \in Tasks :
        Live(t) /\ ~HasWork(t)
        => \/ \E k \in DOMAIN work : k.t = t /\ work[k].st = "dead"
           \/ Expired(t) /\ LatestStatus(t) = "retryable"

\* A task never waits for nobody: an unreachable transport or an elapsed
\* deadline closes it.
NeverStranded == \A t \in Tasks : Live(t) => HasWork(t)

\* Each escalation goes to a channel after every channel the lineage tried.
LadderAdvances ==
    \A t \in Tasks : \A i \in Tasks :
        task[t].parent # NoTask /\ i < t /\ task[i].root = task[t].root
        => AttemptedChannel(dlv, i) < task[t].via

-----------------------------------------------------------------------------
(* The inductive invariant *)

\* What the provider never received has no answer of its own, and an answer
\* that ends a delivery has closed the task.
DeliveriesSound ==
    \A t \in Tasks : \A n \in DOMAIN dlv[t] :
        /\ dlv[t][n].sent <= 1
        /\ n < Len(dlv[t]) => dlv[t][n].st \notin Unresolved
        /\ dlv[t][n].sent = 0 => dlv[t][n].st \in {"attempting", "ambiguous", "final"}
        /\ dlv[t][n].st \in {"delivered", "final"} => ~Live(t)

\* A handler execution works on the delivery it prepared; the one about to send
\* works on the latest attempt, which is not sent yet and whose task nobody can
\* cancel.
ExecutionSound(w) ==
    LET t == Subject(w)
        n == job[w].n
    IN  /\ t \in Tasks
        /\ At(w, "poison") => Key(w).kind = "dispatch"
        /\ job[w].pc \in {"send", "lookup", "finalize"} =>
              /\ n \in DOMAIN dlv[t]
              /\ Key(w).kind = "reconcile" => n = Key(w).n
        /\ At(w, "send") =>
              /\ n = Len(dlv[t]) /\ dlv[t][n].sent = 0
              /\ task[t].st \notin {"pending", "cancelled"}
        /\ At(w, "finalize") =>
              /\ job[w].res # "none"
              /\ dlv[t][n].sent = 0 => job[w].res \in {"ambiguous", "missing"}

ExecutionsSound ==
    /\ \A w \in Workers : ~At(w, "idle") => ExecutionSound(w)
    /\ \A v, w \in Workers : At(v, "send") /\ At(w, "send") /\ Subject(v) = Subject(w) => v = w

\* The root of a lineage is the task without a parent, and it is closed once the
\* lineage has children.
LineageSound ==
    \A t \in Tasks :
        /\ task[t].parent = NoTask => task[t].root = t
        /\ task[t].parent # NoTask => task[t].root \in Tasks /\ ~Live(task[t].root)

ReportsSound == \A t \in Tasks : Live(t) => task[t].failedFacts = 0

ActionsSound ==
    \A k \in DOMAIN work :
        /\ work[k].st # "pending" => k.at <= now
        /\ work[k].st = "pending" => work[k].tries < MaxTries
        /\ k.kind = "reconcile" => k.n > 0

\* An action that will act on the latest delivery of its task: a dispatch that
\* is not decided yet, a reconciliation of a delivery still unresolved, or an
\* execution that asks the provider about it.
Executing(w, k) == ~At(w, "idle") /\ Key(w) = k /\ Owned(w)

Undecided(k) ==
    \A w \in Workers : Executing(w, k) => job[w].pc \in {"prepare", "poison", "retry", "dead"}

Asking(k) ==
    \E w \in Workers : /\ Executing(w, k) /\ job[w].pc \in {"send", "lookup", "finalize"}
                       /\ job[w].n = Len(dlv[k.t])

Covers(k) ==
    /\ Open(k)
    /\ \/ k.kind = "dispatch" /\ Undecided(k)
       \/ /\ LatestStatus(k.t) \in Unresolved
          /\ \/ k.n = Len(dlv[k.t]) /\ Undecided(k)
             \/ Asking(k)

GivenUp(t) ==
    \/ \E k \in DOMAIN work : k.t = t /\ work[k].st = "dead"
    \/ Expired(t) /\ LatestStatus(t) = "retryable"

Covered(t) == Live(t) => GivenUp(t) \/ \E k \in DOMAIN work : k.t = t /\ Covers(k)

CommunicationInv ==
    /\ TypeOK
    /\ DeliveriesSound
    /\ ExecutionsSound
    /\ LineageSound
    /\ SequentialEscalation
    /\ ReportsSound
    /\ FailureIsReported
    /\ ActionsSound
    /\ \A t \in Tasks : Covered(t)

=============================================================================
