# Request Engine: a TLA+ verification project

Request Engine is a multi-tenant API for booking, queues, waitlists and
communications. PostgreSQL holds the state and the locks; Python frames the
transactions; a worker process performs what was left for later. This project
models the parts whose correctness depends on the order in which transactions,
workers, timers and crashes happen.

Paths below are relative to the repository unless they name a module of this
project.

## 1. Inventory

| Part | State | Operations | What is hard | What makes it correct |
|---|---|---|---|---|
| Durable work streams: `scheduled_actions`, `outbox_messages`, `provider_events` (`migrations/baseline`, `platform/worker`, `platform/scheduling`, `platform/outbox`, `entrypoints/worker`) | a row per item: status, attempts, claim token, lease, due time; per worker: running tasks and heartbeats | enqueue, claim a batch, lock the claim, renew, complete, retry, dead-letter, reject, cancel, replay | leases that lapse under a running handler, heartbeats blocked by their own handler, crashes between commit and completion, tenants competing for a batch | one owner per row; effects serialize with cancellation and reclaim; no attempt beyond the budget; every row ends |
| Reservation lifecycle (`modules/booking`, `entrypoints/worker/reservation_lifecycle.py`) | Reservation with revision and attendance, lifecycle events, the no-show action of each start | reschedule, cancel, attendance response, check-in, event handling, no-show evaluation | handlers that use an old snapshot, redelivery, an evaluation racing the commands | no lost update; a no-show is justified and recorded once; no Reservation is forgotten |
| Slot offers and waitlist (`modules/queue`, `modules/booking/.../slot_offer_capacity.py`) | opportunities, waitlist entries, offers, capacity holds, expiry actions, confirmed claims | book, cancel, join, leave, create an opportunity, offer, accept, decline, expire | multi-statement transactions under READ COMMITTED and SKIP LOCKED, holds that expire by the clock, two opportunities for one slot or one entry | no double booking; the rows of an offer agree; one Reservation per entry; every offer is resolved |
| Communications (`modules/communications`) | tasks, deliveries by attempt, dispatch and reconciliation actions, escalation ledger | create, cancel, prepare, send, look up, finalize, report an outcome, escalate to the next channel | the provider is called between transactions: answers lost, late, duplicated; deadlines that pass meanwhile; failures reported twice | nothing is sent again on a guess; one live channel per notification; no failure without a fact; no task waits for nobody |
| Live service queue, triage, service sessions (`modules/queue`, `modules/delivery`) | queue entries with holds and skips, sessions, activities, intake control, idempotency record of a call | check in, join, call next, select, hold, release, skip, classify, leave, no-show, start, pause, resume, complete, activities, stop intake | operators act on old screens, holds end by the clock before their rows do, a lost answer to a call is repeated | overtaking bounded by the skips; queue, sessions and resources agree; a call calls whom the screens showed first |
| Requests and idempotency (`modules/requests`, `platform/idempotency`) | definition with versions, requests, external correlations, idempotency records | submit, record a result, complete, cancel, fail, create a definition, publish, (de)activate | one key sent twice at once; checks made statements before the commit; several locks per transaction | one effect per key; external keys owned once; a submission lawful at its commit; no circular wait |
| Operational recovery (`modules/operational_recovery`, `live_capacity`, recovery flow of `booking`) | source revision, reassessments, proposals, incidents, escalation ledger, actions, notices | reassess, commit a verdict, tell the affected, plan and execute moves within an envelope | verdicts computed outside the transaction that uses them; workers of two revisions at once; moves that change the source they are based on | nothing moved on an old verdict; the budget of moves; the latest revision never given up; notices that match what happened |
| Staff authority (`modules/tenancy`, staff functions of `migrations/baseline`) | memberships, identity bindings, native identities, grants with their delegable part | invite, suspend, activate, revoke, transition a binding, replace authority, disable an identity | the actor's capabilities were read before the transaction; managers remove each other; the same rows are locked several times, each time from a new snapshot | the tenant always has a controller who can sign in; the actor's authority holds at the commit |
| Catalog, discovery, live capacity, copilot, onboarding, configuration | configuration, identity, projections | revisioned edits, reads | little beyond revisions | revision guards |
| HTTP, CLI, security, secrets, observability | sessions, credentials, metrics | input and output | outside the scope of these models | |

How they interact: a command commits its rows together with outbox messages and
scheduled actions. The worker claims those rows in leases and runs handlers,
which are again commands. A Reservation that is cancelled or rescheduled emits
an event; its handler reconciles the no-show action and, for the slot that was
released, opens an opportunity that is offered to the waitlist; the offer's
expiry is a scheduled action. Both create communication tasks, whose deliveries
are scheduled actions again. Changes to queues, sessions and capacity advance the
source revision of a scope, whose reassessment is one more scheduled action and
may move Reservations.

## 2. Modules

| Module | Stands for |
|---|---|
| `WorkLease` | one durable stream with its workers |
| `DurableWork` | what a stream promises to those who put work into it (abstract) |
| `WorkLeaseProofs` | theorems about `WorkLease`, and that it implements `DurableWork` |
| `ReservationLifecycle` | one Reservation, its clients, its event handler and its no-show actions |
| `SlotOffers` | slots, opportunities, waitlist entries, offers, holds and direct bookings |
| `Communications` | notifications, their deliveries and actions, the handler, the provider and its reports |
| `LiveQueue` | one service queue on the day, its operators, its sessions and resources |
| `Requests` | the Requests module over the idempotency records, transaction by transaction |
| `OperationalRecovery` | one recovery scope: reassessments, incidents, and autonomous moves |
| `StaffAuthority` | the staff of one tenant: memberships, bindings, grants, their commands and row locks |
| `RequestsProofs`, `ReservationLifecycleProofs`, `SlotOffersProofs`, `CommunicationsProofs`, `LiveQueueProofs`, `OperationalRecoveryProofs`, `StaffAuthorityProofs` | theorems about the module each is named after |
| `MC...` | constants for TLC |

`PROJECT.json` gives, for each definition, the lines it stands for. Definitions
whose comment begins with "Defect:" are not part of a specification: each is an
operation with a plausible mistake in it, and shows that a property notices.

### WorkLease

A row is the tuple of columns that the `request_cmd` functions read and write; a
claim token, a `uuidv7()`, is the ordinal of the claim among the claims of its
row. A future instant is kept as the ticks left until it. A task is `pc`, where
the processor is; `held`, the token of its lease object; and `beat`, the
heartbeat.

- `Claim` is one call of `claim_*`: exhausted rows are dead-lettered by a plain
  UPDATE, which waits for row locks, then a batch is chosen by tenant rank with
  SKIP LOCKED. The order inside a tenant is left open.
- `HandlerLock`, `HandlerCommit`: the fence `lock_*_claim` is a `FOR UPDATE` in
  the transaction of the effect, so the row stays locked until the commit. With
  `Fenced = FALSE` (provider events) there is no such lock.
- A renewal during that transaction waits for its own handler (`RenewBlocks`).
  When the lock goes and the row was not changed, PostgreSQL performs the update
  without evaluating WHERE again (`RenewResumes`): a lease may be revived after
  it lapsed, or be extended by less than a full lease.
- `_process_one` joins the heartbeat before it finalizes; every finalizer
  compares the token and the lease, and a task that lost its lease leaves the row
  alone (`FinishStale`).
- An exception of a finalizer, or a rejection where no rejecter was given, ends
  the loop, and the supervisor ends the process: `Crash`.

### ReservationLifecycle

A command is one transaction with the Reservation row locked. The event handler
is three steps, each its own transaction: the snapshot, the schedule
reconciliation, and the rest with publication. Its claim may expire at any
moment, so two executions of one event may overlap; the lease protocol itself is
the subject of `WorkLease`. Reservation access and notifications are part of the
last step, which may fail. A scheduled action is identified by the start it
evaluates, as its dedupe key is. Waiting times between retries are left out.

### SlotOffers

An offering transaction is modelled statement by statement: it locks the
opportunity, resolves the old offer if there is one, reads candidates
(`SelectCandidate` takes the snapshot of the statement), locks the first one that
is not locked (`LockCandidate`), and then acquires the hold and commits, tries
another candidate, closes the opportunity, or rolls back. What it writes becomes
visible at the commit. A transaction that ends a hold keeps the Resource locked
from the start; one that makes a first offer checks availability before it locks
the Resource, and may therefore give up on a hold that another transaction is
about to end.

The deferred constraint triggers are guards of the commits they can refuse:
leaving the waitlist with an open offer, and accepting while another open offer
points to the same entry.

A slot is one interval of one exclusive Resource. Which entries match which
opportunity is given by the constants `Wants` (the WHERE clause) and `Suits`
(the preferred Resource). The second by which an offer ends before the slot
starts is below the granularity of the clock. The next offer after a decline or
an expiry lasts as long as the resolved one, which is a choice between `MinTTL`
and `OfferTTL`; in the instances both are 1, so there is no choice. Each release
event calls `offer_next_waitlist_candidate` with one key, so the branch that
returns an existing offer is not reachable and is left out.

### Communications

A transaction locks the task row and is one step; the provider call is a step of
its own between the transaction that records the attempt and the one that
finalizes it. `dlv[t][n].sent` counts what the provider really received, which
the database does not know. A scheduled action is identified by its dedupe key
and is dropped when it completes, since nothing reads completed rows; the lease
protocol is that of `WorkLease` and appears only as claims that may expire
(`LeaseExpires`) and fences that notice (`FenceLost`). `FinalizeProviderResult`
is shared by the handler and by `OutcomeReport`, which the provider may send
about any message it has, at any time and repeatedly. Escalation is part of the
transaction that closes a task (`CloseTaskFailedAndEscalate`).

A delivery status "retryable" or "final" is `failed` with the flag of
`result_data`. One recipient on one database day is modelled, so the daily
fatigue guard counts tasks; channels are numbered in policy order and each has
an endpoint of its own. `PoisonFound` stands for every
`DeliveryConfigurationError`: no route is left, or, as a fault, the policy names
no usable route or not exactly one provider. A lost contact point
(`LosePoint`) is a deactivated one, which neither a pinned nor an unpinned task
may use.

### LiveQueue

Every command locks the queue or the resource row first and is one step. The
operator is not part of the transaction: `Read` puts a row on a screen, and a
command carries the revision of that screen. A revision is represented by the
screens that still show it (`Advance` drops those of a row whose revision
advances), which keeps the model finite. `passes` is a history variable: 1 when
a skip allows one selection to go past the entry, -1 when one did so without.
The session's own revision and the entry's advance together on the screens,
since the staff view shows both. `RecallEligible` and `AheadOf` are what
`staff_queue` and `get_queue_status` show; both judge a time hold by the clock,
while the selection looks for open hold rows and expires them first.

### Requests

The steps of a submission are separate, in the order of the statements:
idempotency key, definition (`FOR SHARE`), parties, authority, correlation locks
one by one, availability, insert and commit. A lock is an element of `held`
until the transaction ends. Lifecycle commands hold the request row from their
first read and are one step after the key. Definition commands take the
authority before the key. A client may send any command of `Commands` at any
time. What a result says is the identity of the command that brought it.

### OperationalRecovery

`truth[v]` is what the capacity assessment says of source revision `v`; a change
of the source (`SourceChanges`, or a move in `Book`) appends a verdict and, in
the same transaction, schedules the reassessment of the new revision and cancels
pending older ones. A handler execution is a record `run[w]` that goes through
the transactions of `handle`: advisory read (with the claim), assessment and
proposal, fenced commit, impact notices, plan, and per planned move the steps of
`execute_reschedule_action`. The commit is one transaction with the claim and
the revision row locked. What an execution still has to tell or to move is the
set `todo`, served in the fixed `Order` of the reservations, and `fresh` is the
part of it nobody has tried before; `proposal` keeps the offers of each assessed
revision. The reconciliation after a move (`Reassess`, `Lookup`,
`Upsert`) is three transactions without a fence, as in the code. An operator's
own reschedule appears as another change of the source. Severity is the number
of the impact kind in the order the policy compares; a reservation stands for
its subject.

### StaffAuthority

A command is a transaction `tx[c]` that goes through the waits of its SQL
function: the snapshot of the active memberships (`SnapshotRoot`), their locks in
the order of the principal ids (`LockRootRow`), the assertion of the manager with
the actor's rows `FOR SHARE`, the target's row, the check that a controller
remains, and the write with its commit. Membership and authority commands take
the root and assert the manager twice, as `lock_staff_command_authority` and the
command function both do, and a command that could end a controller takes it once
more. The row locks of a transaction are the set `tx[c].locks`; PostgreSQL's
answer to a circular wait is `AbortVictim`. `fresh` says that no revision the
client expects has moved. `DisableNativeIdentity` takes the topology gate
exclusively and so meets no command under way.

A principal is active while its membership is invited or active, and each member
has the one native binding its membership names.

## 3. Runs

| Run | Instance | Checks |
|---|---|---|
| `lease_actions` | 1 row, 2 workers, cancellation, one replay | ownership, budget, fencing, renewals and history of the stream, the refinement of `DurableWork`, and that every row ends |
| `lease_streams` | 3 rows of 2 organizations, batches of 2, unfenced handlers, rejection | a row is completed by its last claim, through the row protocol alone, and fairness between tenants |
| `lifecycle_safety` | 2 clients, 2 starts, 1 handler | no lost update; no-shows justified and recorded once |
| `lifecycle_liveness` | 1 client, 2 handlers, crashes | no Reservation is forgotten |
| `slot_chain` | 1 slot released twice, 2 entries, 2 transactions, 1 abort | no double booking, agreement of the rows, no repeated offer, resolution of every offer |
| `slot_pair` | 2 slots, 2 entries, 2 transactions | one Reservation per entry |
| `comm_delivery` | 1 notification, 3 channels, 2 handlers, 1 fault | no blind resend, sequential escalation, reported failures, final outcomes, no send after a cancellation, and where a task may be left without work |
| `live_day` | 2 customers, 3 visits, 2 operators, 1 caller, 1 resource | bounded overtaking, coherence of queue, sessions and resources, agreement of calls with screens and positions, no stale command |
| `requests_race` | 2 callers, 11 commands, 1 abort | one effect per key, disjoint correlations, honest completions, lawful submissions, every command answered |
| `recovery_autonomy` | 2 workers, 2 reservations, 3 revisions, 1 fault, budget 1 | budget of moves, true impact, no revision lost, no needless move |
| `staff_continuity` | 3 of the staff (a root, a suspended controller, one not invited), 2 transactions, 4 commands | a controller who can sign in remains, bindings follow memberships, authority at the commit |
| `comm_stranded` | 1 notification | violation, see below |

Why these bounds are enough to be interesting. In the streams two workers are
what a reclaim needs, two attempts let a reclaim and a retry both reach the
budget, and one replay follows it; a lease of more than one tick lets a renewal
wait across ticks. Three rows are the least for which a batch of two can be
unfair, and one of them has two attempts, so that it is claimed again while its
first worker still runs; the rows of one tenant and the workers are symmetric.
That a batch stays fair when rows are locked by handlers is shown only by the
theorem, because these handlers lock nothing. The lifecycle needs two starts for a reschedule and three events to move
away and back. For slots, two opportunities on one slot, two entries and two
transactions let offers, declines, expiries and direct bookings meet; the clock
reaches the start of the slot. A notification with three channels can escalate
twice; two handlers and one fault let a lost lease, a crash or a lost contact
point meet a retry, a reconciliation and a late report; `accepted` is left out of
the instance because every step treats it as `ambiguous`, which is in. In the
queue, three visits are the least in which an entry is skipped, overtaken and
followed; two operators make a screen stale, and one tick ends a hold. The
Requests instance has two submissions that name the same external keys in
opposite order, two commands under one key, and each other command. In recovery,
three revisions let a worker of an old revision meet the reassessment its own
move caused. In the staff four commands are the least for the interesting case: a
second controller is activated, perhaps through its binding too, and then two
commands remove one another's actors; its id sorts before the root's, so that a
second snapshot of the root can ask for locks in the wrong order.
`CHECK_DEADLOCK FALSE` is set where the bounded
clock and event counts make the instance stop.

### What the violation shows, and further counterexamples

- `comm_stranded`: `finalize_provider_result` answers a retryable failure only
  with the compare-and-set of `_rearm_retryable_failure`, which requires that the
  deadline has not passed. Recorded after the deadline, the failure leaves the
  task `delivering` with no action, no fact and no escalation, although
  `docs/v3/36-front-desk-operations-contract.md:126` says that a task is never
  stranded. `StrandedOnlyWhenExpected`, which passes, says that this and a
  dead-lettered action are the only ways.

Further counterexamples, which TLC finds with the named configurations:

- `MCReservationLifecycle_return.cfg` (`ReplacementScheduled`): an appointment
  moved away and back to its old start has no live no-show evaluation, because
  `schedule_action` accepts the cancelled row with the same dedupe key
  (`docs/v3/02-pre-sql-contract.md:1276` speaks of replacements).
- `MCReservationLifecycle_redelivery.cfg` (`RedeliveryAccepted`): an event
  redelivered after the cutoff conflicts with the action its first delivery
  created, because `execute_at` is clamped to the clock
  (`docs/v3/10-worker-runtime-hardening.md:135`).
- `MCReservationLifecycle_stale.cfg` (`ConvergesToLatest`): of two events handled
  at once, the one with the older snapshot may reconcile last
  (`docs/v3/10-worker-runtime-hardening.md:149`). The evaluation reads the current
  Reservation, so a no-show is still justified: `NoShowJustified` passes.
- `MCSlotOffers_fifo.cfg` (`FirstInFirstOut`): an entry that another
  opportunity's transaction has locked is skipped, although that transaction then
  does not use it (`docs/v3/02-pre-sql-contract.md:1391`).
- `MCCommunications_ladder.cfg` (`LadderAdvances`): an escalation child that
  fails before any attempt lets the walk start at the first channel again, so the
  next child goes to a channel before the last attempted one
  (`escalation_next_channel.py:37`: "First policy channel after the last attempted
  one").
- `MCLiveQueue_intake.cfg` (`StopIntakeHolds`): `queue.join` does not read the
  intake control (`docs/v3/32-operational-recovery-communications-contract.md:283`).
- `MCOperationalRecovery_untold.cfg` (`MovesAreTold`): the reassessment of the
  revision a move created resolves the incident between the look-up and the
  upsert of the moving worker; its handler fails, is retried, is stale, and the
  move is never announced (contract 32, line 271). No fault is needed.
- `MCOperationalRecovery_resolved.cfg` (`IncidentIsTrue`): the unfenced
  reconciliation writes an older verdict over a newer one (contract 32, line 281).
- `MCOperationalRecovery_notice.cfg` (`NoticesMatchMoves`): a worker's move is
  refused by Booking and its action is rejected; the same reassessment, executed
  again, finds the terminal action, the command returns it as if it had
  succeeded, and the subject receives a `rescheduled` notice (contract 32, line
  257).
- `MCStaffAuthority_revocation.cfg` (`RevocationPossible`): once a binding was
  revoked on its own, the update of it in `transition_staff_membership` repeats
  the status, `guard_identity_binding` raises, and the membership can no longer
  be revoked
  (`docs/architecture/identity-provider-and-staff-provisioning-plan.md:891`
  lists the transition).
- `MCStaffAuthority_inversion.cfg` (`InversionFree`): the staff root is locked
  again from a new snapshot; a member activated in between, whose id sorts
  first, makes two commands wait for each other, and one is aborted with 40P01
  (`docs/architecture/auth-implementation-status.md:900`: "inversion-free staff
  lock order"). Safety is not affected: `staff_continuity` includes such aborts.

Seen while modelling, and not stated as properties: an impact notice is lost when
the handler dies between the commit and the notice; attempts, unlike moves, may
exceed the cap when two workers plan at once; since the source fingerprint covers
the instant of observation, a repeated assessment without a proposal never
recognises its own incident and fails on the ledger's unique key until it is
dead-lettered; parties of a submission are validated without a lock.

## 4. Fairness

Used only for `EventuallyTerminal`, `NeverForgotten`, `OfferResolved` and
`CommandAnswered` (and for the counterexample to `MovesAreTold`).

- Time passes.
- `run_forever` keeps claiming; a process that ended is started again.
- `processing_timeout` ends every processor; a statement waiting for a lock
  proceeds when the lock is gone; a task that ended finalizes.
- The expiry action is claimed and run; `MaxAborts` stands for the attempts it
  may lose. If it lost all of them (`max_attempts = 8`) it would be dead and its
  offer would stay open until an operator's replay, which is outside the run.
- A transaction of the Requests module goes on, and a lock it waits for is
  granted in the order of PostgreSQL's lock queue, so it is not overtaken for
  ever: strong fairness of each transaction's step.
- Nothing is assumed of clients, and crashes are never required or excluded.

## 5. What is proved

For each of the eight modules, TLAPS proves every safety invariant and every
action property that a passing run checks, for all values of the constants: any
number of rows, workers, callers, staff, entries, revisions, and any schedule of
faults within them. The runs show the same properties on small instances, and
their mutants show that each can fail.

Every module has one inductive invariant, named `...Inv`, proved in three steps:
it holds initially, each action keeps each of its parts, it implies the
properties. TLC checked each of them on the instance of a run before it was
proved. Most proofs have the same shape: a lemma says what an action does to the
state ("effect"), a lemma for each part of the invariant says which effects keep
it, and the step lemma combines the two, one case per action.

The assumptions are those the modules state about their constants
(`ConstantsAssumption`, `CommandsAssumption`, `LifecycleAssumption`,
`StaffAssumption`, `LiveQueueAssumption`, `SlotOffersAssumption`,
`DeliveryAssumption`, `RecoveryAssumption`): limits are natural numbers or
positive, tables are finite, maps are total. TLC evaluates them in every run.

### WorkLeaseProofs

| Theorem | Says |
|---|---|
| `ClaimInvariant` | the inductive invariant `ClaimInv` always holds |
| `SingleOwnership` | at most one worker owns a row |
| `AttemptsBounded` | the attempt budget is kept |
| `LastClaimCompletes` | completed work was performed under its last claim (`CompletedByLastClaim`) |
| `RenewalsAreHonest` | only the holder of a claim lengthens its lease, and no renewal shortens one (`LeaseHonest`) |
| `EffectsSerialize` | a fenced effect commits only while its row is leased to it |
| `HistoryKept` | results are final and the attempt history grows |
| `TenantsShareBatches` | no tenant's second row before another tenant's first |
| `StreamKeepsPromise` | `WorkLease` implements `DurableWork` |

`SingleOwner` is not inductive: a new claim could produce a token some old task
still holds. `ClaimInv` adds that a leased row carries the last token issued
(`TokenCurrent`), that no task holds a token that was not issued and no two tasks
the same (`HeldUnique`), that an open handler transaction pins its claim
(`LockPinsClaim`, which needs that cancellation, reclaim and dead-lettering wait
for the row lock), that an effect is recorded once per claim (`EffectPerClaim`),
that a waiting renewal will not shorten the lease it renews (`RenewalSound`),
and the budget of rows not yet inserted (`Budget`). `CompletedByLastClaim` is a
part of it: at `Complete` the token compared is the last one issued, by
`TokenCurrent`, its effect is recorded, by `EffectPerClaim`, and every other task
holds an older one, by `HeldUnique`; afterwards nothing is issued for the row.
`LeaseHonest` needs `RenewalSound` for a renewal that resumes on its own claim,
and `TokenCurrent` for one whose row another worker took over. Tenant fairness is a counting
argument: a batch with two rows of one tenant has a rank of at least 2 in it, so
every free row it leaves out is ranked second or later; if no row of another
tenant were taken or locked, all of that tenant's n rows would have the n - 1
ranks 2..n. For the refinement each step of the stream is shown to be a step of
`DurableWork` or to leave what a submitter sees alone; a claim, which may
dead-letter several rows, is the abstract `Abandon` of a set.

### RequestsProofs

| Theorem | Says |
|---|---|
| `RequestsInvariant` | `RequestsInv` always holds |
| `IdempotentCommands` | one key, one effect (`OncePerKey`) |
| `ExternalKeysOwnedOnce` | no external key has two owners (`CorrelationsDisjoint`) |
| `HonestCompletion` | results as the submitted version defines them (`CompletionHonest`) |
| `LawfulSubmission` | what was verified still holds at the commit (`SubmittedLawfully`) |

Each property speaks of a commit, and rests on what the transaction found several
statements before. `RequestsInv` ties the two: whoever is past its key holds the
key's lock and the key had no record when it was taken; whoever is past the
availability check holds the locks of all its external keys, which nobody owns;
the definition version that was read cannot move under `FOR SHARE`. A key's
record, the effect and the lock are then never in disagreement.

### ReservationLifecycleProofs

| Theorem | Says |
|---|---|
| `LifecycleInvariant` | the inductive invariant always holds |
| `OneNoShow` | a no-show is recorded at most once (`NoShowRecordedOnce`) |
| `NoLostUpdate` | no command changes what its client has not seen (`NoStaleCommand`) |
| `JustifiedNoShow` | a no-show is due, and never over a check-in (`NoShowJustified`) |

The revision only grows, and attendance leaves `pending` once; a recorded no-show
is therefore the attendance itself (`NoShowRecordedOnce`), and the evaluation
that records it is the only one to go past the commands' bound of revisions
(`RevisionBound`). A view with the current revision is the current Reservation
(`ViewCurrent`).

### SlotOffersProofs

| Theorem | Says |
|---|---|
| `SlotInvariant` | the inductive invariant always holds |
| `OneOwnerPerSlot` | Reservations and live holds of a slot are at most one (`NoOverbooking`) |
| `OneStory` | offer, hold, opportunity and entry agree (`ChainConsistent`) |
| `OneReservationPerEntry` | an entry is fulfilled once (`FulfilledOnce`) |
| `ResolvedIsFinal` | a resolved offer stays, and is not repeated (`NeverReoffered`) |

What is needed beyond the properties concerns open transactions: what one has
read under its locks stays true until it ends (the opportunity it locked, the
offer it resolves, the candidate it locked), although candidates were read before
they were locked; nothing is offered for a release whose first commit has not
happened; and a slot is booked, held or neither.

### CommunicationsProofs

| Theorem | Says |
|---|---|
| `CommunicationInvariant` | the inductive invariant always holds |
| `OneHandover` | no attempt is handed over twice, none follows an open one (`NoBlindResend`) |
| `OneLiveTask` | one live task per lineage (`SequentialEscalation`) |
| `ReportedOnce` | one `task_failed` fact, and something follows it (`FailureIsReported`) |
| `NobodyForgotten` | the two ways a task may be left without work are the only ones (`StrandedOnlyWhenExpected`) |
| `ResultsStand` | late results downgrade nothing (`OutcomesAreFinal`) |
| `CancelledIsSilent` | nothing is sent after a cancellation (`NoSendAfterCancel`) |

The invariant relates four tables. Of deliveries: only the latest attempt of a
task is unresolved, and a delivered or finally failed one closes the task. Of
executions: one that is about to send works on the latest, unsent attempt of a
task nobody can cancel, and is alone in that. Of lineages: a task is closed before
it has a child. Of actions: one that is not yet due is pending, and every live
task has an action that will act on its latest delivery, unless the schedule gave
it up. The last part is what `NobodyForgotten` needs, and it is the longest of
these proofs: every step that ends an action, an attempt or a lease has to say
which action covers the task from then on.

### LiveQueueProofs

| Theorem | Says |
|---|---|
| `QueueInvariant` | the inductive invariant always holds |
| `OneSelectionPerSkip` | overtaking is bounded by the skips (`BoundedOvertaking`) |
| `CoherentService` | queue, sessions and resources agree (`ServiceCoherent`) |
| `HeadIsCalled` | a call calls whom the reads show first, and moves the positions accordingly (`CallsTheHead`) |
| `NoBlindCommand` | a command acts on the row its operator saw (`ActsOnWhatWasSeen`) |

The parts: a skipped entry waits and has exactly one unused pass; a screen whose
revision is the row's shows the row. For `HeadIsCalled` the entries the reads
call eligible, by the clock, are shown to be those the selection can take once it
has expired the time holds; the least of them is the one with nobody ahead. Coherence is kept by the pairing of live sessions and served entries, which
every command changes on both sides at once.

### OperationalRecoveryProofs

| Theorem | Says |
|---|---|
| `RecoveryInvariant` | `RecoveryInv` always holds |
| `LatestRevisionAssessed` | the latest revision is not given up before its verdict (`NoRevisionLost`) |
| `TrueImpact` | outcomes and notices are true of their revision (`ImpactIsTrue`) |
| `MovesWithinEnvelope` | the moves of an incident stay within the cap (`AutonomyBudget`) |
| `OnlyNeedfulMoves` | a move disturbs only whom the current revision cannot keep (`NoNeedlessMove`) |

The budget is the interesting one, because it is not the count of attempts: two
workers that plan at once may prepare more attempts than the cap. A move advances
the source, so a revision moves at most once, and Booking refuses attempts of
older revisions; the invariant bounds what may still move at the current revision
together with what was moved (`BudgetSound`). An execution past its commit at the
current revision has committed that revision's verdict, and proposals exist only
for assessed revisions (`ExecutionSound`).

### StaffAuthorityProofs

| Theorem | Says |
|---|---|
| `StaffInvariant` | the inductive invariant always holds |
| `TenantKeepsController` | a controller who can sign in remains (`ControllerContinuity`) |
| `NoLapsedAuthority` | the actor's authority holds at the commit (`AuthorityAtEffect`) |

`AuthorityAtEffect` follows from the actor's shared locks. `ControllerContinuity`
needs an argument about two commands that were both cleared to remove a
controller: each has locked the active members of its snapshot, and of two
snapshots the later one contains the other's target unless that target is no
longer active; so the later command would have had to lock a row the earlier one
keeps until it commits. Two cleared commands therefore never both have active
targets, and each check remains true of what the other leaves. The attempt to
prove this also corrected the model: the write of an invitation has to check again
that the principal is new, which the code leaves to the unique constraint
`principals_organization_id_principal_kind_external_subject_key`
(`migrations/baseline/0001_schema.10.sql:2738`).

### Only model-checked

The four liveness properties (`EventuallyTerminal`, `NeverForgotten`,
`OfferResolved`, `CommandAnswered`): they depend on fairness and `ENABLED`, which
are beyond the prover. The properties of the counterexamples in section 3 do not
hold and have no theorem.

## 6. Not modelled

Of tenancy: invitations by e-mail, identity links and their recovery, agents,
integrations, delegation between parties, the party registry, platform ownership
and staff profiles. Isolation between tenants, audit records, the wording of messages, pricing terms and the
revisions of configuration. Outside `Requests` and `StaffAuthority`, each command is taken as
authorized and called with a fresh key, except where a key's reuse is the point
(the no-show evaluation, the release event, `call_next`). Capacity in units and
capacity shared between tenants. Reschedules to a slot without free capacity,
which fail and change nothing. JSON schemas: payloads conform. Reminder
occurrences: a reminder's task is a task like any other. In recovery the
operator's own actions (extend the day, replace a resource, intake, communicate),
the sweep that schedules scopes nobody reassessed, and the revocation of an
envelope while a plan runs. The arithmetic of live capacity is a computation over
one snapshot; its verdicts are chosen freely, within what
`RecoveryAssumption` says of them. The count of people ahead in the live
capacity projection (`live_capacity_customer_source.py`) is not modelled: it
includes every earlier waiting entry, held and skipped ones too, and so differs
from `get_queue_status`, which `AheadOf` follows.

Catalog, discovery, onboarding, platform configuration, copilot and the HTTP and
CLI entry points are revisioned edits, reads and conversions with little
interleaving of their own, and hold most of the repository's lines. Native
authentication is left out. The definitions map to about 12,800 lines, comments
included, less than a tenth of the repository's implementation: the modules cover
its concurrent core and not its breadth. `PROJECT.json` lists every component with its reason.

A gap worth knowing: if the lifecycle handler dies after it created an
opportunity and is retried later than the offer time, it makes no offer and the
opportunity stays open (`GiveUp`). No document promises otherwise, so no property
is stated.

## 7. Plan

1. Done: the streams, the Reservation lifecycle, slot offers, communications, the
   live queue with its sessions, requests over idempotency, operational recovery
   and staff authority, model-checked; and for each of them an inductive invariant
   and the safety properties of its runs, proved.
2. An abstract specification of an idempotent command, implemented by `Requests`,
   in the way `WorkLease` implements `DurableWork`.
3. The operator's recovery actions, and units capacity for `SlotOffers`.
