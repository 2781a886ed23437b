------------------------------ MODULE WorkLease ------------------------------
(***************************************************************************)
(* The fenced lease protocol shared by the three durable work streams of   *)
(* the worker process: scheduled_actions, outbox_messages and              *)
(* provider_events.  The row operations are the request_cmd functions of   *)
(* the database; the task operations are FencedWorkerRuntime and the       *)
(* handlers it runs.                                                       *)
(*                                                                         *)
(* Time is PostgreSQL's clock_timestamp().  A timestamp in the future is   *)
(* kept as the ticks left until it; 0 means the instant has been reached,  *)
(* so a lease is live while lease[i] > 0 and a pending row is due when     *)
(* wait[i] = 0.                                                            *)
(*                                                                         *)
(* A claim token is a uuidv7().  It is represented by the ordinal of the   *)
(* claim among the claims of its row; 0 is NULL.                           *)
(***************************************************************************)
EXTENDS Integers, FiniteSets

CONSTANTS
    Items,         \* rows of one stream
    Orgs,          \* organizations
    OrgOf,         \* organization_id of a row
    Workers,       \* worker processes running this stream's loop
    ClaimLimit,    \* min(claim_batch_size, max_concurrency)
    LeaseTicks,    \* lease_duration
    MaxWait,       \* bound on how far ahead execute_at is placed
    RetryBase,     \* retry_base
    RetryCap,      \* retry_cap
    RetryJitter,   \* retry_jitter_fraction, in percent
    InitAttempts,  \* max_attempts of a new row, as its producer asked
    ExtraAttempts, \* bound on additional_attempts of one replay
    MaxReplays,    \* bound on replay_count
    CanCancel,     \* the stream has a cancel function (scheduled_actions)
    CanReject,     \* the runtime was given a rejecter (provider_events)
    Fenced         \* handlers lock their claim in the effect's transaction

ASSUME ConstantsAssumption ==
    /\ IsFiniteSet(Items)
    /\ OrgOf \in [Items -> Orgs]
    /\ ClaimLimit \in Nat \ {0}
    /\ LeaseTicks \in Nat \ {0}
    /\ MaxWait \in Nat
    /\ RetryBase \in Nat
    /\ RetryCap \in Nat /\ RetryBase <= RetryCap
    /\ RetryJitter \in 0..50
    /\ InitAttempts \in [Items -> Nat \ {0}]
    /\ ExtraAttempts \in Nat \ {0}
    /\ MaxReplays \in Nat
    /\ CanCancel \in BOOLEAN
    /\ CanReject \in BOOLEAN
    /\ Fenced \in BOOLEAN

VARIABLES
    status,      \* status column; "absent" before the row is inserted
    attempts,    \* attempt_count
    maxAttempts, \* max_attempts
    token,       \* claim_token, 0 when NULL
    issued,      \* number of tokens ever generated for the row
    lease,       \* ticks until lease_until
    wait,        \* ticks until next_attempt_at
    replays,     \* replay_count
    applied,     \* tokens under which the handler committed its effect
    pc,          \* pc[w][i]: where worker w is in _process_one for row i
    held,        \* held[w][i]: claim_token of the lease object w works on
    beat,        \* beat[w][i]: state of the heartbeat task
    pend         \* pend[w][i]: lease a renewal will write once unblocked

rowVars  == <<status, attempts, maxAttempts, token, issued, lease, wait, replays>>
taskVars == <<pc, held, beat, pend>>
vars     == <<rowVars, applied, taskVars>>

Statuses == {"absent", "pending", "leased", "completed", "dead",
             "cancelled", "rejected"}
Terminal == {"completed", "dead", "cancelled", "rejected"}

\* Where the processor of a task is: before its transaction, inside the
\* transaction that locked the claim, or past the commit.
Processing == {"run", "tx", "after"}
\* How the processor ended; each value selects a branch of _process_one.
Ended == {"returned", "retryable", "permanent", "rejected", "lease_lost"}

Beats == {"off", "on", "waiting", "lost"}

-----------------------------------------------------------------------------
(* Rows *)

\* Defect: the fence forgets to compare claim_token.
LiveClaimAnyToken(w, i) ==
    /\ status[i] = "leased"
    /\ lease[i] > 0

\* status = 'leased' AND claim_token = token AND lease_until > clock_timestamp()
LiveClaim(w, i) ==
    /\ status[i] = "leased"
    /\ token[i] = held[w][i]
    /\ lease[i] > 0

\* Defect: expired leases are not claimable.
DuePendingOnly(i) == status[i] = "pending" /\ wait[i] = 0

Due(i) ==
    \/ status[i] = "pending" /\ wait[i] = 0
    \/ status[i] = "leased" /\ lease[i] = 0

\* Defect: the fence reads the claim without FOR UPDATE.
NeverLocked(i) == FALSE

\* A handler transaction holds the row lock.
Locked(i) == \E w \in Workers : pc[w][i] = "tx"

\* Defect: attempt_count <= max_attempts.
EligibleAtLimit == {i \in Items : Due(i) /\ attempts[i] <= maxAttempts[i]}

Exhausted == {i \in Items : Due(i) /\ attempts[i] >= maxAttempts[i]}
Eligible  == {i \in Items : Due(i) /\ attempts[i] < maxAttempts[i]}

\* Defect: ranks over all rows, without PARTITION BY organization_id.
GlobalRanks(S) ==
    {r \in [S -> 1..Cardinality(S)] : \A i, j \in S : i # j => r[i] # r[j]}

\* row_number() OVER (PARTITION BY organization_id ORDER BY due_at, id), for
\* an arbitrary order of the rows inside a tenant.
TenantRanks(S) ==
    LET Same(i) == {j \in S : OrgOf[j] = OrgOf[i]}
    IN  {r \in [S -> 1..Cardinality(S)] :
            \A i \in S : /\ r[i] <= Cardinality(Same(i))
                         /\ \A j \in Same(i) : j # i => r[j] # r[i]}

\* ORDER BY tenant_rank ... FOR UPDATE SKIP LOCKED LIMIT p_limit
Batches ==
    LET free == {i \in Eligible : ~Locked(i)}
    IN  {S \in SUBSET free :
            /\ \/ Cardinality(S) = ClaimLimit
               \/ Cardinality(S) < ClaimLimit /\ S = free
            /\ \E r \in TenantRanks(Eligible) :
                  \A i \in S, j \in free \ S : r[i] <= r[j]}

\* _retry_delay: capped exponential backoff times a factor in 1 +- jitter
\* that depends on a hash.
RetryDelays(n) ==
    LET e == IF n - 1 > 20 THEN 20 ELSE n - 1
        b == IF RetryBase * 2^e > RetryCap THEN RetryCap ELSE RetryBase * 2^e
    IN  {d \in 0..RetryCap : /\ 100 * d >= (100 - RetryJitter) * b
                             /\ 100 * d <= (100 + RetryJitter) * b}

TypeOK ==
    /\ status \in [Items -> Statuses]
    /\ attempts \in [Items -> Nat]
    /\ maxAttempts \in [Items -> Nat]
    /\ token \in [Items -> Nat]
    /\ issued \in [Items -> Nat]
    /\ lease \in [Items -> Nat]
    /\ wait \in [Items -> Nat]
    /\ replays \in [Items -> Nat]
    /\ applied \in [Items -> SUBSET Nat]
    /\ pc \in [Workers -> [Items -> {"idle"} \cup Processing \cup Ended]]
    /\ held \in [Workers -> [Items -> Nat]]
    /\ beat \in [Workers -> [Items -> Beats]]
    /\ pend \in [Workers -> [Items -> Nat]]

Init ==
    /\ status = [i \in Items |-> "absent"]
    /\ attempts = [i \in Items |-> 0]
    /\ maxAttempts = InitAttempts
    /\ token = [i \in Items |-> 0]
    /\ issued = [i \in Items |-> 0]
    /\ lease = [i \in Items |-> 0]
    /\ wait = [i \in Items |-> 0]
    /\ replays = [i \in Items |-> 0]
    /\ applied = [i \in Items |-> {}]
    /\ pc = [w \in Workers |-> [i \in Items |-> "idle"]]
    /\ held = [w \in Workers |-> [i \in Items |-> 0]]
    /\ beat = [w \in Workers |-> [i \in Items |-> "off"]]
    /\ pend = [w \in Workers |-> [i \in Items |-> 0]]

\* schedule_action, append_outbox, record_provider_event: insert the row once.
\* Calling again with the same dedupe identity leaves the row alone.
Enqueue(i) ==
    /\ status[i] = "absent"
    /\ status' = [status EXCEPT ![i] = "pending"]
    /\ \E d \in 0..MaxWait : wait' = [wait EXCEPT ![i] = d]
    /\ UNCHANGED <<attempts, maxAttempts, token, issued, lease, replays,
                   applied, taskVars>>

\* Defect: cancellation does not wait for a running handler.
CancelUnlocked(i) ==
    /\ CanCancel
    /\ status[i] \in {"pending", "leased"}
    /\ status' = [status EXCEPT ![i] = "cancelled"]
    /\ token' = [token EXCEPT ![i] = 0]
    /\ lease' = [lease EXCEPT ![i] = 0]
    /\ UNCHANGED <<attempts, maxAttempts, issued, wait, replays, applied, taskVars>>

\* Defect: cancellation leaves claim_token behind.
CancelKeepsToken(i) ==
    /\ CanCancel
    /\ status[i] \in {"pending", "leased"}
    /\ ~Locked(i)
    /\ status' = [status EXCEPT ![i] = "cancelled"]
    /\ lease' = [lease EXCEPT ![i] = 0]
    /\ UNCHANGED <<attempts, maxAttempts, token, issued, wait, replays, applied, taskVars>>

\* cancel_scheduled_action; waits while a handler holds the row lock.
Cancel(i) ==
    /\ CanCancel
    /\ status[i] \in {"pending", "leased"}
    /\ ~Locked(i)
    /\ status' = [status EXCEPT ![i] = "cancelled"]
    /\ token' = [token EXCEPT ![i] = 0]
    /\ lease' = [lease EXCEPT ![i] = 0]
    /\ UNCHANGED <<attempts, maxAttempts, issued, wait, replays, applied, taskVars>>

\* Defect: a replay resets attempt_count instead of raising max_attempts.
ReplayResets(i) ==
    /\ status[i] = "dead"
    /\ replays[i] < MaxReplays
    /\ attempts' = [attempts EXCEPT ![i] = 0]
    /\ status' = [status EXCEPT ![i] = "pending"]
    /\ token' = [token EXCEPT ![i] = 0]
    /\ lease' = [lease EXCEPT ![i] = 0]
    /\ wait' = [wait EXCEPT ![i] = 0]
    /\ replays' = [replays EXCEPT ![i] = @ + 1]
    /\ UNCHANGED <<maxAttempts, issued, applied, taskVars>>

\* replay_dead_scheduled_action, replay_dead_outbox_message,
\* replay_provider_event (which also takes rejected rows).
Replay(i) ==
    /\ \/ status[i] = "dead"
       \/ CanReject /\ status[i] = "rejected"
    /\ replays[i] < MaxReplays
    /\ \E n \in 1..ExtraAttempts :
          maxAttempts' = [maxAttempts EXCEPT ![i] = @ + n]
    /\ status' = [status EXCEPT ![i] = "pending"]
    /\ token' = [token EXCEPT ![i] = 0]
    /\ lease' = [lease EXCEPT ![i] = 0]
    /\ wait' = [wait EXCEPT ![i] = 0]
    /\ replays' = [replays EXCEPT ![i] = @ + 1]
    /\ UNCHANGED <<attempts, issued, applied, taskVars>>

\* claim_scheduled_actions, claim_outbox_messages, claim_provider_events,
\* called by run_once when every task of the previous batch is over.  The
\* first UPDATE dead-letters exhausted rows and waits for their row locks;
\* the batch skips locked rows.
Claim(w) ==
    /\ \A i \in Items : pc[w][i] = "idle"
    /\ \A i \in Exhausted : ~Locked(i)
    /\ \E S \in Batches :
          /\ S \cup Exhausted # {}
          /\ status' = [i \in Items |-> IF i \in S THEN "leased"
                                        ELSE IF i \in Exhausted THEN "dead"
                                        ELSE status[i]]
          /\ token' = [i \in Items |-> IF i \in S THEN issued[i] + 1
                                       ELSE IF i \in Exhausted THEN 0
                                       ELSE token[i]]
          /\ issued' = [i \in Items |-> IF i \in S THEN issued[i] + 1 ELSE issued[i]]
          /\ attempts' = [i \in Items |-> IF i \in S THEN attempts[i] + 1
                                          ELSE attempts[i]]
          /\ lease' = [i \in Items |-> IF i \in S THEN LeaseTicks
                                       ELSE IF i \in Exhausted THEN 0
                                       ELSE lease[i]]
          /\ pc' = [pc EXCEPT ![w] = [i \in Items |-> IF i \in S THEN "run" ELSE "idle"]]
          /\ held' = [held EXCEPT ![w] =
                        [i \in Items |-> IF i \in S THEN issued[i] + 1 ELSE 0]]
          /\ beat' = [beat EXCEPT ![w] = [i \in Items |-> IF i \in S THEN "on" ELSE "off"]]
    /\ UNCHANGED <<maxAttempts, wait, replays, applied, pend>>

-----------------------------------------------------------------------------
(* Tasks: the processor *)

Moves(w, i, from, to) ==
    /\ pc[w][i] \in from
    /\ pc' = [pc EXCEPT ![w][i] = to]

\* lock_scheduled_action_claim / lock_outbox_message_claim found the live
\* claim: SELECT ... FOR UPDATE keeps the row locked until the transaction ends.
HandlerLock(w, i) ==
    /\ Fenced
    /\ LiveClaim(w, i)
    /\ Moves(w, i, {"run"}, "tx")
    /\ UNCHANGED <<rowVars, applied, held, beat, pend>>

\* The fence found no live claim: the handler raises LeaseLostWorkError.
HandlerFenceLost(w, i) ==
    /\ Fenced
    /\ ~LiveClaim(w, i)
    /\ Moves(w, i, {"run"}, "lease_lost")
    /\ UNCHANGED <<rowVars, applied, held, beat, pend>>

\* The handler's transaction commits.  A handler that does not fence commits
\* whatever happened to its claim.
HandlerCommit(w, i) ==
    /\ Moves(w, i, {IF Fenced THEN "tx" ELSE "run"}, "after")
    /\ applied' = [applied EXCEPT ![i] = @ \cup {held[w][i]}]
    /\ UNCHANGED <<rowVars, held, beat, pend>>

\* process() returns; for the outbox, after publisher.publish.
HandlerReturn(w, i) ==
    /\ Moves(w, i, {"after"}, "returned")
    /\ UNCHANGED <<rowVars, applied, held, beat, pend>>

\* process() raises, before, inside or after the transaction; an open
\* transaction rolls back.  The processing timeout is a retryable error.
HandlerFail(w, i, kind) ==
    /\ kind \in {"retryable", "permanent"} \cup (IF CanReject THEN {"rejected"} ELSE {})
    /\ Moves(w, i, Processing, kind)
    /\ UNCHANGED <<rowVars, applied, held, beat, pend>>

-----------------------------------------------------------------------------
(* Tasks: the heartbeat *)

\* renew returns at once: the row is free, or its WHERE clause is false.
Renew(w, i) ==
    /\ pc[w][i] \in Processing
    /\ beat[w][i] = "on"
    /\ ~(pc[w][i] = "tx" /\ LiveClaim(w, i))
    /\ IF LiveClaim(w, i)
       THEN /\ lease' = [lease EXCEPT ![i] = LeaseTicks]
            /\ UNCHANGED beat
       ELSE /\ beat' = [beat EXCEPT ![w][i] = "lost"]
            /\ UNCHANGED lease
    /\ UNCHANGED <<status, attempts, maxAttempts, token, issued, wait, replays,
                   applied, pc, held, pend>>

\* renew passed its WHERE clause but the row is locked by the handler of the
\* same lease: the statement waits with the new lease_until already computed.
RenewBlocks(w, i) ==
    /\ pc[w][i] = "tx"
    /\ beat[w][i] = "on"
    /\ LiveClaim(w, i)
    /\ beat' = [beat EXCEPT ![w][i] = "waiting"]
    /\ pend' = [pend EXCEPT ![w][i] = LeaseTicks]
    /\ UNCHANGED <<rowVars, applied, pc, held>>

\* Defect: the resumed statement overwrites the lease of whoever has the row.
RenewResumesBlindly(w, i) ==
    /\ beat[w][i] = "waiting"
    /\ pc[w][i] # "tx"
    /\ lease' = IF status[i] = "leased" THEN [lease EXCEPT ![i] = pend[w][i]] ELSE lease
    /\ beat' = [beat EXCEPT ![w][i] = "on"]
    /\ pend' = [pend EXCEPT ![w][i] = 0]
    /\ UNCHANGED <<status, attempts, maxAttempts, token, issued, wait, replays,
                   applied, pc, held>>

\* The row lock is gone.  An unchanged row is updated without evaluating the
\* WHERE clause again; a row someone changed is re-evaluated and no longer
\* carries the token.
RenewResumes(w, i) ==
    /\ beat[w][i] = "waiting"
    /\ pc[w][i] # "tx"
    /\ IF status[i] = "leased" /\ token[i] = held[w][i]
       THEN /\ lease' = [lease EXCEPT ![i] = pend[w][i]]
            /\ beat' = [beat EXCEPT ![w][i] = "on"]
       ELSE /\ beat' = [beat EXCEPT ![w][i] = "lost"]
            /\ UNCHANGED lease
    /\ pend' = [pend EXCEPT ![w][i] = 0]
    /\ UNCHANGED <<status, attempts, maxAttempts, token, issued, wait, replays,
                   applied, pc, held>>

\* renew raises: ownership can no longer be proved.
RenewError(w, i) ==
    /\ \/ beat[w][i] = "on" /\ pc[w][i] \in Processing
       \/ beat[w][i] = "waiting"
    /\ beat' = [beat EXCEPT ![w][i] = "lost"]
    /\ pend' = [pend EXCEPT ![w][i] = 0]
    /\ UNCHANGED <<rowVars, applied, pc, held>>

-----------------------------------------------------------------------------
(* Tasks: finalization, after the heartbeat has been joined *)

TaskOver(w, i) ==
    /\ beat[w][i] # "waiting"
    /\ pc' = [pc EXCEPT ![w][i] = "idle"]
    /\ held' = [held EXCEPT ![w][i] = 0]
    /\ beat' = [beat EXCEPT ![w][i] = "off"]
    /\ UNCHANGED pend

\* WorkerItemState.STALE: leave the row alone, either because ownership is in
\* doubt or because the fenced finalizer matched no row.
FinishStale(w, i) ==
    /\ pc[w][i] \in Ended
    /\ \/ beat[w][i] = "lost"
       \/ pc[w][i] = "lease_lost"
       \/ ~LiveClaim(w, i)
    /\ TaskOver(w, i)
    /\ UNCHANGED <<rowVars, applied>>

\* The fenced finalizers take a row out of 'leased'.
Finalizes(w, i, how) ==
    /\ pc[w][i] = how
    /\ beat[w][i] = "on"
    /\ LiveClaim(w, i)
    /\ token' = [token EXCEPT ![i] = 0]
    /\ lease' = [lease EXCEPT ![i] = 0]
    /\ TaskOver(w, i)
    /\ UNCHANGED <<attempts, maxAttempts, issued, replays, applied>>

Complete(w, i) ==
    /\ Finalizes(w, i, "returned")
    /\ status' = [status EXCEPT ![i] = "completed"]
    /\ UNCHANGED wait

DeadLetter(w, i) ==
    /\ Finalizes(w, i, "permanent")
    /\ status' = [status EXCEPT ![i] = "dead"]
    /\ UNCHANGED wait

Reject(w, i) ==
    /\ CanReject
    /\ Finalizes(w, i, "rejected")
    /\ status' = [status EXCEPT ![i] = "rejected"]
    /\ UNCHANGED wait

RetryAfter(w, i) ==
    /\ Finalizes(w, i, "retryable")
    /\ IF attempts[i] >= maxAttempts[i]
       THEN /\ status' = [status EXCEPT ![i] = "dead"]
            /\ UNCHANGED wait
       ELSE /\ status' = [status EXCEPT ![i] = "pending"]
            /\ \E d \in RetryDelays(attempts[i]) : wait' = [wait EXCEPT ![i] = d]

-----------------------------------------------------------------------------

\* The process dies, or one of its loops raises and the supervisor cancels the
\* others: tasks vanish, open transactions roll back, rows keep their lease.
Crash(w) ==
    /\ \E i \in Items : pc[w][i] # "idle"
    /\ pc' = [pc EXCEPT ![w] = [i \in Items |-> "idle"]]
    /\ held' = [held EXCEPT ![w] = [i \in Items |-> 0]]
    /\ beat' = [beat EXCEPT ![w] = [i \in Items |-> "off"]]
    /\ pend' = [pend EXCEPT ![w] = [i \in Items |-> 0]]
    /\ UNCHANGED <<rowVars, applied>>

Down(n) == IF n > 0 THEN n - 1 ELSE 0

\* clock_timestamp() advances.
Tick ==
    /\ lease' = [i \in Items |-> Down(lease[i])]
    /\ wait' = [i \in Items |-> Down(wait[i])]
    /\ pend' = [w \in Workers |-> [i \in Items |-> Down(pend[w][i])]]
    /\ UNCHANGED <<status, attempts, maxAttempts, token, issued, replays,
                   applied, pc, held, beat>>

HandlerStep(w, i) ==
    \/ HandlerLock(w, i)
    \/ HandlerFenceLost(w, i)
    \/ HandlerCommit(w, i)
    \/ HandlerReturn(w, i)
    \/ \E kind \in Ended : HandlerFail(w, i, kind)

HeartbeatStep(w, i) ==
    \/ Renew(w, i)
    \/ RenewBlocks(w, i)
    \/ RenewResumes(w, i)
    \/ RenewError(w, i)

FinishStep(w, i) ==
    \/ FinishStale(w, i)
    \/ Complete(w, i)
    \/ DeadLetter(w, i)
    \/ Reject(w, i)
    \/ RetryAfter(w, i)

Next ==
    \/ \E i \in Items : Enqueue(i) \/ Cancel(i) \/ Replay(i)
    \/ \E w \in Workers : Claim(w) \/ Crash(w)
    \/ \E w \in Workers, i \in Items :
          HandlerStep(w, i) \/ HeartbeatStep(w, i) \/ FinishStep(w, i)
    \/ Tick

Spec == Init /\ [][Next]_vars

\* Time passes; every loop keeps claiming; processing_timeout ends every
\* processor; a blocked statement proceeds when its lock is released; a task
\* that ended finalizes.
Fairness ==
    /\ WF_vars(Tick)
    /\ \A w \in Workers :
          /\ WF_vars(Claim(w))
          /\ \A i \in Items : /\ WF_vars(HandlerStep(w, i))
                              /\ WF_vars(RenewResumes(w, i))
                              /\ WF_vars(FinishStep(w, i))

FairSpec == Spec /\ Fairness

-----------------------------------------------------------------------------
(* Properties *)

\* Worker w works on the lease that the row currently records.
Owns(w, i) ==
    /\ pc[w][i] # "idle"
    /\ status[i] = "leased"
    /\ token[i] = held[w][i]

\* At most one worker owns a row, however often the row was reclaimed, and a
\* handler transaction is open only in the owner (claim_* writes a fresh
\* claim_token; lock_*_claim compares it).
SingleOwner ==
    \A i \in Items :
        /\ \A v, w \in Workers : Owns(v, i) /\ Owns(w, i) => v = w
        /\ \A w \in Workers : pc[w][i] = "tx" => Owns(w, i)

\* attempt_count never exceeds max_attempts, and work waiting for another
\* attempt still has budget for it: no reclaim, crash, retry or replay hands
\* out an attempt that was not granted.
AttemptBudget ==
    \A i \in Items :
        /\ attempts[i] <= maxAttempts[i]
        /\ status[i] = "pending" => attempts[i] < maxAttempts[i]

\* A row is completed by its last claim: a worker whose lease was taken over
\* cannot complete the row on behalf of the new owner, who has yet to perform
\* it, even where handlers do not fence their effects (complete_* compares
\* claim_token).
CompletedByLastClaim ==
    \A i \in Items : status[i] = "completed" =>
        /\ issued[i] \in applied[i]
        /\ \A w \in Workers : pc[w][i] # "idle" => held[w][i] < issued[i]

\* As long as a claim lasts, only time shortens its lease, and only the task
\* that holds it lengthens the lease, to one lease_duration at most.  A renewal
\* that waited for its own handler may write an old lease_until and revive a
\* lease that lapsed; it never cuts short a newer lease, neither its own nor
\* that of a worker who took the row over meanwhile (renew_*).
LeaseHonest ==
    [][\/ Tick
       \/ \A i \in Items :
             status[i] = "leased" /\ status'[i] = "leased" /\ token'[i] = token[i] =>
                \/ lease'[i] = lease[i]
                \/ /\ lease'[i] > lease[i] /\ lease'[i] <= LeaseTicks
                   /\ \E w \in Workers : Owns(w, i) /\ beat[w][i] \in {"on", "waiting"}
      ]_vars

\* Under the claim fence a handler commits only while its row is leased to it:
\* cancellation, reclaim and dead-lettering happen before its transaction or
\* after it, never inside (lock_action_claim).
EffectSerializes ==
    [][\A i \in Items :
          Fenced /\ applied'[i] # applied[i]
          => \E w \in Workers : Owns(w, i) /\ applied'[i] = applied[i] \cup {token[i]}
      ]_vars

\* Completed and cancelled rows never change again, and attempt_count is a
\* lifetime history: it never decreases, not even on an operator's replay.
HistoryPreserved ==
    [][\A i \in Items :
          /\ status[i] \in {"completed", "cancelled"} => status'[i] = status[i]
          /\ attempts'[i] >= attempts[i]
          /\ attempts'[i] # attempts[i] => status'[i] = "leased" /\ token'[i] # token[i]
      ]_vars

\* One batch never serves a tenant's second row while another tenant's first
\* row is left behind: a claim that takes two rows of one organization leaves
\* out an organization only if all it has due is locked by running handlers
\* or some locked row of it was ranked first.
TenantFairness ==
    [][\A w \in Workers :
          LET taken == {x \in Items : pc[w][x] = "idle" /\ pc'[w][x] = "run"}
          IN  \A i, j \in taken : \A k \in Eligible \ taken :
                 i # j /\ OrgOf[i] = OrgOf[j] /\ OrgOf[k] # OrgOf[i] /\ ~Locked(k)
                 => \E x \in taken \cup {y \in Eligible : Locked(y)} : OrgOf[x] = OrgOf[k]
      ]_vars

\* Every row that was enqueued is eventually completed, dead, cancelled or
\* rejected, through crashes, lost leases, retries and replays.
EventuallyTerminal ==
    \A i \in Items : status[i] \in {"pending", "leased"} ~> status[i] \in Terminal

\* The row's state as a submitter of work sees it.
Seen(st) ==
    IF st = "absent" THEN "none"
    ELSE IF st \in {"pending", "leased"} THEN "open" ELSE st

Outcome == [i \in Items |-> Seen(status[i])]

Promise == INSTANCE DurableWork WITH state <- Outcome, effects <- applied

\* The stream implements the promise of DurableWork, whatever its workers do:
\* the row functions and the runtime together, not one of them alone.
ImplementsDurableWork == Promise!DSpec

-----------------------------------------------------------------------------
(* The inductive strengthening of the safety properties *)

\* A row carries a token exactly while it is leased: the last one issued.
TokenCurrent ==
    \A i \in Items :
        /\ status[i] = "leased" => token[i] = issued[i] /\ issued[i] > 0
        /\ status[i] # "leased" => token[i] = 0

\* No task holds a token from the future, and no two tasks hold the same one.
HeldUnique ==
    \A i \in Items :
        /\ \A w \in Workers : held[w][i] <= issued[i]
        /\ \A v, w \in Workers :
              pc[v][i] # "idle" /\ pc[w][i] # "idle" /\ held[v][i] = held[w][i]
              => v = w

\* An open handler transaction pins its claim.
LockPinsClaim ==
    \A i \in Items : \A w \in Workers :
        pc[w][i] = "tx" => status[i] = "leased" /\ token[i] = held[w][i]

\* Effects are recorded under issued tokens, once per claim: a task that has
\* not committed has no effect yet, a task that committed has one.
EffectPerClaim ==
    \A i \in Items :
        /\ \A t \in applied[i] : t <= issued[i]
        /\ \A w \in Workers :
              /\ pc[w][i] \in {"run", "tx"} => held[w][i] \notin applied[i]
              /\ pc[w][i] \in {"after", "returned"} => held[w][i] \in applied[i]

\* The budget also holds for rows not yet inserted.
Budget ==
    \A i \in Items :
        /\ attempts[i] <= maxAttempts[i]
        /\ status[i] \in {"absent", "pending"} => attempts[i] < maxAttempts[i]

\* A renewal that waits belongs to a running task and will not shorten the
\* lease it renews.
RenewalSound ==
    /\ \A i \in Items : lease[i] <= LeaseTicks
    /\ \A w \in Workers, i \in Items : beat[w][i] = "waiting" =>
          /\ pc[w][i] # "idle" /\ pend[w][i] <= LeaseTicks
          /\ status[i] = "leased" /\ token[i] = held[w][i] => lease[i] <= pend[w][i]

\* Claims, locks, effects and budgets agree in every reachable state; each
\* part is preserved only with the help of the others.
ClaimInv ==
    /\ TypeOK
    /\ TokenCurrent
    /\ HeldUnique
    /\ LockPinsClaim
    /\ EffectPerClaim
    /\ Budget
    /\ RenewalSound
    /\ CompletedByLastClaim

=============================================================================
