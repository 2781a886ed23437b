--------------------------- MODULE WorkLeaseProofs ---------------------------
(***************************************************************************)
(* Proofs about WorkLease for any rows, tenants, workers, lease lengths    *)
(* and retry policies.                                                     *)
(***************************************************************************)
EXTENDS WorkLease, FiniteSetTheorems, TLAPS

\* A backoff is a number of ticks, whatever the attempt and the jitter
\* (_retry_delay).
LEMMA RetryDelaysType ==
    ASSUME NEW n, NEW d \in RetryDelays(n)
    PROVE  d \in Nat
BY ConstantsAssumption DEF RetryDelays

\* The batch of a claim consists of due rows with attempts left that no
\* handler has locked (claim_*).
LEMMA BatchRows ==
    ASSUME NEW S \in Batches
    PROVE  \A i \in S : /\ i \in Items
                        /\ Due(i)
                        /\ attempts[i] < maxAttempts[i]
                        /\ ~Locked(i)
BY DEF Batches, Eligible

\* Every operation of rows and tasks keeps the types of all state.
LEMMA TypePreserved == TypeOK /\ [Next]_vars => TypeOK'
<1> SUFFICES ASSUME TypeOK, [Next]_vars PROVE TypeOK'
  OBVIOUS
<1> USE DEF TypeOK
<1>1. ASSUME NEW i \in Items, Enqueue(i) PROVE TypeOK'
  BY <1>1, ConstantsAssumption DEF Enqueue, taskVars, Statuses
<1>2. ASSUME NEW i \in Items, Cancel(i) PROVE TypeOK'
  BY <1>2 DEF Cancel, taskVars, Statuses
<1>3. ASSUME NEW i \in Items, Replay(i) PROVE TypeOK'
  BY <1>3, ConstantsAssumption DEF Replay, taskVars, Statuses
<1>4. ASSUME NEW w \in Workers, Claim(w) PROVE TypeOK'
  BY <1>4, ConstantsAssumption DEF Claim, Statuses, Beats, Processing
<1>5. ASSUME NEW w \in Workers, Crash(w) PROVE TypeOK'
  BY <1>5 DEF Crash, rowVars, Beats
<1>6. ASSUME NEW w \in Workers, NEW i \in Items, HandlerStep(w, i) PROVE TypeOK'
  <2>1. CASE HandlerLock(w, i)
    BY <2>1 DEF HandlerLock, Moves, Processing, rowVars
  <2>2. CASE HandlerFenceLost(w, i)
    BY <2>2 DEF HandlerFenceLost, Moves, Ended, rowVars
  <2>3. CASE HandlerCommit(w, i)
    BY <2>3 DEF HandlerCommit, Moves, Processing, rowVars
  <2>4. CASE HandlerReturn(w, i)
    BY <2>4 DEF HandlerReturn, Moves, Ended, rowVars
  <2>5. ASSUME NEW kind \in Ended, HandlerFail(w, i, kind) PROVE TypeOK'
    BY <2>5 DEF HandlerFail, Moves, rowVars
  <2>6. QED
    BY <1>6, <2>1, <2>2, <2>3, <2>4, <2>5 DEF HandlerStep
<1>7. ASSUME NEW w \in Workers, NEW i \in Items, HeartbeatStep(w, i) PROVE TypeOK'
  <2>1. CASE Renew(w, i)
    <3>1. lease' \in [Items -> Nat]
      BY ZenonT(40), <2>1, ConstantsAssumption DEF Renew
    <3>2. beat' \in [Workers -> [Items -> Beats]]
      <4>1. \/ beat' = beat
            \/ beat' = [beat EXCEPT ![w][i] = "lost"]
        BY <2>1 DEF Renew
      <4>2. CASE beat' = [beat EXCEPT ![w][i] = "lost"]
        BY <4>2 DEF Beats
      <4>3. CASE beat' = beat
        BY <4>3 DEF Beats
      <4>4. QED
        BY <4>1, <4>2, <4>3
    <3>3. QED
      BY <2>1, <3>1, <3>2 DEF Renew
  <2>2. CASE RenewBlocks(w, i)
    BY <2>2, ConstantsAssumption DEF RenewBlocks, Beats, rowVars
  <2>3. CASE RenewResumes(w, i)
    <3>1. lease' \in [Items -> Nat]
      BY SMTT(30), <2>3 DEF RenewResumes
    <3>2. beat' \in [Workers -> [Items -> Beats]]
      <4>1. \/ beat' = [beat EXCEPT ![w][i] = "on"]
            \/ beat' = [beat EXCEPT ![w][i] = "lost"]
        BY <2>3 DEF RenewResumes
      <4>2. CASE beat' = [beat EXCEPT ![w][i] = "lost"]
        BY <4>2 DEF Beats
      <4>3. CASE beat' = [beat EXCEPT ![w][i] = "on"]
        BY <4>3 DEF Beats
      <4>4. QED
        BY <4>1, <4>2, <4>3
    <3>3. QED
      BY <2>3, <3>1, <3>2 DEF RenewResumes
  <2>4. CASE RenewError(w, i)
    BY <2>4 DEF RenewError, Beats, rowVars
  <2>5. QED
    BY <1>7, <2>1, <2>2, <2>3, <2>4 DEF HeartbeatStep
<1>8. ASSUME NEW w \in Workers, NEW i \in Items, FinishStep(w, i) PROVE TypeOK'
  <2>1. CASE FinishStale(w, i)
    BY <2>1 DEF FinishStale, TaskOver, Beats, rowVars
  <2>2. CASE Complete(w, i)
    BY <2>2 DEF Complete, Finalizes, TaskOver, Beats, Statuses
  <2>3. CASE DeadLetter(w, i)
    BY <2>3 DEF DeadLetter, Finalizes, TaskOver, Beats, Statuses
  <2>4. CASE Reject(w, i)
    BY <2>4 DEF Reject, Finalizes, TaskOver, Beats, Statuses
  <2>5. CASE RetryAfter(w, i)
    <3>1. wait' \in [Items -> Nat]
      BY SMTT(30), <2>5, RetryDelaysType DEF RetryAfter
    <3>2. status' \in [Items -> Statuses]
      BY <2>5 DEF RetryAfter, Statuses
    <3>3. QED
      BY <2>5, <3>1, <3>2 DEF RetryAfter, Finalizes, TaskOver, Beats
  <2>6. QED
    BY <1>8, <2>1, <2>2, <2>3, <2>4, <2>5 DEF FinishStep
<1>9. CASE Tick
  BY <1>9 DEF Tick, Down
<1>10. CASE UNCHANGED vars
  BY <1>10 DEF vars, rowVars, taskVars
<1>11. QED
  BY <1>1, <1>2, <1>3, <1>4, <1>5, <1>6, <1>7, <1>8, <1>9, <1>10 DEF Next

\* What the steps of a task leave alone.
LEMMA HandlerFrame ==
    ASSUME NEW w, NEW i, HandlerStep(w, i)
    PROVE  UNCHANGED <<rowVars, held, beat, pend>>
BY DEF HandlerStep, HandlerLock, HandlerFenceLost, HandlerCommit, HandlerReturn, HandlerFail

\* What a renewal leaves alone: it touches lease_until and the heartbeat's
\* own state, never the claim, the attempts or the processor.
LEMMA HeartbeatFrame ==
    ASSUME NEW w, NEW i, HeartbeatStep(w, i)
    PROVE  UNCHANGED <<status, attempts, maxAttempts, token, issued, wait, replays,
                       applied, pc, held>>
BY DEF HeartbeatStep, Renew, RenewBlocks, RenewResumes, RenewError, rowVars

\* What a finalizer does to the row and to its task: it either leaves the row
\* alone or takes it out of 'leased', in the hands of the worker that holds
\* the live claim.
LEMMA FinishEffect ==
    ASSUME TypeOK, NEW w \in Workers, NEW i \in Items, FinishStep(w, i)
    PROVE  /\ pc[w][i] \in Ended
           /\ pc'[w][i] = "idle" /\ held'[w][i] = 0
           /\ \A v \in Workers, j \in Items :
                 v # w \/ j # i => pc'[v][j] = pc[v][j] /\ held'[v][j] = held[v][j]
           /\ \A j \in Items : j # i => status'[j] = status[j] /\ token'[j] = token[j]
           /\ \/ status'[i] = status[i] /\ token'[i] = token[i]
              \/ /\ LiveClaim(w, i)
                 /\ beat[w][i] = "on"
                 /\ status'[i] \in {"completed", "dead", "rejected", "pending"}
                 /\ status'[i] = "completed" => pc[w][i] = "returned"
                 /\ status'[i] = "pending" => attempts[i] < maxAttempts[i]
                 /\ token'[i] = 0
           /\ UNCHANGED <<attempts, maxAttempts, issued, replays, applied>>
<1> USE DEF TypeOK
<1>1. CASE FinishStale(w, i)
  BY <1>1 DEF FinishStale, TaskOver, rowVars
<1>2. CASE Complete(w, i)
  BY <1>2 DEF Complete, Finalizes, TaskOver, Ended
<1>3. CASE DeadLetter(w, i)
  BY <1>3 DEF DeadLetter, Finalizes, TaskOver, Ended
<1>4. CASE Reject(w, i)
  BY <1>4 DEF Reject, Finalizes, TaskOver, Ended
<1>5. CASE RetryAfter(w, i)
  BY <1>5 DEF RetryAfter, Finalizes, TaskOver, Ended
<1>6. QED
  BY <1>1, <1>2, <1>3, <1>4, <1>5 DEF FinishStep

\* A row carries the last issued token exactly while it is leased.
LEMMA TokenPreserved == TypeOK /\ TokenCurrent /\ [Next]_vars => TokenCurrent'
<1> SUFFICES ASSUME TypeOK, TokenCurrent, [Next]_vars PROVE TokenCurrent'
  OBVIOUS
<1> USE DEF TokenCurrent
<1>1. ASSUME NEW i \in Items, Enqueue(i) PROVE TokenCurrent'
  BY <1>1 DEF Enqueue, TypeOK
<1>2. ASSUME NEW i \in Items, Cancel(i) PROVE TokenCurrent'
  BY <1>2 DEF Cancel, TypeOK
<1>3. ASSUME NEW i \in Items, Replay(i) PROVE TokenCurrent'
  BY <1>3 DEF Replay, TypeOK
<1>4. ASSUME NEW w \in Workers, Claim(w) PROVE TokenCurrent'
  BY <1>4 DEF Claim, TypeOK
<1>5. ASSUME NEW w \in Workers, Crash(w) PROVE TokenCurrent'
  BY <1>5 DEF Crash, rowVars
<1>6. ASSUME NEW w \in Workers, NEW i \in Items, HandlerStep(w, i) PROVE TokenCurrent'
  BY <1>6, HandlerFrame DEF rowVars
<1>7. ASSUME NEW w \in Workers, NEW i \in Items, HeartbeatStep(w, i) PROVE TokenCurrent'
  BY <1>7, HeartbeatFrame
<1>8. ASSUME NEW w \in Workers, NEW i \in Items, FinishStep(w, i) PROVE TokenCurrent'
  BY <1>8, FinishEffect
<1>9. CASE Tick
  BY <1>9 DEF Tick
<1>10. CASE UNCHANGED vars
  BY <1>10 DEF vars, rowVars
<1>11. QED
  BY <1>1, <1>2, <1>3, <1>4, <1>5, <1>6, <1>7, <1>8, <1>9, <1>10 DEF Next

\* Where a processor step takes its task, and what it needs to get there.
LEMMA HandlerMove ==
    ASSUME TypeOK, NEW w \in Workers, NEW i \in Items, HandlerStep(w, i)
    PROVE  /\ pc[w][i] \in Processing
           /\ pc'[w][i] \in {"tx", "after"} \cup Ended
           /\ \A v \in Workers, j \in Items : v # w \/ j # i => pc'[v][j] = pc[v][j]
           /\ pc'[w][i] = "tx" => pc[w][i] = "run" /\ LiveClaim(w, i)
           /\ pc'[w][i] = "returned" => pc[w][i] = "after"
           /\ \/ pc'[w][i] # "after" /\ applied' = applied
              \/ /\ pc'[w][i] = "after"
                 /\ pc[w][i] = IF Fenced THEN "tx" ELSE "run"
                 /\ applied' = [applied EXCEPT ![i] = @ \cup {held[w][i]}]
<1> USE DEF TypeOK
<1>1. CASE HandlerLock(w, i)
  BY <1>1 DEF HandlerLock, Moves, Processing
<1>2. CASE HandlerFenceLost(w, i)
  BY <1>2 DEF HandlerFenceLost, Moves, Processing, Ended
<1>3. CASE HandlerCommit(w, i)
  BY <1>3 DEF HandlerCommit, Moves, Processing
<1>4. CASE HandlerReturn(w, i)
  BY <1>4 DEF HandlerReturn, Moves, Processing, Ended
<1>5. ASSUME NEW kind \in Ended, HandlerFail(w, i, kind)
      PROVE  /\ pc[w][i] \in Processing
             /\ pc'[w][i] = kind
             /\ \A v \in Workers, j \in Items : v # w \/ j # i => pc'[v][j] = pc[v][j]
             /\ kind # "tx" /\ kind # "returned" /\ kind # "after"
             /\ applied' = applied
  BY <1>5 DEF HandlerFail, Moves
<1>6. CASE \E kind \in Ended : HandlerFail(w, i, kind)
  BY <1>5, <1>6
<1>7. QED
  BY <1>1, <1>2, <1>3, <1>4, <1>6 DEF HandlerStep

\* A claim of the rows S, row by row: each gets a new token and one more
\* attempt, and no row whose handler is inside its transaction is touched.
Claimed(w, S) ==
    /\ \A j \in S : /\ status[j] \in {"pending", "leased"}
                    /\ attempts[j] < maxAttempts[j]
                    /\ ~Locked(j)
    /\ \A j \in Exhausted : /\ status[j] \in {"pending", "leased"}
                            /\ ~Locked(j)
                            /\ j \notin S
    /\ \A j \in Items :
          /\ pc[w][j] = "idle"
          /\ status'[j] = IF j \in S THEN "leased"
                          ELSE IF j \in Exhausted THEN "dead" ELSE status[j]
          /\ token'[j] = IF j \in S THEN issued[j] + 1
                         ELSE IF j \in Exhausted THEN 0 ELSE token[j]
          /\ issued'[j] = IF j \in S THEN issued[j] + 1 ELSE issued[j]
          /\ attempts'[j] = IF j \in S THEN attempts[j] + 1 ELSE attempts[j]
          /\ lease'[j] = IF j \in S THEN LeaseTicks
                         ELSE IF j \in Exhausted THEN 0 ELSE lease[j]
          /\ pc'[w][j] = IF j \in S THEN "run" ELSE "idle"
          /\ held'[w][j] = IF j \in S THEN issued[j] + 1 ELSE 0
    /\ \A v \in Workers : v # w => pc'[v] = pc[v] /\ held'[v] = held[v]
    /\ maxAttempts' = maxAttempts /\ applied' = applied

\* That is what claim_* does for some set of rows.
LEMMA ClaimEffect ==
    ASSUME TypeOK, NEW w \in Workers, Claim(w)
    PROVE  \E S \in SUBSET Items : Claimed(w, S)
<1>1. PICK S \in Batches :
          /\ status' = [i \in Items |-> IF i \in S THEN "leased"
                                        ELSE IF i \in Exhausted THEN "dead"
                                        ELSE status[i]]
          /\ token' = [i \in Items |-> IF i \in S THEN issued[i] + 1
                                       ELSE IF i \in Exhausted THEN 0
                                       ELSE token[i]]
          /\ issued' = [i \in Items |-> IF i \in S THEN issued[i] + 1 ELSE issued[i]]
          /\ attempts' = [i \in Items |-> IF i \in S THEN attempts[i] + 1
                                          ELSE attempts[i]]
          /\ lease' = [i \in Items |-> IF i \in S THEN LeaseTicks
                                       ELSE IF i \in Exhausted THEN 0
                                       ELSE lease[i]]
          /\ pc' = [pc EXCEPT ![w] = [i \in Items |-> IF i \in S THEN "run" ELSE "idle"]]
          /\ held' = [held EXCEPT ![w] =
                        [i \in Items |-> IF i \in S THEN issued[i] + 1 ELSE 0]]
  BY DEF Claim
<1>2. S \in SUBSET Items
  BY <1>1, BatchRows
<1>3. \A j \in S : /\ status[j] \in {"pending", "leased"}
                   /\ attempts[j] < maxAttempts[j]
                   /\ ~Locked(j)
  BY <1>1, BatchRows DEF Due
<1>4. \A j \in Exhausted : ~Locked(j) /\ status[j] \in {"pending", "leased"}
  BY DEF Claim, Exhausted, Due
<1>5. \A j \in Exhausted : j \notin S
  <2>1. \A j \in Exhausted : j \in Items /\ attempts[j] >= maxAttempts[j]
    BY DEF Exhausted
  <2>2. QED
    BY <1>3, <2>1 DEF TypeOK
<1>6. \A j \in Items : pc[w][j] = "idle"
  BY DEF Claim
<1>7. maxAttempts' = maxAttempts /\ applied' = applied
  BY DEF Claim
<1>8. Claimed(w, S)
  BY <1>1, <1>3, <1>4, <1>5, <1>6, <1>7 DEF TypeOK, Claimed
<1>9. QED
  BY <1>2, <1>8

\* Tokens of running tasks are issued and pairwise distinct.
LEMMA HeldPreserved == TypeOK /\ HeldUnique /\ [Next]_vars => HeldUnique'
<1> SUFFICES ASSUME TypeOK, HeldUnique, [Next]_vars PROVE HeldUnique'
  OBVIOUS
<1> USE DEF HeldUnique
<1>1. ASSUME NEW i \in Items, Enqueue(i) \/ Cancel(i) \/ Replay(i) PROVE HeldUnique'
  BY <1>1 DEF Enqueue, Cancel, Replay, taskVars
<1>2. ASSUME NEW w \in Workers, Claim(w) PROVE HeldUnique'
  <2>1. PICK S \in SUBSET Items : Claimed(w, S)
    BY <1>2, ClaimEffect
  <2>2. \A j \in Items : issued[j] \in Nat
    BY DEF TypeOK
  <2>3. ASSUME NEW j \in Items, NEW v \in Workers PROVE held'[v][j] <= issued'[j]
    <3>1. held[v][j] \in Nat /\ held[v][j] <= issued[j]
      BY DEF TypeOK
    <3>2. CASE v = w
      BY <2>1, <2>2, <3>2 DEF Claimed
    <3>3. CASE v # w
      BY <2>1, <2>2, <3>1, <3>3 DEF Claimed
    <3>4. QED
      BY <3>2, <3>3
  <2>4. ASSUME NEW j \in Items, NEW v \in Workers,
               pc'[v][j] # "idle", pc'[w][j] # "idle", held'[v][j] = held'[w][j]
        PROVE  v = w
    BY <2>1, <2>2, <2>4 DEF Claimed, TypeOK
  <2>5. ASSUME NEW j \in Items, NEW u \in Workers, NEW v \in Workers, u # w, v # w,
               pc'[u][j] # "idle", pc'[v][j] # "idle", held'[u][j] = held'[v][j]
        PROVE  u = v
    BY <2>1, <2>5 DEF Claimed
  <2>6. QED
    BY <2>3, <2>4, <2>5
<1>3. ASSUME NEW w \in Workers, Crash(w) PROVE HeldUnique'
  BY <1>3 DEF Crash, rowVars, TypeOK
<1>4. ASSUME NEW w \in Workers, NEW i \in Items, HandlerStep(w, i) PROVE HeldUnique'
  BY <1>4, HandlerFrame, HandlerMove DEF rowVars, Processing
<1>5. ASSUME NEW w \in Workers, NEW i \in Items, HeartbeatStep(w, i) PROVE HeldUnique'
  BY <1>5, HeartbeatFrame
<1>6. ASSUME NEW w \in Workers, NEW i \in Items, FinishStep(w, i) PROVE HeldUnique'
  <2>1. /\ pc'[w][i] = "idle" /\ held'[w][i] = 0 /\ issued' = issued
        /\ \A v \in Workers, j \in Items :
              v # w \/ j # i => pc'[v][j] = pc[v][j] /\ held'[v][j] = held[v][j]
    BY <1>6, FinishEffect
  <2>2. \A j \in Items : issued[j] \in Nat
    BY DEF TypeOK
  <2>3. QED
    BY <2>1, <2>2
<1>7. CASE Tick
  BY <1>7 DEF Tick
<1>8. CASE UNCHANGED vars
  BY <1>8 DEF vars, rowVars, taskVars
<1>9. QED
  BY <1>1, <1>2, <1>3, <1>4, <1>5, <1>6, <1>7, <1>8 DEF Next

\* No operation touches a claim whose handler is inside its transaction:
\* cancellation and dead-lettering wait for the row lock, a claim skips it, and
\* another task's finalizer carries another token.
LEMMA LockPreserved ==
    TypeOK /\ HeldUnique /\ LockPinsClaim /\ [Next]_vars => LockPinsClaim'
<1> SUFFICES ASSUME TypeOK, HeldUnique, LockPinsClaim, [Next]_vars PROVE LockPinsClaim'
  OBVIOUS
<1> USE DEF LockPinsClaim
<1>1. ASSUME NEW i \in Items, Enqueue(i) PROVE LockPinsClaim'
  BY <1>1 DEF Enqueue, taskVars, TypeOK
<1>2. ASSUME NEW i \in Items, Cancel(i) PROVE LockPinsClaim'
  BY <1>2 DEF Cancel, Locked, taskVars, TypeOK
<1>3. ASSUME NEW i \in Items, Replay(i) PROVE LockPinsClaim'
  BY <1>3 DEF Replay, taskVars, TypeOK
<1>4. ASSUME NEW w \in Workers, Claim(w) PROVE LockPinsClaim'
  BY <1>4, ClaimEffect DEF Claimed, Locked
<1>5. ASSUME NEW w \in Workers, Crash(w) PROVE LockPinsClaim'
  BY <1>5 DEF Crash, rowVars, TypeOK
<1>6. ASSUME NEW w \in Workers, NEW i \in Items, HandlerStep(w, i) PROVE LockPinsClaim'
  BY <1>6, HandlerFrame, HandlerMove DEF rowVars, LiveClaim
<1>7. ASSUME NEW w \in Workers, NEW i \in Items, HeartbeatStep(w, i) PROVE LockPinsClaim'
  BY <1>7, HeartbeatFrame
<1>8. ASSUME NEW w \in Workers, NEW i \in Items, FinishStep(w, i) PROVE LockPinsClaim'
  BY <1>8, FinishEffect DEF HeldUnique, LiveClaim, Ended
<1>9. CASE Tick
  BY <1>9 DEF Tick
<1>10. CASE UNCHANGED vars
  BY <1>10 DEF vars, rowVars, taskVars
<1>11. QED
  BY <1>1, <1>2, <1>3, <1>4, <1>5, <1>6, <1>7, <1>8, <1>9, <1>10 DEF Next

\* A handler commits at most once per claim.
LEMMA EffectPreserved ==
    TypeOK /\ HeldUnique /\ EffectPerClaim /\ [Next]_vars => EffectPerClaim'
<1> SUFFICES ASSUME TypeOK, HeldUnique, EffectPerClaim, [Next]_vars PROVE EffectPerClaim'
  OBVIOUS
<1> USE DEF EffectPerClaim
<1>1. ASSUME NEW i \in Items, Enqueue(i) \/ Cancel(i) \/ Replay(i) PROVE EffectPerClaim'
  BY <1>1 DEF Enqueue, Cancel, Replay, taskVars
<1>2. ASSUME NEW w \in Workers, Claim(w) PROVE EffectPerClaim'
  <2>1. PICK S \in SUBSET Items : Claimed(w, S)
    BY <1>2, ClaimEffect
  <2>2. \A j \in Items : issued[j] \in Nat
    BY DEF TypeOK
  <2>3. \A j \in Items : \A t \in applied[j] : t \in Nat
    BY DEF TypeOK
  <2>4. \A j \in Items : \A t \in applied'[j] : t <= issued'[j]
    BY <2>1, <2>2, <2>3 DEF Claimed
  <2>5. ASSUME NEW j \in Items, NEW v \in Workers
        PROVE  /\ pc'[v][j] \in {"run", "tx"} => held'[v][j] \notin applied'[j]
               /\ pc'[v][j] \in {"after", "returned"} => held'[v][j] \in applied'[j]
    <3>1. CASE v = w
      BY <2>1, <2>2, <2>3, <3>1 DEF Claimed
    <3>2. CASE v # w
      BY <2>1, <3>2 DEF Claimed
    <3>3. QED
      BY <3>1, <3>2
  <2>6. QED
    BY <2>4, <2>5
<1>3. ASSUME NEW w \in Workers, Crash(w) PROVE EffectPerClaim'
  BY <1>3 DEF Crash, rowVars, TypeOK
<1>4. ASSUME NEW w \in Workers, NEW i \in Items, HandlerStep(w, i) PROVE EffectPerClaim'
  <2>1. CASE applied' = applied /\ pc'[w][i] # "after"
    BY <1>4, <2>1, HandlerFrame, HandlerMove DEF rowVars, Ended
  <2>2. CASE pc'[w][i] = "after"
    <3>1. /\ applied' = [applied EXCEPT ![i] = @ \cup {held[w][i]}]
          /\ pc[w][i] \in {"run", "tx"}
      BY <1>4, <2>2, HandlerMove
    <3>2. \A j \in Items : applied'[j] = IF j = i THEN applied[j] \cup {held[w][i]}
                                         ELSE applied[j]
      BY <3>1 DEF TypeOK
    <3>3. \A j \in Items : \A t \in applied'[j] : t <= issued'[j]
      BY ZenonT(40), <1>4, <3>2, HandlerFrame DEF rowVars, HeldUnique
    <3>4. \A j \in Items : \A v \in Workers :
              /\ pc'[v][j] \in {"run", "tx"} => held'[v][j] \notin applied'[j]
              /\ pc'[v][j] \in {"after", "returned"} => held'[v][j] \in applied'[j]
      <4>1. /\ held' = held
            /\ \A v \in Workers, j \in Items : v # w \/ j # i => pc'[v][j] = pc[v][j]
        BY <1>4, HandlerFrame, HandlerMove
      <4>2. \A v \in Workers : v # w /\ pc[v][i] # "idle" => held[v][i] # held[w][i]
        BY <3>1 DEF HeldUnique
      <4>3. SUFFICES ASSUME NEW j \in Items, NEW v \in Workers
                     PROVE  /\ pc'[v][j] \in {"run", "tx"} => held'[v][j] \notin applied'[j]
                            /\ pc'[v][j] \in {"after", "returned"} => held'[v][j] \in applied'[j]
        OBVIOUS
      <4>4. CASE j # i
        BY <3>2, <4>1, <4>4
      <4>5. CASE j = i /\ v = w
        BY <2>2, <3>2, <4>1, <4>5
      <4>6. CASE j = i /\ v # w
        BY ZenonT(40), <3>2, <4>1, <4>2, <4>6
      <4>7. QED
        BY <4>4, <4>5, <4>6
    <3>5. QED
      BY <3>3, <3>4
  <2>3. QED
    BY <1>4, <2>1, <2>2, HandlerMove
<1>5. ASSUME NEW w \in Workers, NEW i \in Items, HeartbeatStep(w, i) PROVE EffectPerClaim'
  BY <1>5, HeartbeatFrame
<1>6. ASSUME NEW w \in Workers, NEW i \in Items, FinishStep(w, i) PROVE EffectPerClaim'
  BY <1>6, FinishEffect
<1>7. CASE Tick
  BY <1>7 DEF Tick
<1>8. CASE UNCHANGED vars
  BY <1>8 DEF vars, rowVars, taskVars
<1>9. QED
  BY <1>1, <1>2, <1>3, <1>4, <1>5, <1>6, <1>7, <1>8 DEF Next

\* Attempts are handed out within the budget of the row.
LEMMA BudgetPreserved == TypeOK /\ Budget /\ [Next]_vars => Budget'
<1> SUFFICES ASSUME TypeOK, Budget, [Next]_vars PROVE Budget'
  OBVIOUS
<1> USE DEF Budget
<1>1. ASSUME NEW i \in Items, Enqueue(i) PROVE Budget'
  BY <1>1 DEF Enqueue, TypeOK
<1>2. ASSUME NEW i \in Items, Cancel(i) PROVE Budget'
  BY <1>2 DEF Cancel, TypeOK
<1>3. ASSUME NEW i \in Items, Replay(i) PROVE Budget'
  BY <1>3, ConstantsAssumption DEF Replay, TypeOK
<1>4. ASSUME NEW w \in Workers, Claim(w) PROVE Budget'
  BY SMTT(30), <1>4, ClaimEffect DEF Claimed, TypeOK
<1>5. ASSUME NEW w \in Workers, Crash(w) PROVE Budget'
  BY <1>5 DEF Crash, rowVars
<1>6. ASSUME NEW w \in Workers, NEW i \in Items, HandlerStep(w, i) PROVE Budget'
  BY <1>6, HandlerFrame DEF rowVars
<1>7. ASSUME NEW w \in Workers, NEW i \in Items, HeartbeatStep(w, i) PROVE Budget'
  BY <1>7, HeartbeatFrame
<1>8. ASSUME NEW w \in Workers, NEW i \in Items, FinishStep(w, i) PROVE Budget'
  BY <1>8, FinishEffect
<1>9. CASE Tick
  BY <1>9 DEF Tick
<1>10. CASE UNCHANGED vars
  BY <1>10 DEF vars, rowVars
<1>11. QED
  BY <1>1, <1>2, <1>3, <1>4, <1>5, <1>6, <1>7, <1>8, <1>9, <1>10 DEF Next

\* A row is completed under the last token issued for it: the fence of the
\* finalizer compares tokens, and a completed row is never claimed again.
LEMMA LastClaimPreserved ==
    /\ TypeOK /\ TokenCurrent /\ HeldUnique /\ EffectPerClaim
    /\ CompletedByLastClaim /\ [Next]_vars
    => CompletedByLastClaim'
<1> SUFFICES ASSUME TypeOK, TokenCurrent, HeldUnique, EffectPerClaim,
                    CompletedByLastClaim, [Next]_vars
             PROVE  CompletedByLastClaim'
  OBVIOUS
<1> USE DEF CompletedByLastClaim
<1>1. ASSUME NEW i \in Items, Enqueue(i) \/ Cancel(i) \/ Replay(i)
      PROVE  CompletedByLastClaim'
  BY <1>1 DEF Enqueue, Cancel, Replay, taskVars, TypeOK
<1>2. ASSUME NEW w \in Workers, Claim(w) PROVE CompletedByLastClaim'
  BY <1>2, ClaimEffect DEF Claimed
<1>3. ASSUME NEW w \in Workers, Crash(w) PROVE CompletedByLastClaim'
  BY <1>3 DEF Crash, rowVars, TypeOK
<1>4. ASSUME NEW w \in Workers, NEW i \in Items, HandlerStep(w, i)
      PROVE  CompletedByLastClaim'
  <2>1. status' = status /\ issued' = issued /\ held' = held
    BY <1>4, HandlerFrame DEF rowVars
  <2>2. \A j \in Items : applied[j] \subseteq applied'[j]
    <3>1. \/ applied' = applied
          \/ applied' = [applied EXCEPT ![i] = @ \cup {held[w][i]}]
      BY <1>4, HandlerMove
    <3>2. QED
      BY <3>1 DEF TypeOK
  <2>3. \A v \in Workers, j \in Items : pc'[v][j] # "idle" => pc[v][j] # "idle"
    BY <1>4, HandlerMove DEF Processing
  <2>4. QED
    BY <2>1, <2>2, <2>3
<1>5. ASSUME NEW w \in Workers, NEW i \in Items, HeartbeatStep(w, i)
      PROVE  CompletedByLastClaim'
  BY <1>5, HeartbeatFrame
<1>6. ASSUME NEW w \in Workers, NEW i \in Items, FinishStep(w, i)
      PROVE  CompletedByLastClaim'
  <2>1. /\ pc'[w][i] = "idle" /\ issued' = issued /\ applied' = applied
        /\ \A v \in Workers, j \in Items :
              v # w \/ j # i => pc'[v][j] = pc[v][j] /\ held'[v][j] = held[v][j]
        /\ \A j \in Items : j # i => status'[j] = status[j]
    BY <1>6, FinishEffect
  <2>2. CASE status'[i] # "completed" \/ status'[i] = status[i]
    BY <2>1, <2>2
  <2>3. CASE /\ LiveClaim(w, i) /\ pc[w][i] = "returned"
    <3>1. held[w][i] = issued[i] /\ issued[i] \in applied[i]
      BY <2>3 DEF LiveClaim, TokenCurrent, EffectPerClaim
    <3>2. \A v \in Workers : v # w /\ pc[v][i] # "idle" => held[v][i] < issued[i]
      <4>1. \A v \in Workers : v # w /\ pc[v][i] # "idle" =>
               held[v][i] <= issued[i] /\ held[v][i] # issued[i]
        BY <2>3, <3>1 DEF HeldUnique
      <4>2. issued[i] \in Nat /\ \A v \in Workers : held[v][i] \in Nat
        BY DEF TypeOK
      <4>3. QED
        BY <4>1, <4>2
    <3>3. QED
      BY <2>1, <3>1, <3>2
  <2>4. QED
    BY <1>6, <2>2, <2>3, FinishEffect
<1>7. CASE Tick
  BY <1>7 DEF Tick
<1>8. CASE UNCHANGED vars
  BY <1>8 DEF vars, rowVars, taskVars
<1>9. QED
  BY <1>1, <1>2, <1>3, <1>4, <1>5, <1>6, <1>7, <1>8 DEF Next

\* What the end of a task does to lease_until and to the heartbeat.
LEMMA FinishLease ==
    ASSUME TypeOK, NEW w \in Workers, NEW i \in Items, FinishStep(w, i)
    PROVE  /\ beat' = [beat EXCEPT ![w][i] = "off"] /\ pend' = pend
           /\ \/ lease' = lease
              \/ lease' = [lease EXCEPT ![i] = 0] /\ status'[i] # "leased"
<1> USE DEF TypeOK
<1>1. CASE FinishStale(w, i)
  BY <1>1 DEF FinishStale, TaskOver, rowVars
<1>2. CASE Complete(w, i)
  BY <1>2 DEF Complete, Finalizes, TaskOver
<1>3. CASE DeadLetter(w, i)
  BY <1>3 DEF DeadLetter, Finalizes, TaskOver
<1>4. CASE Reject(w, i)
  BY <1>4 DEF Reject, Finalizes, TaskOver
<1>5. CASE RetryAfter(w, i)
  BY <1>5 DEF RetryAfter, Finalizes, TaskOver
<1>6. QED
  BY <1>1, <1>2, <1>3, <1>4, <1>5 DEF FinishStep

\* A step of the heartbeat of worker w's task on row i, seen row by row: it
\* changes the lease of row i only while the row carries the task's token, to a
\* renewed one.
Renewed(w, i) ==
    /\ pc[w][i] # "idle" /\ beat[w][i] \in {"on", "waiting"}
    /\ \A j \in Items : lease'[j] = IF j = i THEN lease'[i] ELSE lease[j]
    /\ \/ lease'[i] = lease[i]
       \/ /\ status[i] = "leased" /\ token[i] = held[w][i] /\ beat'[w][i] # "waiting"
          /\ \/ lease'[i] = LeaseTicks
             \/ beat[w][i] = "waiting" /\ lease'[i] = pend[w][i]
    /\ beat'[w][i] = "waiting" => lease'[i] = lease[i] /\ pend'[w][i] = LeaseTicks
    /\ \A v \in Workers, j \in Items :
          v # w \/ j # i => beat'[v][j] = beat[v][j] /\ pend'[v][j] = pend[v][j]

\* Every step of a heartbeat is of that kind (renew_*).
LEMMA HeartbeatEffect ==
    ASSUME TypeOK, RenewalSound, NEW w \in Workers, NEW i \in Items, HeartbeatStep(w, i)
    PROVE  Renewed(w, i)
<1> USE DEF TypeOK, Renewed
<1>1. CASE Renew(w, i)
  <2>1. CASE LiveClaim(w, i)
    BY <1>1, <2>1 DEF Renew, LiveClaim, Processing
  <2>2. CASE ~LiveClaim(w, i)
    BY <1>1, <2>2 DEF Renew, Processing
  <2>3. QED
    BY <2>1, <2>2
<1>2. CASE RenewBlocks(w, i)
  BY <1>2 DEF RenewBlocks, rowVars
<1>3. CASE RenewResumes(w, i)
  <2>1. pc[w][i] # "idle" /\ beat[w][i] = "waiting"
    BY <1>3 DEF RenewResumes, RenewalSound
  <2>2. CASE status[i] = "leased" /\ token[i] = held[w][i]
    BY <1>3, <2>1, <2>2 DEF RenewResumes
  <2>3. CASE ~(status[i] = "leased" /\ token[i] = held[w][i])
    BY <1>3, <2>1, <2>3 DEF RenewResumes
  <2>4. QED
    BY <2>2, <2>3
<1>4. CASE RenewError(w, i)
  BY <1>4 DEF RenewError, RenewalSound, Processing, rowVars
<1>5. QED
  BY <1>1, <1>2, <1>3, <1>4 DEF HeartbeatStep

\* A renewal that waits never carries an older lease_until than its claim: a
\* later renewal of the same claim would need the heartbeat that waits.
LEMMA RenewalPreserved ==
    TypeOK /\ TokenCurrent /\ HeldUnique /\ RenewalSound /\ [Next]_vars => RenewalSound'
<1> SUFFICES ASSUME TypeOK, TokenCurrent, HeldUnique, RenewalSound, [Next]_vars
             PROVE  RenewalSound'
  OBVIOUS
<1> USE DEF RenewalSound
<1>0. /\ LeaseTicks \in Nat
      /\ \A i \in Items : lease[i] \in Nat /\ issued[i] \in Nat
      /\ \A w \in Workers, i \in Items : held[w][i] \in Nat /\ pend[w][i] \in Nat
  BY ConstantsAssumption DEF TypeOK
<1>1. ASSUME NEW i \in Items, Enqueue(i) PROVE RenewalSound'
  BY <1>1 DEF Enqueue, taskVars, TypeOK
<1>2. ASSUME NEW i \in Items, Cancel(i) \/ Replay(i) PROVE RenewalSound'
  <2>1. /\ \A j \in Items : j # i => /\ status'[j] = status[j] /\ token'[j] = token[j]
                                     /\ lease'[j] = lease[j]
        /\ lease'[i] = 0 /\ status'[i] # "leased"
        /\ pc' = pc /\ held' = held /\ beat' = beat /\ pend' = pend
    BY <1>2 DEF Cancel, Replay, taskVars, TypeOK
  <2>2. QED
    BY <1>0, <2>1
<1>3. ASSUME NEW w \in Workers, Claim(w) PROVE RenewalSound'
  <2>1. PICK S \in SUBSET Items : Claimed(w, S)
    BY <1>3, ClaimEffect
  <2>2. /\ \A j \in Items : beat'[w][j] # "waiting"
        /\ \A v \in Workers : v # w => beat'[v] = beat[v]
        /\ pend' = pend
    BY <1>3 DEF Claim, TypeOK
  <2>3. \A j \in Items : lease'[j] <= LeaseTicks
    BY <1>0, <2>1 DEF Claimed
  <2>4. ASSUME NEW v \in Workers, NEW j \in Items, v # w, beat[v][j] = "waiting",
               status'[j] = "leased", token'[j] = held[v][j]
        PROVE  lease'[j] <= pend[v][j]
    <3>1. held[v][j] <= issued[j]
      BY DEF HeldUnique
    <3>2. j \notin S
      BY <1>0, <2>1, <2>4, <3>1 DEF Claimed
    <3>3. QED
      BY <2>1, <2>4, <3>2 DEF Claimed
  <2>5. QED
    BY <2>1, <2>2, <2>3, <2>4 DEF Claimed
<1>4. ASSUME NEW w \in Workers, Crash(w) PROVE RenewalSound'
  BY <1>4 DEF Crash, rowVars, TypeOK
<1>5. ASSUME NEW w \in Workers, NEW i \in Items, HandlerStep(w, i) PROVE RenewalSound'
  <2>1. \A v \in Workers, j \in Items : pc[v][j] # "idle" => pc'[v][j] # "idle"
    BY <1>5, HandlerMove DEF Ended
  <2>2. QED
    BY <1>5, <2>1, HandlerFrame DEF rowVars
<1>6. ASSUME NEW w \in Workers, NEW i \in Items, HeartbeatStep(w, i) PROVE RenewalSound'
  <2>1. Renewed(w, i)
    BY <1>6, HeartbeatEffect
  <2>2. status' = status /\ token' = token /\ pc' = pc /\ held' = held
    BY <1>6, HeartbeatFrame
  <2>3. lease'[i] <= LeaseTicks
    BY <1>0, <2>1 DEF Renewed
  <2>4. \A j \in Items : lease'[j] <= LeaseTicks
    BY <2>1, <2>3 DEF Renewed
  <2>5. ASSUME NEW v \in Workers, NEW j \in Items, beat'[v][j] = "waiting"
        PROVE  /\ pc[v][j] # "idle" /\ pend'[v][j] <= LeaseTicks
               /\ status[j] = "leased" /\ token[j] = held[v][j] => lease'[j] <= pend'[v][j]
    <3>1. CASE v = w /\ j = i
      BY <1>0, <2>1, <2>3, <2>5, <3>1 DEF Renewed
    <3>2. CASE v # w /\ j = i
      <4>1. beat[v][i] = "waiting" /\ pend'[v][i] = pend[v][i] /\ pc[v][i] # "idle"
        BY <2>1, <2>5, <3>2 DEF Renewed
      <4>2. token[i] = held[v][i] => token[i] # held[w][i]
        BY <2>1, <3>2, <4>1 DEF Renewed, HeldUnique
      <4>3. QED
        BY <2>1, <3>2, <4>1, <4>2 DEF Renewed
    <3>3. CASE j # i
      BY <2>1, <2>5, <3>3 DEF Renewed
    <3>4. QED
      BY <3>1, <3>2, <3>3
  <2>6. QED
    BY <2>2, <2>4, <2>5
<1>7. ASSUME NEW w \in Workers, NEW i \in Items, FinishStep(w, i) PROVE RenewalSound'
  <2>1. /\ beat'[w][i] = "off" /\ pend' = pend
        /\ \A v \in Workers, j \in Items : v # w \/ j # i => beat'[v][j] = beat[v][j]
    BY <1>7, FinishLease DEF TypeOK
  <2>2. \A j \in Items : lease'[j] = lease[j] \/ lease'[j] = 0
    BY <1>7, FinishLease DEF TypeOK
  <2>3. \A v \in Workers, j \in Items :
           v # w \/ j # i => pc'[v][j] = pc[v][j] /\ held'[v][j] = held[v][j]
    BY <1>7, FinishEffect
  <2>4. \A j \in Items : status'[j] = "leased" => status[j] = "leased" /\ token'[j] = token[j]
    BY <1>7, FinishEffect
  <2>5. QED
    BY <1>0, <2>1, <2>2, <2>3, <2>4
<1>8. CASE Tick
  <2>1. \A m, n \in Nat : /\ Down(m) \in Nat /\ Down(m) <= m
                          /\ m <= n => Down(m) <= Down(n)
    BY DEF Down
  <2>2. /\ \A j \in Items : lease'[j] = Down(lease[j])
        /\ \A v \in Workers, j \in Items : pend'[v][j] = Down(pend[v][j])
        /\ status' = status /\ token' = token /\ pc' = pc /\ held' = held /\ beat' = beat
    BY <1>8 DEF Tick
  <2>3. \A j \in Items : lease'[j] <= LeaseTicks
    BY <1>0, <2>1, <2>2
  <2>4. ASSUME NEW v \in Workers, NEW j \in Items, beat[v][j] = "waiting"
        PROVE  /\ pc[v][j] # "idle" /\ pend'[v][j] <= LeaseTicks
               /\ status[j] = "leased" /\ token[j] = held[v][j] => lease'[j] <= pend'[v][j]
    <3>1. /\ pc[v][j] # "idle" /\ pend[v][j] <= LeaseTicks
          /\ status[j] = "leased" /\ token[j] = held[v][j] => lease[j] <= pend[v][j]
      BY <2>4
    <3>2. lease[j] \in Nat /\ pend[v][j] \in Nat
      BY <1>0
    <3>3. pend'[v][j] <= LeaseTicks
      BY <1>0, <2>1, <2>2, <3>1, <3>2
    <3>4. lease[j] <= pend[v][j] => lease'[j] <= pend'[v][j]
      BY <2>1, <2>2, <3>2
    <3>5. QED
      BY <3>1, <3>3, <3>4
  <2>5. QED
    BY <2>2, <2>3, <2>4
<1>9. CASE UNCHANGED vars
  BY <1>9 DEF vars, rowVars, taskVars
<1>10. QED
  BY <1>1, <1>2, <1>3, <1>4, <1>5, <1>6, <1>7, <1>8, <1>9 DEF Next

-----------------------------------------------------------------------------

\* An empty stream satisfies the invariant.
LEMMA InitClaimInv == Init => ClaimInv
<1> SUFFICES ASSUME Init PROVE ClaimInv
  OBVIOUS
<1>1. TypeOK
  BY ConstantsAssumption DEF Init, TypeOK, Statuses, Beats
<1>2. TokenCurrent /\ HeldUnique /\ LockPinsClaim /\ EffectPerClaim
  BY DEF Init, TokenCurrent, HeldUnique, LockPinsClaim, EffectPerClaim
<1>3. Budget /\ RenewalSound /\ CompletedByLastClaim
  BY ConstantsAssumption DEF Init, Budget, RenewalSound, CompletedByLastClaim
<1>4. QED
  BY <1>1, <1>2, <1>3 DEF ClaimInv

\* Claims, locks, effects and budgets agree, for any number of rows, workers,
\* attempts and replays.
THEOREM ClaimInvariant == Spec => []ClaimInv
<1>1. ClaimInv /\ [Next]_vars => ClaimInv'
  BY TypePreserved, TokenPreserved, HeldPreserved, LockPreserved, EffectPreserved,
     BudgetPreserved, RenewalPreserved, LastClaimPreserved DEF ClaimInv
<1>2. QED
  BY InitClaimInv, <1>1, PTL DEF Spec

\* At most one worker owns a row, and only the owner is in its transaction.
THEOREM SingleOwnership == Spec => []SingleOwner
<1>1. ClaimInv => SingleOwner
  BY DEF ClaimInv, HeldUnique, LockPinsClaim, SingleOwner, Owns
<1>2. QED
  BY ClaimInvariant, <1>1, PTL

\* No attempt is handed out beyond the budget.
THEOREM AttemptsBounded == Spec => []AttemptBudget
<1>1. ClaimInv => AttemptBudget
  BY DEF ClaimInv, Budget, AttemptBudget
<1>2. QED
  BY ClaimInvariant, <1>1, PTL

\* A row is completed by the last claim of it, whatever late workers do.
THEOREM LastClaimCompletes == Spec => []CompletedByLastClaim
<1>1. ClaimInv => CompletedByLastClaim
  BY DEF ClaimInv
<1>2. QED
  BY ClaimInvariant, <1>1, PTL

-----------------------------------------------------------------------------
(* What a step may never do *)

\* A renewal, blocked or not, only lengthens the lease of its own claim.
THEOREM RenewalsAreHonest == Spec => LeaseHonest
<1> DEFINE Honest(i) ==
             status[i] = "leased" /\ status'[i] = "leased" /\ token'[i] = token[i] =>
                \/ lease'[i] = lease[i]
                \/ /\ lease'[i] > lease[i] /\ lease'[i] <= LeaseTicks
                   /\ \E w \in Workers : Owns(w, i) /\ beat[w][i] \in {"on", "waiting"}
<1>1. ASSUME ClaimInv, Next, ~Tick, NEW i \in Items PROVE Honest(i)
  <2>0. /\ LeaseTicks \in Nat /\ lease[i] \in Nat /\ issued[i] \in Nat
        /\ \A w \in Workers : pend[w][i] \in Nat
    BY <1>1, ConstantsAssumption DEF ClaimInv, TypeOK
  <2>1. ASSUME NEW j \in Items, Enqueue(j) \/ Cancel(j) \/ Replay(j) PROVE Honest(i)
    BY <1>1, <2>1 DEF Enqueue, Cancel, Replay, ClaimInv, TypeOK
  <2>2. ASSUME NEW w \in Workers, Claim(w) PROVE Honest(i)
    <3>1. PICK S \in SUBSET Items : Claimed(w, S)
      BY <1>1, <2>2, ClaimEffect DEF ClaimInv
    <3>2. status[i] = "leased" => token[i] = issued[i]
      BY <1>1 DEF ClaimInv, TokenCurrent
    <3>3. QED
      BY <2>0, <3>1, <3>2 DEF Claimed
  <2>3. ASSUME NEW w \in Workers, Crash(w) PROVE Honest(i)
    BY <2>3 DEF Crash, rowVars
  <2>4. ASSUME NEW w \in Workers, NEW j \in Items, HandlerStep(w, j) PROVE Honest(i)
    BY <2>4, HandlerFrame DEF rowVars
  <2>5. ASSUME NEW w \in Workers, NEW j \in Items, HeartbeatStep(w, j) PROVE Honest(i)
    <3>1. Renewed(w, j)
      BY <1>1, <2>5, HeartbeatEffect DEF ClaimInv
    <3>2. CASE lease'[i] = lease[i]
      BY <3>2
    <3>3. CASE lease'[i] # lease[i]
      <4>1. /\ j = i /\ Owns(w, i) /\ beat[w][i] \in {"on", "waiting"}
            /\ \/ lease'[i] = LeaseTicks
               \/ beat[w][i] = "waiting" /\ lease'[i] = pend[w][i]
        BY <3>1, <3>3 DEF Renewed, Owns
      <4>2. lease[i] <= LeaseTicks
        BY <1>1 DEF ClaimInv, RenewalSound
      <4>3. beat[w][i] = "waiting" => lease[i] <= pend[w][i] /\ pend[w][i] <= LeaseTicks
        BY <1>1, <4>1 DEF ClaimInv, RenewalSound, Owns
      <4>4. lease'[i] > lease[i] /\ lease'[i] <= LeaseTicks
        BY <2>0, <3>3, <4>1, <4>2, <4>3
      <4>5. QED
        BY <4>1, <4>4
    <3>4. QED
      BY <3>2, <3>3
  <2>6. ASSUME NEW w \in Workers, NEW j \in Items, FinishStep(w, j) PROVE Honest(i)
    BY <1>1, <2>6, FinishLease DEF ClaimInv, TypeOK
  <2>7. QED
    BY <1>1, <2>1, <2>2, <2>3, <2>4, <2>5, <2>6 DEF Next
<1>2. ClaimInv /\ [Next]_vars => [Tick \/ \A i \in Items : Honest(i)]_vars
  BY <1>1
<1>3. QED
  BY ClaimInvariant, <1>2, PTL DEF Spec, LeaseHonest

\* A fenced effect commits only while its row is leased to its worker.
THEOREM EffectsSerialize == Spec => EffectSerializes
<1> DEFINE Commit(i) == Fenced /\ applied'[i] # applied[i]
           InClaim(i) == \E w \in Workers :
                            Owns(w, i) /\ applied'[i] = applied[i] \cup {token[i]}
<1>1. ASSUME ClaimInv, [Next]_vars, NEW i \in Items, Commit(i) PROVE InClaim(i)
  <2>1. ASSUME NEW j \in Items, Enqueue(j) \/ Cancel(j) \/ Replay(j) PROVE InClaim(i)
    BY <1>1, <2>1 DEF Enqueue, Cancel, Replay
  <2>2. ASSUME NEW w \in Workers, Claim(w) \/ Crash(w) PROVE InClaim(i)
    BY <1>1, <2>2 DEF Claim, Crash
  <2>3. ASSUME NEW w \in Workers, NEW j \in Items, HandlerStep(w, j) PROVE InClaim(i)
    <3>1. /\ pc[w][j] = "tx"
          /\ applied' = [applied EXCEPT ![j] = @ \cup {held[w][j]}]
      BY <1>1, <2>3, HandlerMove DEF ClaimInv
    <3>2. j = i /\ applied'[i] = applied[i] \cup {held[w][i]}
      BY <1>1, <3>1 DEF ClaimInv, TypeOK
    <3>3. QED
      BY <1>1, <3>1, <3>2 DEF ClaimInv, LockPinsClaim, Owns
  <2>4. ASSUME NEW w \in Workers, NEW j \in Items, HeartbeatStep(w, j) PROVE InClaim(i)
    BY <1>1, <2>4, HeartbeatFrame
  <2>5. ASSUME NEW w \in Workers, NEW j \in Items, FinishStep(w, j) PROVE InClaim(i)
    BY <1>1, <2>5, FinishEffect DEF ClaimInv
  <2>6. CASE Tick \/ UNCHANGED vars
    BY <1>1, <2>6 DEF Tick, vars
  <2>7. QED
    BY <1>1, <2>1, <2>2, <2>3, <2>4, <2>5, <2>6 DEF Next
<1>2. ClaimInv /\ [Next]_vars => [\A i \in Items : Commit(i) => InClaim(i)]_vars
  BY <1>1
<1>3. QED
  BY ClaimInvariant, <1>2, PTL DEF Spec, EffectSerializes

\* Results are final and the attempt history only grows.
THEOREM HistoryKept == Spec => HistoryPreserved
<1> DEFINE Kept(i) ==
             /\ status[i] \in {"completed", "cancelled"} => status'[i] = status[i]
             /\ attempts'[i] >= attempts[i]
             /\ attempts'[i] # attempts[i] => status'[i] = "leased" /\ token'[i] # token[i]
<1>1. ASSUME ClaimInv, [Next]_vars, NEW i \in Items PROVE Kept(i)
  <2>1. attempts[i] \in Nat /\ token[i] \in Nat /\ issued[i] \in Nat
    BY <1>1 DEF ClaimInv, TypeOK
  <2>2. token[i] <= issued[i]
    BY <1>1, <2>1 DEF ClaimInv, TokenCurrent
  <2>3. ASSUME NEW j \in Items, Enqueue(j) \/ Cancel(j) \/ Replay(j) PROVE Kept(i)
    BY <1>1, <2>1, <2>3 DEF Enqueue, Cancel, Replay, ClaimInv, TypeOK
  <2>4. ASSUME NEW w \in Workers, Claim(w) PROVE Kept(i)
    <3>1. PICK S \in SUBSET Items : Claimed(w, S)
      BY <1>1, <2>4, ClaimEffect DEF ClaimInv
    <3>2. QED
      BY <2>1, <2>2, <3>1 DEF Claimed
  <2>5. ASSUME NEW w \in Workers, Crash(w) PROVE Kept(i)
    BY <2>1, <2>5 DEF Crash, rowVars
  <2>6. ASSUME NEW w \in Workers, NEW j \in Items, HandlerStep(w, j) PROVE Kept(i)
    BY <2>1, <2>6, HandlerFrame DEF rowVars
  <2>7. ASSUME NEW w \in Workers, NEW j \in Items, HeartbeatStep(w, j) PROVE Kept(i)
    BY <2>1, <2>7, HeartbeatFrame
  <2>8. ASSUME NEW w \in Workers, NEW j \in Items, FinishStep(w, j) PROVE Kept(i)
    BY <1>1, <2>1, <2>8, FinishEffect DEF ClaimInv, LiveClaim
  <2>9. CASE Tick \/ UNCHANGED vars
    BY <2>1, <2>9 DEF Tick, vars, rowVars
  <2>10. QED
    BY <1>1, <2>3, <2>4, <2>5, <2>6, <2>7, <2>8, <2>9 DEF Next
<1>2. ClaimInv /\ [Next]_vars => [\A i \in Items : Kept(i)]_vars
  BY <1>1
<1>3. QED
  BY ClaimInvariant, <1>2, PTL DEF Spec, HistoryPreserved

-----------------------------------------------------------------------------
(* Fairness between tenants *)

\* A tenant's rows cannot all be ranked second or later: there would be more
\* rows than ranks.
LEMMA SomeoneIsFirst ==
    ASSUME NEW T, IsFiniteSet(T), NEW k \in T, NEW r,
           \A x \in T : r[x] \in Nat /\ r[x] >= 2 /\ r[x] <= Cardinality(T)
    PROVE  \E x, y \in T : x # y /\ r[x] = r[y]
<1> DEFINE f == [x \in T |-> r[x]]
<1>1. PICK n \in Nat : n = Cardinality(T)
  BY FS_CardinalityType
<1>2. IsFiniteSet(2..n) /\ Cardinality(2..n) < n
  <2>1. n >= 2
    BY <1>1
  <2>2. QED
    BY <2>1, FS_Interval
<1>3. f \in [T -> 2..n]
  BY <1>1
<1>4. \E x, y \in T : x # y /\ f[x] = f[y]
  <2>1. Cardinality(2..n) < Cardinality(T)
    BY <1>1, <1>2
  <2>2. PICK g \in [T -> 2..n] : g = f
    BY <1>3
  <2>3. \E x, y \in T : x # y /\ g[x] = g[y]
    BY <1>2, <2>1, FS_PigeonHole
  <2>4. QED
    BY <2>2, <2>3
<1>5. QED
  BY <1>4

\* A batch with two rows of one tenant has ranked every free row it leaves out
\* second or later, so a tenant it leaves out has a locked row (the ORDER BY
\* tenant_rank ... SKIP LOCKED of claim_*).
LEMMA BatchIsFair ==
    ASSUME NEW S \in Batches, NEW i \in S, NEW j \in S, i # j, OrgOf[i] = OrgOf[j],
           NEW k \in Eligible, k \notin S, ~Locked(k)
    PROVE  \E x \in Items : OrgOf[x] = OrgOf[k] /\ (x \in S \/ (x \in Eligible /\ Locked(x)))
<1> DEFINE Mine(y) == {x \in Eligible : OrgOf[x] = OrgOf[y]}
<1>1. Eligible \subseteq Items /\ S \subseteq Eligible
  BY DEF Eligible, Batches
<1>2. IsFiniteSet(Eligible) /\ IsFiniteSet(Mine(k))
  <2>1. IsFiniteSet(Eligible)
    BY <1>1, ConstantsAssumption, FS_Subset
  <2>2. Mine(k) \in SUBSET Eligible
    OBVIOUS
  <2>3. QED
    BY <2>1, <2>2, FS_Subset
<1>3. PICK r \in TenantRanks(Eligible) :
         \A x \in S, y \in {z \in Eligible : ~Locked(z)} \ S : r[x] <= r[y]
  BY DEF Batches
<1>4. /\ \A y \in Eligible : r[y] \in Nat /\ r[y] >= 1 /\ r[y] <= Cardinality(Mine(y))
      /\ \A y \in Eligible : \A x \in Mine(y) : x # y => r[x] # r[y]
  <2>1. Cardinality(Eligible) \in Nat
    BY <1>2, FS_CardinalityType
  <2>2. r \in [Eligible -> 1..Cardinality(Eligible)]
    BY Zenon, <1>3 DEF TenantRanks
  <2>3. \A y \in Eligible : /\ r[y] <= Cardinality(Mine(y))
                            /\ \A x \in Mine(y) : x # y => r[x] # r[y]
    BY Zenon, <1>3 DEF TenantRanks
  <2>4. \A y \in Eligible : r[y] \in Nat /\ r[y] >= 1
    BY <2>1, <2>2
  <2>5. QED
    BY <2>3, <2>4
<1>5. \A y \in Eligible \ S : ~Locked(y) => r[y] >= 2
  <2>1. r[i] \in Nat /\ r[j] \in Nat /\ r[i] >= 1 /\ r[j] >= 1 /\ r[i] # r[j]
    BY <1>1, <1>4
  <2>2. ASSUME NEW y \in Eligible \ S, ~Locked(y) PROVE r[y] >= 2
    <3>1. r[i] <= r[y] /\ r[j] <= r[y] /\ r[y] \in Nat
      BY <1>3, <1>4, <2>2
    <3>2. QED
      BY <2>1, <3>1
  <2>3. QED
    BY <2>2
<1>6. SUFFICES ASSUME \A x \in Mine(k) : x \notin S /\ ~Locked(x) PROVE FALSE
  BY <1>1
<1>7. \A x \in Mine(k) : r[x] \in Nat /\ r[x] >= 2 /\ r[x] <= Cardinality(Mine(k))
  <2>1. \A x \in Mine(k) : Mine(x) = Mine(k)
    OBVIOUS
  <2>2. QED
    BY <1>4, <1>5, <1>6, <2>1
<1>8. \E x, y \in Mine(k) : x # y /\ r[x] = r[y]
  BY <1>2, <1>7, SomeoneIsFirst
<1>9. QED
  BY <1>4, <1>8

\* No tenant gets its second row in a batch that leaves out the first row of
\* another, whatever the number of rows, tenants and workers (claim_*).
THEOREM TenantsShareBatches == Spec => TenantFairness
<1> DEFINE taken(w, x) == pc[w][x] = "idle" /\ pc'[w][x] = "run"
           Taken(w) == {x \in Items : taken(w, x)}
           Fair(w) ==
             \A i, j \in Taken(w) : \A k \in Eligible \ Taken(w) :
                i # j /\ OrgOf[i] = OrgOf[j] /\ OrgOf[k] # OrgOf[i] /\ ~Locked(k)
                => \E x \in Taken(w) \cup {y \in Eligible : Locked(y)} : OrgOf[x] = OrgOf[k]
<1>1. ASSUME TypeOK, [Next]_vars, NEW w \in Workers, NEW i \in Items, taken(w, i)
      PROVE  Claim(w)
  <2>1. ASSUME NEW n \in Items, Enqueue(n) \/ Cancel(n) \/ Replay(n) PROVE FALSE
    BY <1>1, <2>1 DEF Enqueue, Cancel, Replay, taskVars
  <2>2. ASSUME NEW v \in Workers, Claim(v) PROVE Claim(w)
    <3>1. PICK S \in SUBSET Items : Claimed(v, S)
      BY <1>1, <2>2, ClaimEffect
    <3>2. QED
      BY <1>1, <2>2, <3>1 DEF Claimed
  <2>3. ASSUME NEW v \in Workers, Crash(v) PROVE FALSE
    BY <1>1, <2>3 DEF Crash, TypeOK
  <2>4. ASSUME NEW v \in Workers, NEW n \in Items, HandlerStep(v, n) PROVE FALSE
    BY <1>1, <2>4, HandlerMove DEF Processing, Ended
  <2>5. ASSUME NEW v \in Workers, NEW n \in Items, HeartbeatStep(v, n) PROVE FALSE
    BY <1>1, <2>5, HeartbeatFrame
  <2>6. ASSUME NEW v \in Workers, NEW n \in Items, FinishStep(v, n) PROVE FALSE
    BY <1>1, <2>6, FinishEffect
  <2>7. CASE Tick \/ UNCHANGED vars
    BY <1>1, <2>7 DEF Tick, vars, taskVars
  <2>8. QED
    BY <1>1, <2>1, <2>2, <2>3, <2>4, <2>5, <2>6, <2>7 DEF Next
<1>2. ASSUME TypeOK, [Next]_vars, NEW w \in Workers PROVE Fair(w)
  <2>1. SUFFICES ASSUME NEW i \in Taken(w), NEW j \in Taken(w),
                        NEW k \in Eligible \ Taken(w),
                        i # j, OrgOf[i] = OrgOf[j], ~Locked(k)
                 PROVE  \E x \in Taken(w) \cup {y \in Eligible : Locked(y)} :
                           OrgOf[x] = OrgOf[k]
    OBVIOUS
  <2>2. Claim(w)
    BY <1>1, <1>2, <2>1
  <2>3. PICK S \in Batches :
           pc' = [pc EXCEPT ![w] = [x \in Items |-> IF x \in S THEN "run" ELSE "idle"]]
    BY <2>2 DEF Claim
  <2>4. Taken(w) = S
    <3>1. \A x \in Items : taken(w, x) <=> x \in S
      BY <1>2, <2>2, <2>3 DEF Claim, TypeOK
    <3>2. QED
      BY <2>3, <3>1, BatchRows
  <2>5. \E x \in Items : OrgOf[x] = OrgOf[k] /\ (x \in S \/ (x \in Eligible /\ Locked(x)))
    BY <2>1, <2>3, <2>4, BatchIsFair
  <2>6. QED
    BY <2>4, <2>5
<1>3. TypeOK /\ [Next]_vars
        => [\A w \in Workers : Fair(w)]_vars
  BY <1>2
<1>4. ClaimInv => TypeOK
  BY DEF ClaimInv
<1>5. QED
  BY ClaimInvariant, <1>3, <1>4, PTL DEF Spec, TenantFairness

-----------------------------------------------------------------------------
(* The stream implements DurableWork *)

\* A step that changes at most the outcome of one row, seen from outside.
LEMMA OutcomeStep ==
    ASSUME NEW i \in Items, NEW st,
           \A j \in Items : j # i => status'[j] = status[j],
           Seen(status'[i]) = st
    PROVE  Outcome' = [Outcome EXCEPT ![i] = st]
BY DEF Outcome

\* A step after which every row looks the same is invisible, or an effect.
LEMMA OutcomeSame ==
    ASSUME \A j \in Items : Seen(status'[j]) = Seen(status[j])
    PROVE  Outcome' = Outcome
BY DEF Outcome

\* Every step of the stream is a step of the promise or invisible to it.
LEMMA StepRefines ==
    ClaimInv /\ [Next]_vars => [Promise!DNext]_(Promise!dvars)
<1> SUFFICES ASSUME ClaimInv, [Next]_vars PROVE [Promise!DNext]_(Promise!dvars)
  OBVIOUS
<1> USE DEF ClaimInv
<1> DEFINE Goal == [Promise!DNext]_(Promise!dvars)
<1>0. ASSUME Outcome' = Outcome, applied' = applied PROVE Goal
  BY <1>0 DEF Promise!dvars
<1>1. ASSUME NEW i \in Items, Enqueue(i) PROVE Goal
  <2>1. Outcome[i] = "none" /\ applied' = applied
    BY <1>1 DEF Enqueue, Outcome, Seen
  <2>2. Outcome' = [Outcome EXCEPT ![i] = "open"]
    BY <1>1, OutcomeStep DEF Enqueue, TypeOK, Seen
  <2>3. Promise!Submit(i)
    BY <2>1, <2>2 DEF Promise!Submit
  <2>4. QED
    BY <2>3 DEF Promise!DNext
<1>2. ASSUME NEW i \in Items, Outcome[i] = "open", applied' = applied,
             NEW st \in {"dead", "rejected", "cancelled"},
             Outcome' = [Outcome EXCEPT ![i] = st]
      PROVE  Goal
  <2>1. Promise!Abandon({i}, st)
    BY <1>2 DEF Promise!Abandon, Outcome
  <2>2. QED
    BY <2>1 DEF Promise!DNext
<1>3. ASSUME NEW i \in Items, Cancel(i) PROVE Goal
  <2>1. Outcome[i] = "open" /\ applied' = applied
    BY <1>3 DEF Cancel, Outcome, Seen
  <2>2. Outcome' = [Outcome EXCEPT ![i] = "cancelled"]
    BY <1>3, OutcomeStep DEF Cancel, TypeOK, Seen
  <2>3. QED
    BY <1>2, <2>1, <2>2
<1>4. ASSUME NEW i \in Items, Replay(i) PROVE Goal
  <2>1. Outcome[i] \in {"dead", "rejected"} /\ applied' = applied
    BY <1>4 DEF Replay, Outcome, Seen
  <2>2. Outcome' = [Outcome EXCEPT ![i] = "open"]
    BY <1>4, OutcomeStep DEF Replay, TypeOK, Seen
  <2>3. Promise!Reopen(i)
    BY <2>1, <2>2 DEF Promise!Reopen
  <2>4. QED
    BY <2>3 DEF Promise!DNext
<1>5. ASSUME NEW w \in Workers, Claim(w) PROVE Goal
  <2>1. PICK S \in SUBSET Items : Claimed(w, S)
    BY <1>5, ClaimEffect
  <2>2. \A i \in Exhausted : i \in Items /\ Outcome[i] = "open"
    BY <2>1 DEF Claimed, Exhausted, Outcome, Seen
  <2>3. \A i \in Items : Seen(status'[i]) = IF i \in Exhausted THEN "dead" ELSE Outcome[i]
    BY <2>1 DEF Claimed, Outcome, Seen
  <2>4. Outcome' = [i \in Items |-> IF i \in Exhausted THEN "dead" ELSE Outcome[i]]
    BY <2>3 DEF Outcome
  <2>5. Promise!Abandon(Exhausted, "dead")
    BY <2>1, <2>2, <2>4 DEF Claimed, Promise!Abandon
  <2>6. Exhausted \in SUBSET Items
    BY DEF Exhausted
  <2>7. QED
    BY <2>5, <2>6 DEF Promise!DNext
<1>6. ASSUME NEW w \in Workers, Crash(w) PROVE Goal
  BY <1>0, <1>6, OutcomeSame DEF Crash, rowVars
<1>7. ASSUME NEW w \in Workers, NEW i \in Items, HandlerStep(w, i) PROVE Goal
  <2>1. Outcome' = Outcome
    BY <1>7, HandlerFrame, OutcomeSame DEF rowVars
  <2>2. CASE applied' = applied
    BY <1>0, <2>1, <2>2
  <2>3. CASE /\ pc[w][i] = IF Fenced THEN "tx" ELSE "run"
             /\ applied' = [applied EXCEPT ![i] = @ \cup {held[w][i]}]
    <3>1. Fenced => Outcome[i] = "open"
      BY <2>3 DEF LockPinsClaim, Outcome, Seen
    <3>2. held[w][i] \in applied'[i] \ applied[i]
      BY <2>3 DEF TypeOK, EffectPerClaim
    <3>3. Promise!Perform(i)
      BY <2>1, <2>3, <3>1, <3>2 DEF Promise!Perform
    <3>4. QED
      BY <3>3 DEF Promise!DNext
  <2>4. QED
    BY <1>7, <2>2, <2>3, HandlerMove
<1>8. ASSUME NEW w \in Workers, NEW i \in Items, HeartbeatStep(w, i) PROVE Goal
  BY <1>0, <1>8, HeartbeatFrame, OutcomeSame
<1>9. ASSUME NEW w \in Workers, NEW i \in Items, FinishStep(w, i) PROVE Goal
  <2>1. applied' = applied /\ \A j \in Items : j # i => status'[j] = status[j]
    BY <1>9, FinishEffect
  <2>2. CASE status'[i] = status[i]
    BY <1>0, <2>1, <2>2, OutcomeSame
  <2>3. CASE /\ LiveClaim(w, i)
             /\ status'[i] \in {"completed", "dead", "rejected", "pending"}
             /\ status'[i] = "completed" => pc[w][i] = "returned"
    <3>1. Outcome[i] = "open" /\ status[i] = "leased"
      BY <2>3 DEF LiveClaim, Outcome, Seen
    <3>2. CASE status'[i] = "pending"
      BY <1>0, <2>1, <3>1, <3>2, OutcomeSame DEF Seen
    <3>3. CASE status'[i] \in {"dead", "rejected"}
      BY <1>2, <2>1, <3>1, <3>3, OutcomeStep DEF Seen
    <3>4. CASE status'[i] = "completed"
      <4>1. applied[i] # {}
        BY <2>3, <3>4 DEF EffectPerClaim
      <4>2. Outcome' = [Outcome EXCEPT ![i] = "completed"]
        BY <2>1, <3>4, OutcomeStep DEF Seen
      <4>3. Promise!Finish(i)
        BY <2>1, <3>1, <4>1, <4>2 DEF Promise!Finish
      <4>4. QED
        BY <4>3 DEF Promise!DNext
    <3>5. QED
      BY <2>3, <3>2, <3>3, <3>4
  <2>4. QED
    BY <1>9, <2>2, <2>3, FinishEffect
<1>10. CASE Tick \/ UNCHANGED vars
  BY <1>0, <1>10, OutcomeSame DEF Tick, vars, rowVars
<1>11. QED
  BY <1>1, <1>3, <1>4, <1>5, <1>6, <1>7, <1>8, <1>9, <1>10 DEF Next

\* The stream keeps the promise of DurableWork.
THEOREM StreamKeepsPromise == Spec => ImplementsDurableWork
<1>1. Init => Promise!DInit
  BY DEF Init, Promise!DInit, Outcome, Seen
<1>2. QED
  BY ClaimInvariant, StepRefines, <1>1, PTL DEF Spec, ImplementsDurableWork, Promise!DSpec

=============================================================================
