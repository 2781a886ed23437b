---------------------- MODULE OperationalRecoveryProofs ----------------------
(***************************************************************************)
(* Theorems about OperationalRecovery, for any reservations, workers,      *)
(* verdicts, offers and bounds.                                            *)
(***************************************************************************)
EXTENDS OperationalRecovery, FiniteSetTheorems, SequenceTheorems, WellFoundedInduction, TLAPS

-----------------------------------------------------------------------------
(* The operators of the model *)

LEMMA FirstIs ==
    ASSUME NEW S, S \subseteq Reservations, S # {}
    PROVE  First(S) \in S
<1> DEFINE I == {n \in DOMAIN Order : Order[n] \in S}
<1>1. Order \in Seq(Reservations) /\ Range(Order) = Reservations
  BY RecoveryAssumption
<1>2. I # {} /\ I \subseteq Nat
  BY <1>1 DEF Range
<1>3. PICK x \in I : \A y \in I : ~(<<y, x>> \in OpToRel(<, Nat))
  BY <1>2, NatLessThanWellFounded, WFMin
<1>4. ASSUME NEW y \in I PROVE x <= y
  <2>1. x \in Nat /\ y \in Nat
    BY <1>2
  <2>2. ~(y < x)
    BY <1>3, <2>1 DEF OpToRel
  <2>3. QED
    BY <2>1, <2>2
<1>5. QED
  BY <1>4 DEF First

LEMMA TruthIs ==
    ASSUME NEW t \in Truths
    PROVE  /\ t.level \in 0..3 /\ t.affected \subseteq Reservations
           /\ Impact(t) \subseteq t.affected
<1>1. t \in Verdict
  BY RecoveryAssumption
<1>2. t.level \in 0..3 /\ t.affected \subseteq Reservations
  BY <1>1 DEF Verdict
<1>3. QED
  BY <1>2 DEF Impact

LEMMA RowIs ==
    ASSUME NEW t \in Truths, NEW v \in Nat, NEW p \in Nat
    PROVE  /\ Row(t, v, p) \in Incident
           /\ Row(t, v, p).rev = v /\ Row(t, v, p).prop = p
BY TruthIs DEF Row, Incident, Material

LEMMA IdleIs == NoRow \in Incident /\ Idle \in Execution
BY DEF NoRow, Incident, Idle, Stage, Execution, Stages

\* An execution between two stages keeps its reassessment and its claim.
LEMMA FreshExecution ==
    ASSUME NEW pc \in Stages, NEW v \in Nat, NEW tok \in Nat, NEW inc \in Nat, NEW prop \in Nat,
           NEW todo \in SUBSET Reservations, NEW fresh \in SUBSET Reservations,
           NEW x, x = Stage(pc, v, tok, inc, prop, todo, fresh)
    PROVE  /\ x \in Execution
           /\ x.pc = pc /\ x.v = v /\ x.inc = inc /\ x.prop = prop
           /\ x.todo = todo /\ x.fresh = fresh /\ x.row.prop = 0
BY IdleIs DEF Execution, Stage, NoRow

LEMMA OpenIncidentIs ==
    /\ OpenIncident # 0 => OpenIncident \in DOMAIN incident
    /\ incident \in Seq(Incident) => OpenIncident \in Nat
<1> DEFINE Open == {i \in DOMAIN incident : incident[i].st = "open"}
<1>1. CASE Open = {}
  BY <1>1 DEF OpenIncident
<1>2. CASE Open # {}
  BY <1>2 DEF OpenIncident
<1>3. QED
  BY <1>1, <1>2

\* The row is written over the open incident or after the last one.
LEMMA UpsertedIs ==
    ASSUME incident \in Seq(Incident), NEW row \in Incident
    PROVE  /\ Upserted(row) \in Seq(Incident)
           /\ DOMAIN incident \subseteq DOMAIN Upserted(row)
           /\ (IF OpenIncident = 0 THEN Len(incident) + 1 ELSE OpenIncident) \in DOMAIN Upserted(row)
           /\ \A i \in DOMAIN Upserted(row) :
                 \/ Upserted(row)[i] = row
                 \/ i \in DOMAIN incident /\ Upserted(row)[i] = incident[i]
<1>1. CASE OpenIncident = 0
  BY <1>1 DEF Upserted
<1>2. CASE OpenIncident # 0
  BY <1>2, OpenIncidentIs DEF Upserted
<1>3. QED
  BY <1>1, <1>2

-----------------------------------------------------------------------------
(* The parts of the invariant *)

\* The tables, without the executions.
TablesTyped ==
    /\ truth \in Seq(Truths) /\ Rev \in 1..MaxRev
    /\ work \in [1..Rev -> Work]
    /\ DOMAIN proposal \subseteq 1..Rev
    /\ \A v \in DOMAIN proposal : \A p \in proposal[v] :
          p.res \in truth[v].affected /\ p.target \in Offers
    /\ incident \in Seq(Incident)
    /\ \A i \in DOMAIN incident : incident[i].rev \in 1..Rev /\ incident[i].prop \in 0..Rev
    /\ DOMAIN action \subseteq ActionKey /\ IsFiniteSet(DOMAIN action)
    /\ action \in [DOMAIN action -> Statuses]
    /\ moved \subseteq DOMAIN action
    /\ assessed \subseteq 1..Rev
    /\ faults \in 0..MaxFaults

NotLost == work[Rev].st \in {"completed", "cancelled"} => Rev \in assessed

NoticesTrue ==
    \A n \in notices : n.purpose = "impact" =>
        \E e \in ledger : e.inc = n.inc /\ e.rev = n.rev /\ n.res \in e.impact

Tables ==
    /\ TablesTyped /\ NotLost /\ NoticesTrue /\ LedgerSound
    /\ DOMAIN proposal \subseteq assessed
    /\ BudgetSound

Sound(w) == ~At(w, "idle") => ExecutionSound(run[w])

Executions == run \in [Workers -> Execution] /\ \A w \in Workers : Sound(w)

LEMMA InvIs == RecoveryInv <=> Tables /\ Executions
BY DEF RecoveryInv, NoRevisionLost, TypeOK, ImpactIsTrue, LedgerSound, Tables, TablesTyped, NotLost,
       NoticesTrue, Executions, Sound

\* What every step does to the tables an execution rests on.
Grows ==
    /\ Rev <= Rev' /\ \A v \in 1..Rev : truth'[v] = truth[v]
    /\ DOMAIN incident \subseteq DOMAIN incident'
    /\ ledger \subseteq ledger'
    /\ DOMAIN action \subseteq DOMAIN action'
    /\ \A v \in 1..Rev : OffersOf(v) \subseteq OffersOf(v)'
    /\ Rev' = Rev => moved' = moved /\ assessed \subseteq assessed'

LEMMA AllowedKept ==
    ASSUME Rev \in Nat, Rev' \in Nat, Grows, NEW k, k.rev \in 1..Rev, Allowed(k)
    PROVE  Allowed(k)'
<1>1. CASE Rev' = Rev
  BY <1>1 DEF Grows, Allowed, MovedFor
<1>2. CASE Rev' # Rev
  <2>1. k.rev # Rev'
    BY <1>2 DEF Grows
  <2>2. QED
    BY <2>1 DEF Allowed
<1>3. QED
  BY <1>1, <1>2

LEMMA WithinKept ==
    ASSUME Grows, NEW v \in 1..Rev
    PROVE  Within(v) \subseteq Within(v)'
BY DEF Grows, Within

\* An execution that does not move stays sound while the tables grow.
LEMMA ExecutionKept ==
    ASSUME Tables, Tables', Grows, NEW x \in Execution, ExecutionSound(x)
    PROVE  ExecutionSound(x)'
<1>1. Rev \in Nat /\ Rev' \in Nat /\ Rev <= Rev' /\ x.v \in 1..Rev /\ x.v \in 1..Rev' /\ x.seen \in Nat
  BY SMTT(30) DEF Tables, TablesTyped, Grows, ExecutionSound, Execution
<1>2. x.pc = "commit" =>
          /\ x.seen \in x.v..Rev'
          /\ \A p \in x.offers : p.res \in truth'[x.seen].affected
  BY <1>1 DEF ExecutionSound, Grows
<1>3. x.pc \notin {"assess", "commit"} /\ x.v = Rev' => Rev' \in assessed'
  BY <1>1 DEF ExecutionSound, Grows
<1>4. x.pc = "impact" => TellsTruth(x)'
  BY DEF ExecutionSound, Grows, TellsTruth
<1>5. MovesWithin(x) => MovesWithin(x)'
  <2>1. SUFFICES ASSUME MovesWithin(x), NEW r \in x.todo \cup x.fresh
        PROVE  r \in Within(x.v)' /\ Allowed(Key(x.inc, r, x.v))'
    BY DEF MovesWithin
  <2>2. r \in Within(x.v) /\ Allowed(Key(x.inc, r, x.v))
    BY <2>1 DEF MovesWithin
  <2>3. PICK k : k = Key(x.inc, r, x.v)
    OBVIOUS
  <2>4. Allowed(k)'
    BY <1>1, <2>2, <2>3, AllowedKept DEF Key
  <2>5. QED
    BY <1>1, <2>2, <2>3, <2>4, WithinKept
<1>6. QED
  BY <1>1, <1>2, <1>3, <1>4, <1>5 DEF ExecutionSound, Grows, Execution, Incident

LEMMA SoundIs ==
    ASSUME NEW w, NEW x, x = run'[w], x.pc # "idle" => ExecutionSound(x)'
    PROVE  Sound(w)'
BY DEF Sound, At, ExecutionSound, TellsTruth, MovesWithin

\* One execution goes on while the others wait.
LEMMA ExecutionsKept ==
    ASSUME Executions, Tables, Tables', Grows, NEW w \in Workers, NEW x \in Execution,
           run' = [run EXCEPT ![w] = x], x.pc # "idle" => ExecutionSound(x)'
    PROVE  Executions'
<1>1. run' \in [Workers -> Execution]
  BY DEF Executions
<1>2. ASSUME NEW u \in Workers PROVE Sound(u)'
  <2>1. CASE u = w
    BY <2>1, SoundIs DEF Executions
  <2>2. CASE u # w
    <3>1. PICK y : y = run'[u]
      OBVIOUS
    <3>2. y = run[u] /\ y \in Execution
      BY <2>2, <3>1 DEF Executions
    <3>3. y.pc # "idle" => ExecutionSound(y)
      BY <3>2 DEF Executions, Sound, At
    <3>4. y.pc # "idle" => ExecutionSound(y)'
      BY <3>2, <3>3, ExecutionKept
    <3>5. QED
      BY <3>1, <3>4, SoundIs
  <2>3. QED
    BY <2>1, <2>2
<1>3. QED
  BY <1>1, <1>2 DEF Executions

\* The same when no execution moves.
LEMMA AllExecutionsKept ==
    ASSUME Executions, Tables, Tables', Grows, run' = run
    PROVE  Executions'
<1>1. ASSUME NEW u \in Workers PROVE Sound(u)'
  <2>1. PICK y : y = run'[u]
    OBVIOUS
  <2>2. y = run[u] /\ y \in Execution
    BY <2>1 DEF Executions
  <2>3. y.pc # "idle" => ExecutionSound(y)
    BY <2>2 DEF Executions, Sound, At
  <2>4. QED
    BY <2>1, <2>2, <2>3, ExecutionKept, SoundIs
<1>2. QED
  BY <1>1 DEF Executions

-----------------------------------------------------------------------------
(* Steps that leave the source, the verdicts and the moves alone *)

LEMMA TablesKept ==
    ASSUME Tables, UNCHANGED <<truth, ours, moved>>, work' \in [1..Rev -> Work], NotLost',
           DOMAIN action' = DOMAIN action, action' \in [DOMAIN action -> Statuses],
           NoticesTrue', faults' \in 0..MaxFaults
    PROVE  Tables' /\ Grows
<1>1. Rev' = Rev /\ Rev \in Nat
  BY DEF Rev, Tables, TablesTyped
<1>2. TablesTyped'
  BY <1>1 DEF Tables, TablesTyped, ours
<1>3. BudgetSound'
  BY <1>1 DEF Tables, BudgetSound, Allowed, MovedFor
<1>4. LedgerSound' /\ DOMAIN proposal' \subseteq assessed'
  BY <1>1 DEF Tables, LedgerSound, Impact, ours
<1>5. Grows
  BY <1>1 DEF Grows, ours, OffersOf
<1>6. QED
  BY <1>2, <1>3, <1>4, <1>5 DEF Tables

\* Execution w becomes x, which is as sound as before.
LEMMA ExecutionGoesOn ==
    ASSUME RecoveryInv, UNCHANGED <<truth, ours, moved>>, work' \in [1..Rev -> Work], NotLost',
           DOMAIN action' = DOMAIN action, action' \in [DOMAIN action -> Statuses],
           NoticesTrue', faults' \in 0..MaxFaults,
           NEW w \in Workers, NEW x \in Execution, run' = [run EXCEPT ![w] = x],
           x.pc # "idle" => ExecutionSound(x)
    PROVE  RecoveryInv'
<1>1. Tables /\ Executions
  BY InvIs
<1>2. Tables' /\ Grows
  BY <1>1, TablesKept
<1>3. x.pc # "idle" => ExecutionSound(x)'
  BY <1>1, <1>2, ExecutionKept
<1>4. Executions'
  BY <1>1, <1>2, <1>3, ExecutionsKept
<1>5. Tables' /\ Executions' => RecoveryInv'
  BY InvIs, PTL
<1>6. QED
  BY <1>2, <1>4, <1>5

\* An action changes its status at most.
SameKeys == DOMAIN action' = DOMAIN action /\ action' \in [DOMAIN action -> Statuses]

\* The same when the reassessments stay too.
LEMMA ExecutionMoves ==
    ASSUME RecoveryInv, UNCHANGED <<truth, work, ours, moved>>, SameKeys, NoticesTrue',
           faults' \in 0..MaxFaults,
           NEW w \in Workers, NEW x \in Execution, run' = [run EXCEPT ![w] = x],
           x.pc # "idle" => ExecutionSound(x)
    PROVE  RecoveryInv'
<1>1. Tables
  BY InvIs
<1>2. NotLost'
  BY <1>1 DEF Tables, NotLost, ours, Rev
<1>3. work' \in [1..Rev -> Work] /\ action' \in [DOMAIN action -> Statuses] /\ DOMAIN action' = DOMAIN action
  BY <1>1 DEF Tables, TablesTyped, SameKeys
<1>4. UNCHANGED <<truth, ours, moved>>
  OBVIOUS
<1>5. QED
  BY <1>2, <1>3, <1>4, ExecutionGoesOn

LEMMA NoticesKept ==
    ASSUME Tables, UNCHANGED notices, UNCHANGED ledger
    PROVE  NoticesTrue'
BY DEF Tables, NoticesTrue

\* What the execution of w is before its step.
LEMMA ExecutionIs ==
    ASSUME RecoveryInv, NEW w \in Workers, ~At(w, "idle")
    PROVE  /\ Tables /\ Executions
           /\ run[w] \in Execution /\ ExecutionSound(run[w])
           /\ Rev \in Nat \ {0} /\ run[w].v \in 1..Rev /\ faults \in 0..MaxFaults
           /\ truth \in Seq(Truths) /\ truth[Rev] \in Truths
BY InvIs DEF Executions, Sound, At, ExecutionSound, Tables, TablesTyped, Rev

LEMMA GotoIs ==
    ASSUME NEW w \in Workers, NEW p \in Stages, run \in [Workers -> Execution], Goto(w, p)
    PROVE  \E x \in Execution :
              /\ run' = [run EXCEPT ![w] = x] /\ x.pc = p
              /\ x.v = run[w].v /\ x.tok = run[w].tok /\ x.seen = run[w].seen
              /\ x.offers = run[w].offers /\ x.inc = run[w].inc /\ x.prop = run[w].prop
              /\ x.todo = run[w].todo /\ x.fresh = run[w].fresh /\ x.row = run[w].row
<1> DEFINE x == [run[w] EXCEPT !.pc = p]
<1>1. x \in Execution
  BY DEF Execution
<1>2. run' = [run EXCEPT ![w] = x]
  BY DEF Goto
<1>3. /\ x.pc = p /\ x.v = run[w].v /\ x.tok = run[w].tok /\ x.seen = run[w].seen
      /\ x.offers = run[w].offers /\ x.inc = run[w].inc /\ x.prop = run[w].prop
      /\ x.todo = run[w].todo /\ x.fresh = run[w].fresh /\ x.row = run[w].row
  BY DEF Execution
<1>4. QED
  BY <1>1, <1>2, <1>3

LEMMA EnterIs ==
    ASSUME NEW w \in Workers, run[w] \in Execution, NEW pc \in Stages, NEW inc \in Nat,
           NEW prop \in Nat, NEW todo \in SUBSET Reservations, NEW fresh \in SUBSET Reservations,
           Enter(w, pc, inc, prop, todo, fresh)
    PROVE  \E x \in Execution :
              /\ run' = [run EXCEPT ![w] = x] /\ x.pc = pc /\ x.v = run[w].v
              /\ x.inc = inc /\ x.prop = prop /\ x.todo = todo /\ x.fresh = fresh
              /\ x.row.prop = 0
<1> DEFINE x == Stage(pc, run[w].v, run[w].tok, inc, prop, todo, fresh)
<1>1. run[w].v \in Nat /\ run[w].tok \in Nat
  BY DEF Execution
<1>2. /\ x \in Execution
      /\ x.pc = pc /\ x.v = run[w].v /\ x.inc = inc /\ x.prop = prop
      /\ x.todo = todo /\ x.fresh = fresh /\ x.row.prop = 0
  BY SMTT(30), <1>1, FreshExecution
<1>3. run' = [run EXCEPT ![w] = x]
  BY DEF Enter
<1>4. QED
  BY <1>2, <1>3

LEMMA DoneIs ==
    ASSUME NEW w \in Workers, run[w] \in Execution, Done(w)
    PROVE  \E x \in Execution :
              run' = [run EXCEPT ![w] = x] /\ x.pc = "settle" /\ x.v = run[w].v
<1>1. Enter(w, "settle", 0, 0, {}, {})
  BY DEF Done
<1>2. "settle" \in Stages
  BY DEF Stages
<1>3. QED
  BY <1>1, <1>2, EnterIs

\* Only executions past the commit end.
LEMMA DoneSound ==
    ASSUME NEW x, x.pc = "settle", x.v \in 1..Rev, x.v = Rev => Rev \in assessed
    PROVE  ExecutionSound(x)
BY DEF ExecutionSound, ItemStages

-----------------------------------------------------------------------------
(* Claims and their end *)

LEMMA WorkKept ==
    ASSUME RecoveryInv, NEW v \in 1..Rev, NEW a \in Work, work' = [work EXCEPT ![v] = a],
           a.st \in {"completed", "cancelled"} /\ v = Rev => Rev \in assessed,
           UNCHANGED <<truth, assessed>>
    PROVE  work' \in [1..Rev -> Work] /\ NotLost'
<1>1. work \in [1..Rev -> Work] /\ Rev \in 1..Rev /\ Rev' = Rev /\ NotLost
  BY InvIs DEF Tables, TablesTyped, Rev
<1>2. work' \in [1..Rev -> Work]
  BY <1>1
<1>3. work'[Rev] = IF v = Rev THEN a ELSE work[Rev]
  BY <1>1
<1>4. QED
  BY <1>1, <1>2, <1>3 DEF NotLost

LEMMA TakeKeeps ==
    ASSUME RecoveryInv, NEW w \in Workers, NEW v \in 1..Rev, Take(w, v), faults' \in 0..MaxFaults
    PROVE  RecoveryInv'
<1>1. Tables /\ work[v] \in Work /\ Rev \in Nat /\ MaxAttempts \in Nat
  BY SMTT(30), InvIs, RecoveryAssumption DEF Tables, TablesTyped
<1>2. PICK a : a = [st |-> "leased", tries |-> work[v].tries + 1]
  OBVIOUS
<1>3. a \in Work /\ a.st = "leased" /\ work' = [work EXCEPT ![v] = a]
  BY <1>1, <1>2 DEF Take, Work
<1>4. UNCHANGED <<truth, ours, acts>>
  BY DEF Take
<1>5. work' \in [1..Rev -> Work] /\ NotLost'
  BY <1>3, <1>4, WorkKept DEF ours
<1>6. PICK x : x = Stage(IF Rev = v THEN "assess" ELSE "settle", v, work[v].tries + 1, 0, 0, {}, {})
  OBVIOUS
<1>7. x \in Execution /\ x.v = v /\ x.pc = IF Rev = v THEN "assess" ELSE "settle"
  <2>1. v \in Nat /\ work[v].tries + 1 \in Nat
    BY <1>1 DEF Work
  <2>2. PICK pc \in Stages : pc = IF Rev = v THEN "assess" ELSE "settle"
    BY DEF Stages
  <2>3. PICK tok \in Nat : tok = work[v].tries + 1
    BY <2>1
  <2>4. x = Stage(pc, v, tok, 0, 0, {}, {})
    BY <1>6, <2>2, <2>3
  <2>5. 0 \in Nat /\ {} \in SUBSET Reservations
    OBVIOUS
  <2>6. x \in Execution /\ x.pc = pc /\ x.v = v
    BY ONLY <2>1, <2>4, <2>5, FreshExecution
  <2>7. QED
    BY ONLY <2>2, <2>6
<1>8. run' = [run EXCEPT ![w] = x]
  BY <1>6 DEF Take
<1>9. ExecutionSound(x)
  BY <1>7 DEF ExecutionSound, ItemStages
<1>10. NoticesTrue'
  BY <1>1, <1>4, NoticesKept DEF acts, ours
<1>11. UNCHANGED <<truth, ours, moved>> /\ DOMAIN action' = DOMAIN action /\ action' \in [DOMAIN action -> Statuses]
  BY <1>1, <1>4 DEF acts, Tables, TablesTyped
<1>12. QED
  BY <1>5, <1>7, <1>8, <1>9, <1>10, <1>11, ExecutionGoesOn

LEMMA ExhaustKeeps ==
    ASSUME RecoveryInv, NEW v \in 1..Rev, Exhaust(v)
    PROVE  RecoveryInv'
<1>1. Tables /\ Executions /\ work[v] \in Work
  BY InvIs DEF Tables, TablesTyped
<1>2. PICK a : a = [work[v] EXCEPT !.st = "dead"]
  OBVIOUS
<1>3. a \in Work /\ a.st = "dead" /\ work' = [work EXCEPT ![v] = a]
  BY <1>1, <1>2 DEF Exhaust, Work
<1>4. UNCHANGED <<truth, ours, acts, run, faults>>
  BY DEF Exhaust
<1>5. work' \in [1..Rev -> Work] /\ NotLost'
  BY <1>3, <1>4, WorkKept DEF ours
<1>6. NoticesTrue'
  BY <1>1, <1>4, NoticesKept DEF acts, ours
<1>7. UNCHANGED <<truth, ours, moved>> /\ DOMAIN action' = DOMAIN action /\ action' \in [DOMAIN action -> Statuses]
  BY <1>1, <1>4 DEF acts, Tables, TablesTyped
<1>8. Tables' /\ Grows
  BY <1>1, <1>4, <1>5, <1>6, <1>7, TablesKept DEF Tables, TablesTyped
<1>9. Executions'
  BY <1>1, <1>4, <1>8, AllExecutionsKept
<1>10. Tables' /\ Executions' => RecoveryInv'
  BY InvIs, PTL
<1>11. QED
  BY <1>8, <1>9, <1>10

\* An execution ends; the claim it held, if it did, has a result.
LEMMA EndKeeps ==
    ASSUME RecoveryInv, NEW w \in Workers, ~At(w, "idle"), Stop(w),
           NEW st \in {"pending", "completed", "dead"},
           st = "completed" => At(w, "settle"),
           \/ work' = work
           \/ work' = [work EXCEPT ![run[w].v].st = st],
           UNCHANGED <<truth, ours, acts>>, faults' \in 0..MaxFaults
    PROVE  RecoveryInv'
<1>1. /\ Tables /\ Executions /\ run[w].v \in 1..Rev /\ ExecutionSound(run[w])
      /\ work[run[w].v] \in Work /\ work \in [1..Rev -> Work]
  BY ExecutionIs DEF Tables, TablesTyped
<1>2. run' = [run EXCEPT ![w] = Idle] /\ Idle \in Execution /\ Idle.pc = "idle"
  BY IdleIs DEF Stop, Idle, Stage
<1>3. NoticesTrue'
  BY <1>1, NoticesKept DEF acts, ours
<1>4. work' \in [1..Rev -> Work] /\ NotLost'
  <2>1. CASE work' = work
    BY <1>1, <2>1 DEF Tables, NotLost, Rev, ours
  <2>2. CASE work' = [work EXCEPT ![run[w].v].st = st]
    <3>1. PICK a : a = [work[run[w].v] EXCEPT !.st = st]
      OBVIOUS
    <3>2. a \in Work /\ a.st = st /\ work' = [work EXCEPT ![run[w].v] = a]
      BY <1>1, <2>2, <3>1 DEF Work
    <3>3. st = "completed" /\ run[w].v = Rev => Rev \in assessed
      BY <1>1 DEF ExecutionSound, At
    <3>4. st # "cancelled"
      OBVIOUS
    <3>5. PICK v \in 1..Rev : v = run[w].v
      BY <1>1
    <3>6. QED
      BY <3>2, <3>3, <3>4, <3>5, WorkKept DEF ours
  <2>3. QED
    BY <2>1, <2>2
<1>5. UNCHANGED <<truth, ours, moved>> /\ DOMAIN action' = DOMAIN action /\ action' \in [DOMAIN action -> Statuses]
  BY <1>1 DEF acts, Tables, TablesTyped
<1>6. QED
  BY <1>2, <1>3, <1>4, <1>5, ExecutionGoesOn

LEMMA FailedKeeps ==
    ASSUME RecoveryInv, NEW w \in Workers, ~At(w, "idle"), Failed(w),
           UNCHANGED <<truth, ours, acts>>, faults' \in 0..MaxFaults
    PROVE  RecoveryInv'
<1>1. PICK st \in {"pending", "completed", "dead"} : st = IF run[w].tok < MaxAttempts THEN "pending" ELSE "dead"
  OBVIOUS
<1>2. Stop(w) /\ (work' = work \/ work' = [work EXCEPT ![run[w].v].st = st]) /\ st # "completed"
  BY <1>1 DEF Failed
<1>3. QED
  BY <1>2, EndKeeps

LEMMA SettleKeeps ==
    ASSUME RecoveryInv, NEW w \in Workers, Settle(w)
    PROVE  RecoveryInv'
<1>1. ~At(w, "idle") /\ At(w, "settle") /\ Stop(w) /\ UNCHANGED <<truth, ours, acts, faults>>
  BY DEF Settle, At
<1>2. work' = work \/ work' = [work EXCEPT ![run[w].v].st = "completed"]
  BY DEF Settle
<1>3. faults' \in 0..MaxFaults
  BY <1>1, ExecutionIs
<1>4. QED
  BY <1>1, <1>2, <1>3, EndKeeps

LEMMA FaultIs ==
    ASSUME faults \in 0..MaxFaults, Fault
    PROVE  faults' \in 0..MaxFaults
BY RecoveryAssumption DEF Fault

LEMMA CrashKeeps ==
    ASSUME RecoveryInv, NEW w \in Workers, Crash(w) \/ Fails(w)
    PROVE  RecoveryInv'
<1>1. ~At(w, "idle") /\ Fault /\ UNCHANGED <<truth, ours, acts>>
  BY DEF Crash, Fails, source
<1>2. faults' \in 0..MaxFaults
  BY <1>1, ExecutionIs, FaultIs
<1>3. CASE Crash(w)
  <2>1. Stop(w) /\ work' = work
    BY <1>3 DEF Crash, source
  <2>2. PICK st \in {"pending", "completed", "dead"} : st = "pending"
    OBVIOUS
  <2>3. QED
    BY <1>1, <1>2, <2>1, <2>2, EndKeeps
<1>4. CASE Fails(w)
  BY <1>1, <1>2, <1>4, FailedKeeps DEF Fails
<1>5. QED
  BY <1>3, <1>4

-----------------------------------------------------------------------------
(* Steps that only read, and notices *)

LEMMA AssessKeeps ==
    ASSUME RecoveryInv, NEW w \in Workers, Assess(w)
    PROVE  RecoveryInv'
<1>1. ~At(w, "idle") /\ UNCHANGED <<source, ours, acts, faults>>
  BY DEF Assess, At
<1>2. /\ Tables /\ run \in [Workers -> Execution] /\ run[w] \in Execution /\ Rev \in Nat \ {0}
      /\ run[w].v \in 1..Rev /\ faults \in 0..MaxFaults /\ truth[Rev] \in Truths
  BY <1>1, ExecutionIs DEF Executions
<1>3. PICK f \in Targets :
          run' = [run EXCEPT ![w].pc = "commit", ![w].seen = Rev,
                             ![w].offers = {Offer(r, f[r]) : r \in truth[Rev].affected}]
  BY DEF Assess
<1>4. PICK O : O = {Offer(r, f[r]) : r \in truth[Rev].affected}
  OBVIOUS
<1>5. O \subseteq [res : Reservations, target : Offers] /\ \A p \in O : p.res \in truth[Rev].affected
  <2>1. f \in [Reservations -> Offers]
    BY RecoveryAssumption
  <2>2. truth[Rev].affected \subseteq Reservations
    BY <1>2, TruthIs
  <2>3. QED
    BY <1>4, <2>1, <2>2 DEF Offer
<1>6. PICK x : x = [run[w] EXCEPT !.pc = "commit", !.seen = Rev, !.offers = O]
  OBVIOUS
<1>7. x \in Execution /\ x.pc = "commit" /\ x.v = run[w].v /\ x.seen = Rev /\ x.offers = O
  BY <1>2, <1>5, <1>6 DEF Execution, Stages
<1>8. run' = [run EXCEPT ![w] = x]
  BY <1>2, <1>3, <1>4, <1>6
<1>9. ExecutionSound(x)
  BY <1>2, <1>5, <1>7 DEF ExecutionSound, ItemStages
<1>10. NoticesTrue'
  BY <1>1, <1>2, NoticesKept DEF acts, ours
<1>11. UNCHANGED <<truth, work, ours, moved>> /\ SameKeys /\ faults' \in 0..MaxFaults
  BY <1>1, <1>2 DEF source, acts, SameKeys, Tables, TablesTyped
<1>12. QED
  BY <1>7, <1>8, <1>9, <1>10, <1>11, ExecutionMoves

\* The handler returns.
LEMMA DoneKeeps ==
    ASSUME RecoveryInv, NEW w \in Workers, ~At(w, "idle"), Done(w),
           run[w].v = Rev => Rev \in assessed,
           UNCHANGED <<truth, work, ours, moved>>, SameKeys, NoticesTrue', faults' \in 0..MaxFaults
    PROVE  RecoveryInv'
<1>1. run[w] \in Execution /\ run[w].v \in 1..Rev
  BY ExecutionIs
<1>2. PICK x \in Execution : run' = [run EXCEPT ![w] = x] /\ x.pc = "settle" /\ x.v = run[w].v
  BY <1>1, DoneIs
<1>3. ExecutionSound(x)
  BY <1>1, <1>2, DoneSound
<1>4. QED
  BY <1>2, <1>3, ExecutionMoves

\* The planned moves are taken up one after the other.
LEMMA MovesKeeps ==
    ASSUME RecoveryInv, NEW w \in Workers, run[w].pc \in {"plan"} \cup ItemStages,
           NEW again \in SUBSET Reservations, NEW new \in SUBSET Reservations, Moves(w, again, new),
           \A r \in again \cup new :
              r \in Within(run[w].v) /\ Allowed(Key(run[w].inc, r, run[w].v)),
           UNCHANGED <<truth, work, ours, moved>>, SameKeys, NoticesTrue', faults' \in 0..MaxFaults
    PROVE  RecoveryInv'
<1>1. ~At(w, "idle")
  BY DEF At, ItemStages
<1>2. /\ run[w] \in Execution /\ run[w].v \in 1..Rev /\ ExecutionSound(run[w])
      /\ run[w].inc \in DOMAIN incident /\ run[w].inc \in Nat /\ run[w].v \in Nat
      /\ run[w].v = Rev => Rev \in assessed
  BY <1>1, ExecutionIs DEF ExecutionSound, ItemStages, Execution
<1>3. CASE Done(w)
  BY <1>1, <1>2, <1>3, DoneKeeps
<1>4. ASSUME NEW todo \in SUBSET Reservations, NEW fresh \in SUBSET Reservations,
             todo # {}, todo \subseteq again \cup new, fresh \subseteq again \cup new,
             Enter(w, "incident", run[w].inc, 0, todo, fresh)
      PROVE  RecoveryInv'
  <2>1. "incident" \in Stages
    BY DEF Stages, ItemStages
  <2>2. PICK i \in Nat : i = run[w].inc
    BY <1>2
  <2>3. PICK x \in Execution :
              /\ run' = [run EXCEPT ![w] = x] /\ x.pc = "incident" /\ x.v = run[w].v
              /\ x.inc = i /\ x.prop = 0 /\ x.todo = todo /\ x.fresh = fresh /\ x.row.prop = 0
    BY SMTT(30), <1>2, <1>4, <2>1, <2>2, EnterIs
  <2>4. MovesWithin(x)
    BY <1>4, <2>2, <2>3 DEF MovesWithin
  <2>5. Rev \in Nat
    BY <1>1, ExecutionIs
  <2>6. ExecutionSound(x)
    BY <1>2, <1>4, <2>2, <2>3, <2>4, <2>5 DEF ExecutionSound, ItemStages
  <2>7. QED
    BY <2>3, <2>6, ExecutionMoves
<1>5. QED
  BY <1>3, <1>4 DEF Moves

LEMMA BudgetIs ==
    ASSUME RecoveryInv, NEW i \in Nat, BudgetLeft(i)
    PROVE  Cardinality(MovedFor(i)) < MaxAuto
<1>1. moved \subseteq DOMAIN action /\ IsFiniteSet(DOMAIN action)
  BY InvIs DEF Tables, TablesTyped
<1>2. Attempts(i) \subseteq DOMAIN action /\ MovedFor(i) \subseteq Attempts(i)
  BY <1>1 DEF Attempts, MovedFor
<1>3. IsFiniteSet(Attempts(i))
  BY <1>1, <1>2, FS_Subset
<1>4. IsFiniteSet(MovedFor(i)) /\ Cardinality(MovedFor(i)) <= Cardinality(Attempts(i))
  BY <1>2, <1>3, FS_Subset
<1>5. Cardinality(MovedFor(i)) \in Nat /\ Cardinality(Attempts(i)) \in Nat /\ MaxAuto \in Nat
  BY <1>3, <1>4, FS_CardinalityType, RecoveryAssumption
<1>6. QED
  BY <1>4, <1>5 DEF BudgetLeft

LEMMA PlanKeeps ==
    ASSUME RecoveryInv, NEW w \in Workers, Plan(w)
    PROVE  RecoveryInv'
<1>1. At(w, "plan") /\ ~At(w, "idle") /\ UNCHANGED <<source, ours, acts, faults>>
  BY DEF Plan, At
<1>2. /\ Tables /\ run[w] \in Execution /\ run[w].v \in 1..Rev /\ faults \in 0..MaxFaults
      /\ run[w].inc \in Nat
  BY <1>1, ExecutionIs DEF Execution
<1>3. PICK i \in Nat : i = run[w].inc
  BY <1>2
<1>4. PICK v \in 1..Rev : v = run[w].v
  BY <1>2
<1>5. PICK again : again = Tried(i, v)
  OBVIOUS
<1>6. PICK new : new = NewAttempt(i, v)
  OBVIOUS
<1>7. again \subseteq Within(v) /\ \A r \in again : Key(i, r, v) \in DOMAIN action
  BY <1>5 DEF Tried
<1>8. new \subseteq Within(v) /\ (new # {} => BudgetLeft(i))
  <2>1. Within(v) \subseteq Reservations
    BY DEF Within
  <2>2. CASE Within(v) \ Tried(i, v) # {} /\ BudgetLeft(i)
    <3>1. First(Within(v) \ Tried(i, v)) \in Within(v) \ Tried(i, v)
      BY <2>1, <2>2, FirstIs
    <3>2. QED
      BY <1>6, <2>2, <3>1 DEF NewAttempt
  <2>3. CASE ~(Within(v) \ Tried(i, v) # {} /\ BudgetLeft(i))
    BY <1>6, <2>3 DEF NewAttempt
  <2>4. QED
    BY <2>2, <2>3
<1>9. ASSUME NEW r \in again \cup new PROVE r \in Within(v) /\ Allowed(Key(i, r, v))
  <2>1. CASE r \in again
    BY <1>2, <1>7, <2>1 DEF Tables, BudgetSound
  <2>2. CASE r \in new
    <3>1. Cardinality(MovedFor(i)) < MaxAuto
      BY <1>8, <2>2, BudgetIs
    <3>2. QED
      BY <1>8, <2>2, <3>1 DEF Allowed, Key
  <2>3. QED
    BY <2>1, <2>2
<1>10. again \in SUBSET Reservations /\ new \in SUBSET Reservations
  BY <1>7, <1>8 DEF Within
<1>11. Moves(w, again, new)
  BY <1>3, <1>4, <1>5, <1>6 DEF Plan
<1>12. run[w].pc \in {"plan"} \cup ItemStages
  BY <1>1 DEF At
<1>13. UNCHANGED <<truth, work, ours, moved>> /\ SameKeys /\ faults' \in 0..MaxFaults
  BY <1>1, <1>2 DEF source, acts, SameKeys, Tables, TablesTyped
<1>16. NoticesTrue'
  BY <1>1, <1>2, NoticesKept DEF source, acts, ours
<1>14. \A r \in again \cup new : r \in Within(run[w].v) /\ Allowed(Key(run[w].inc, r, run[w].v))
  BY <1>3, <1>4, <1>9
<1>15. QED
  BY <1>10, <1>11, <1>12, <1>13, <1>14, <1>16, MovesKeeps

-----------------------------------------------------------------------------
(* The steps of a planned move *)

\* The item under way.
LEMMA ItemIs ==
    ASSUME RecoveryInv, NEW w \in Workers, run[w].pc \in ItemStages
    PROVE  /\ ~At(w, "idle") /\ Tables /\ run \in [Workers -> Execution]
           /\ run[w] \in Execution /\ ExecutionSound(run[w]) /\ Rev \in Nat \ {0}
           /\ faults \in 0..MaxFaults
           /\ run[w].todo \subseteq Reservations /\ run[w].fresh \subseteq Reservations
           /\ Item(w) \in run[w].todo /\ MovesWithin(run[w])
           /\ run[w].v \in 1..Rev /\ run[w].inc \in DOMAIN incident /\ run[w].inc \in Nat
           /\ This(w) \in ActionKey
<1>1. ~At(w, "idle")
  BY DEF At, ItemStages
<1>2. /\ Tables /\ run \in [Workers -> Execution] /\ run[w] \in Execution
      /\ ExecutionSound(run[w]) /\ Rev \in Nat \ {0} /\ faults \in 0..MaxFaults
  BY <1>1, ExecutionIs DEF Executions
<1>3. run[w].todo \subseteq Reservations /\ run[w].fresh \subseteq Reservations /\ run[w].inc \in Nat
  BY <1>2 DEF Execution
<1>4. run[w].todo # {} /\ MovesWithin(run[w]) /\ run[w].v \in 1..Rev /\ run[w].inc \in DOMAIN incident
  BY <1>2 DEF ExecutionSound
<1>5. Item(w) \in run[w].todo
  BY <1>3, <1>4, FirstIs DEF Item
<1>6. This(w) \in ActionKey
  BY <1>2, <1>3, <1>4, <1>5 DEF This, Key, ActionKey
<1>7. QED
  BY <1>1, <1>2, <1>3, <1>4, <1>5, <1>6

LEMMA NextItemKeeps ==
    ASSUME RecoveryInv, NEW w \in Workers, run[w].pc \in ItemStages, NextItem(w),
           UNCHANGED <<truth, work, ours, moved>>, SameKeys, NoticesTrue', faults' \in 0..MaxFaults
    PROVE  RecoveryInv'
<1>1. /\ run[w].todo \subseteq Reservations /\ run[w].fresh \subseteq Reservations
      /\ MovesWithin(run[w])
  BY ItemIs
<1>2. PICK again \in SUBSET Reservations : again = run[w].todo \ {Item(w)}
  BY <1>1
<1>3. PICK new \in SUBSET Reservations : new = run[w].fresh
  BY <1>1
<1>4. \A r \in again \cup new : r \in Within(run[w].v) /\ Allowed(Key(run[w].inc, r, run[w].v))
  BY <1>1, <1>2, <1>3 DEF MovesWithin
<1>5. Moves(w, again, new)
  BY <1>2, <1>3 DEF NextItem
<1>6. QED
  BY <1>4, <1>5, MovesKeeps

\* The move goes on to stage p.
LEMMA ItemGoesOn ==
    ASSUME RecoveryInv, NEW w \in Workers, run[w].pc \in ItemStages,
           NEW p \in ItemStages, Goto(w, p), p \notin {"lookup"},
           p \notin {"incident", "prepare"} => This(w) \in DOMAIN action,
           p = "upsert" => run[w].seen \in 1..Rev,
           UNCHANGED <<truth, work, ours, moved>>, SameKeys, NoticesTrue', faults' \in 0..MaxFaults
    PROVE  RecoveryInv'
<1>1. /\ run \in [Workers -> Execution] /\ run[w] \in Execution /\ ExecutionSound(run[w])
  BY ItemIs
<1>2. p \in Stages
  BY DEF Stages
<1>3. PICK x \in Execution :
              /\ run' = [run EXCEPT ![w] = x] /\ x.pc = p
              /\ x.v = run[w].v /\ x.tok = run[w].tok /\ x.seen = run[w].seen
              /\ x.offers = run[w].offers /\ x.inc = run[w].inc /\ x.prop = run[w].prop
              /\ x.todo = run[w].todo /\ x.fresh = run[w].fresh /\ x.row = run[w].row
  BY <1>1, <1>2, GotoIs
<1>4. MovesWithin(x)
  BY <1>1, <1>3 DEF ExecutionSound, MovesWithin
<1>5. ExecutionSound(x)
  BY <1>1, <1>3, <1>4 DEF ExecutionSound, ItemStages, This, Item
<1>6. QED
  BY <1>3, <1>5, ExecutionMoves

LEMMA ReadIncidentKeeps ==
    ASSUME RecoveryInv, NEW w \in Workers, ReadIncident(w)
    PROVE  RecoveryInv'
<1>1. run[w].pc \in ItemStages /\ run[w].pc = "incident" /\ UNCHANGED <<source, ours, acts, faults>>
  BY DEF ReadIncident, At, ItemStages
<1>2. /\ Tables /\ run \in [Workers -> Execution] /\ run[w] \in Execution /\ ExecutionSound(run[w])
      /\ faults \in 0..MaxFaults /\ run[w].inc \in DOMAIN incident /\ Rev \in Nat
  BY <1>1, ItemIs
<1>3. incident[run[w].inc] \in Incident /\ incident[run[w].inc].prop <= Rev
  BY <1>2 DEF Tables, TablesTyped
<1>4. PICK x : x = [run[w] EXCEPT !.pc = "prepare", !.row = incident[run[w].inc]]
  OBVIOUS
<1>5. /\ x \in Execution /\ x.pc = "prepare" /\ x.v = run[w].v /\ x.inc = run[w].inc
      /\ x.todo = run[w].todo /\ x.fresh = run[w].fresh /\ x.row.prop <= Rev
  BY <1>2, <1>3, <1>4 DEF Execution, Stages, ItemStages
<1>6. run' = [run EXCEPT ![w] = x]
  BY <1>2, <1>4 DEF ReadIncident
<1>7. MovesWithin(x)
  BY <1>1, <1>2, <1>5 DEF ExecutionSound, MovesWithin
<1>8. ExecutionSound(x)
  BY <1>1, <1>2, <1>5, <1>7 DEF ExecutionSound, ItemStages
<1>9. UNCHANGED <<truth, work, ours, moved>> /\ SameKeys /\ faults' \in 0..MaxFaults
  BY <1>1, <1>2 DEF source, acts, SameKeys, Tables, TablesTyped
<1>10. NoticesTrue'
  BY <1>1, <1>2, NoticesKept DEF acts, ours
<1>11. QED
  BY <1>5, <1>6, <1>8, <1>9, <1>10, ExecutionMoves

LEMMA ReassessKeeps ==
    ASSUME RecoveryInv, NEW w \in Workers, Reassess(w)
    PROVE  RecoveryInv'
<1>1. run[w].pc \in ItemStages /\ run[w].pc = "reassess" /\ UNCHANGED <<source, ours, acts, faults>>
  BY DEF Reassess, At, ItemStages
<1>2. /\ Tables /\ run \in [Workers -> Execution] /\ run[w] \in Execution /\ ExecutionSound(run[w])
      /\ faults \in 0..MaxFaults /\ Rev \in Nat \ {0}
  BY <1>1, ItemIs
<1>4. PICK x : x = [run[w] EXCEPT !.pc = "lookup", !.seen = Rev]
  OBVIOUS
<1>5. /\ x \in Execution /\ x.pc = "lookup" /\ x.v = run[w].v /\ x.inc = run[w].inc /\ x.seen = Rev
      /\ x.todo = run[w].todo /\ x.fresh = run[w].fresh /\ x.row = run[w].row
  BY <1>2, <1>4 DEF Execution, Stages, ItemStages
<1>6. run' = [run EXCEPT ![w] = x]
  BY <1>2, <1>4 DEF Reassess
<1>7. MovesWithin(x)
  BY <1>1, <1>2, <1>5 DEF ExecutionSound, MovesWithin
<1>8. ExecutionSound(x)
  BY <1>1, <1>2, <1>5, <1>7 DEF ExecutionSound, ItemStages
<1>9. UNCHANGED <<truth, work, ours, moved>> /\ SameKeys /\ faults' \in 0..MaxFaults
  BY <1>1, <1>2 DEF source, acts, SameKeys, Tables, TablesTyped
<1>10. NoticesTrue'
  BY <1>1, <1>2, NoticesKept DEF acts, ours
<1>11. QED
  BY <1>5, <1>6, <1>8, <1>9, <1>10, ExecutionMoves

LEMMA LookupKeeps ==
    ASSUME RecoveryInv, NEW w \in Workers, Lookup(w)
    PROVE  RecoveryInv'
<1>1. run[w].pc \in ItemStages /\ run[w].pc = "lookup" /\ UNCHANGED <<source, ours, acts, faults>>
  BY DEF Lookup, At, ItemStages
<1>2. Tables /\ ExecutionSound(run[w]) /\ faults \in 0..MaxFaults
  BY <1>1, ItemIs
<1>3. PICK p \in {"succeed", "upsert"} : Goto(w, p)
  BY DEF Lookup
<1>4. run[w].seen \in 1..Rev /\ This(w) \in DOMAIN action /\ p \in ItemStages /\ p # "lookup"
  BY <1>1, <1>2 DEF ExecutionSound, This, Item, ItemStages
<1>5. UNCHANGED <<truth, work, ours, moved>> /\ SameKeys /\ faults' \in 0..MaxFaults
  BY <1>1, <1>2 DEF source, acts, SameKeys, Tables, TablesTyped
<1>6. NoticesTrue'
  BY <1>1, <1>2, NoticesKept DEF acts, ours
<1>7. QED
  BY <1>1, <1>3, <1>4, <1>5, <1>6, ItemGoesOn

LEMMA NotifyKeeps ==
    ASSUME RecoveryInv, NEW w \in Workers, Notify(w)
    PROVE  RecoveryInv'
<1>1. run[w].pc \in ItemStages /\ NextItem(w) /\ UNCHANGED <<source, ours, action, moved, faults>>
  BY DEF Notify, At, ItemStages
<1>2. Tables /\ faults \in 0..MaxFaults
  BY <1>1, ItemIs
<1>3. UNCHANGED <<truth, work, ours, moved>> /\ SameKeys /\ faults' \in 0..MaxFaults
  BY <1>1, <1>2 DEF source, SameKeys, Tables, TablesTyped
<1>4. NoticesTrue'
  BY <1>1, <1>2 DEF Notify, Notice, Tables, NoticesTrue, ours
<1>5. QED
  BY <1>1, <1>3, <1>4, NextItemKeeps

LEMMA TransitionIs ==
    ASSUME Tables, NEW k, NEW expected, NEW status \in Statuses, Transition(k, expected, status)
    PROVE  SameKeys
BY DEF Tables, TablesTyped, Transition, SameKeys

\* Whatever status the action reaches, the move goes on or is over.
LEMMA TransitionKeeps ==
    ASSUME RecoveryInv, NEW w \in Workers, run[w].pc \in ItemStages \ {"incident", "prepare"},
           SameKeys, UNCHANGED <<source, ours, moved, notices, faults>>,
           \/ NextItem(w)
           \/ \E p \in {"book", "reject", "notify"} : Goto(w, p)
    PROVE  RecoveryInv'
<1>1. Tables /\ ExecutionSound(run[w]) /\ faults \in 0..MaxFaults
  BY ItemIs
<1>2. UNCHANGED <<truth, work, ours, moved>> /\ faults' \in 0..MaxFaults
  BY <1>1 DEF source
<1>3. NoticesTrue'
  BY <1>1, NoticesKept DEF ours
<1>4. CASE NextItem(w)
  BY <1>2, <1>3, <1>4, NextItemKeeps
<1>5. ASSUME NEW p \in {"book", "reject", "notify"}, Goto(w, p) PROVE RecoveryInv'
  <2>1. p \in ItemStages /\ p # "lookup" /\ p # "upsert" /\ This(w) \in DOMAIN action
    BY <1>1 DEF ExecutionSound, This, Item, ItemStages
  <2>2. QED
    BY <1>2, <1>3, <1>5, <2>1, ItemGoesOn
<1>6. QED
  BY <1>4, <1>5

LEMMA AuthorizeKeeps ==
    ASSUME RecoveryInv, NEW w \in Workers, Authorize(w)
    PROVE  RecoveryInv'
<1>1. run[w].pc \in ItemStages \ {"incident", "prepare"} /\ run[w].pc \in ItemStages
  BY DEF Authorize, At, ItemStages
<1>2. Tables
  BY <1>1, ItemIs
<1>3. SameKeys
  BY <1>2, TransitionIs DEF Authorize, Statuses
<1>4. NextItem(w) \/ \E p \in {"book", "reject", "notify"} : Goto(w, p)
  BY DEF Authorize
<1>5. UNCHANGED <<source, ours, moved, notices, faults>>
  BY DEF Authorize
<1>6. QED
  BY <1>1, <1>3, <1>4, <1>5, TransitionKeeps

LEMMA RejectKeeps ==
    ASSUME RecoveryInv, NEW w \in Workers, Reject(w)
    PROVE  RecoveryInv'
<1>1. run[w].pc \in ItemStages \ {"incident", "prepare"} /\ run[w].pc \in ItemStages
  BY DEF Reject, At, ItemStages
<1>2. Tables
  BY <1>1, ItemIs
<1>3. SameKeys
  BY <1>2, TransitionIs DEF Reject, Statuses
<1>4. NextItem(w) /\ UNCHANGED <<source, ours, moved, notices, faults>>
  BY DEF Reject
<1>5. QED
  BY <1>1, <1>3, <1>4, TransitionKeeps

LEMMA SucceedKeeps ==
    ASSUME RecoveryInv, NEW w \in Workers, Succeed(w)
    PROVE  RecoveryInv'
<1>1. run[w].pc \in ItemStages \ {"incident", "prepare"} /\ run[w].pc \in ItemStages
  BY DEF Succeed, At, ItemStages
<1>2. Tables
  BY <1>1, ItemIs
<1>3. SameKeys
  BY <1>2, TransitionIs DEF Succeed, Statuses
<1>4. NextItem(w) \/ \E p \in {"book", "reject", "notify"} : Goto(w, p)
  BY DEF Succeed
<1>5. UNCHANGED <<source, ours, moved, notices, faults>>
  BY DEF Succeed
<1>6. QED
  BY <1>1, <1>3, <1>4, <1>5, TransitionKeeps

\* A new attempt is recorded within the budget.
LEMMA RecordAttemptKeeps ==
    ASSUME RecoveryInv, NEW w \in Workers, At(w, "prepare"), NEW k, k = This(w),
           action' = [x \in DOMAIN action \cup {k} |-> IF x = k THEN "prepared" ELSE action[x]],
           Goto(w, "authorize"), UNCHANGED <<source, ours, moved, notices, faults>>
    PROVE  RecoveryInv'
<1>1. run[w].pc \in ItemStages /\ run[w].pc = "prepare"
  BY DEF At, ItemStages
<1>2. /\ Tables /\ Executions /\ run \in [Workers -> Execution] /\ run[w] \in Execution
      /\ ExecutionSound(run[w]) /\ Rev \in Nat \ {0} /\ k \in ActionKey
      /\ Item(w) \in run[w].todo /\ MovesWithin(run[w]) /\ run[w].v \in 1..Rev
  BY <1>1, ItemIs, InvIs
<1>3. k.rev <= Rev /\ Allowed(k)
  BY <1>2 DEF MovesWithin, This, Key
<1>4. /\ DOMAIN action' = DOMAIN action \cup {k} /\ DOMAIN action' \subseteq ActionKey
      /\ IsFiniteSet(DOMAIN action') /\ action' \in [DOMAIN action' -> Statuses]
      /\ moved \subseteq DOMAIN action'
  BY <1>2, FS_AddElement DEF Tables, TablesTyped, Statuses
<1>5. Rev' = Rev /\ UNCHANGED <<truth, work, proposal, incident, ledger, assessed, moved, notices, faults>>
  BY DEF Rev, source, ours
<1>6. TablesTyped'
  BY <1>2, <1>4, <1>5 DEF Tables, TablesTyped
<1>7. BudgetSound'
  <2>1. ASSUME NEW j \in DOMAIN action' PROVE j.rev <= Rev /\ Allowed(j)
    BY <1>2, <1>3, <1>4 DEF Tables, BudgetSound
  <2>2. QED
    BY <1>2, <1>5, <2>1 DEF Tables, BudgetSound, Allowed, MovedFor
<1>8. LedgerSound' /\ NoticesTrue' /\ NotLost' /\ DOMAIN proposal' \subseteq assessed'
  BY <1>2, <1>5 DEF Tables, LedgerSound, NoticesTrue, NotLost, Impact
<1>9. Tables'
  BY <1>6, <1>7, <1>8 DEF Tables
<1>10. Grows
  BY <1>2, <1>4, <1>5 DEF Grows, OffersOf
<1>11. "authorize" \in Stages
  BY DEF Stages, ItemStages
<1>12. PICK x \in Execution :
              /\ run' = [run EXCEPT ![w] = x] /\ x.pc = "authorize"
              /\ x.v = run[w].v /\ x.tok = run[w].tok /\ x.seen = run[w].seen
              /\ x.offers = run[w].offers /\ x.inc = run[w].inc /\ x.prop = run[w].prop
              /\ x.todo = run[w].todo /\ x.fresh = run[w].fresh /\ x.row = run[w].row
  BY <1>2, <1>11, GotoIs
<1>13. PICK y \in Execution : y = run[w]
  BY <1>2
<1>14. ExecutionSound(y)'
  BY <1>2, <1>9, <1>10, <1>13, ExecutionKept
<1>15. MovesWithin(x)'
  BY <1>1, <1>12, <1>13, <1>14 DEF ExecutionSound, MovesWithin
<1>16. Key(x.inc, First(x.todo), x.v) \in DOMAIN action'
  BY <1>4, <1>12 DEF This, Item
<1>17. ExecutionSound(x)'
  BY <1>1, <1>12, <1>13, <1>14, <1>15, <1>16 DEF ExecutionSound, ItemStages
<1>18. Executions'
  BY <1>2, <1>9, <1>10, <1>12, <1>17, ExecutionsKept
<1>19. Tables' /\ Executions' => RecoveryInv'
  BY InvIs, PTL
<1>20. QED
  BY <1>9, <1>18, <1>19

LEMMA PrepareActionKeeps ==
    ASSUME RecoveryInv, NEW w \in Workers, PrepareAction(w)
    PROVE  RecoveryInv'
<1>1. PICK k : k = This(w)
  OBVIOUS
<1>2. At(w, "prepare") /\ UNCHANGED <<source, ours, moved, notices, faults>>
  BY DEF PrepareAction
<1>3. CASE k \notin DOMAIN action
  BY <1>1, <1>2, <1>3, RecordAttemptKeeps DEF PrepareAction
<1>4. CASE k \in DOMAIN action
  <2>1. PICK p \in {"authorize", "book", "notify"} : Goto(w, p)
    BY <1>1, <1>4 DEF PrepareAction
  <2>2. run[w].pc \in ItemStages /\ p \in ItemStages /\ p # "lookup" /\ p # "upsert"
    BY <1>2 DEF At, ItemStages
  <2>3. Tables /\ faults \in 0..MaxFaults
    BY <2>2, ItemIs
  <2>4. UNCHANGED <<truth, work, ours, moved>> /\ SameKeys /\ faults' \in 0..MaxFaults
    BY <1>1, <1>2, <1>4, <2>3 DEF PrepareAction, source, SameKeys, Tables, TablesTyped
  <2>5. NoticesTrue'
    BY <1>2, <2>3, NoticesKept DEF ours
  <2>6. QED
    BY <1>1, <1>4, <2>1, <2>2, <2>4, <2>5, ItemGoesOn
<1>5. QED
  BY <1>3, <1>4

-----------------------------------------------------------------------------
(* The incident is written without a fence *)

LEMMA UpsertKeeps ==
    ASSUME RecoveryInv, NEW w \in Workers, Upsert(w)
    PROVE  RecoveryInv'
<1>1. run[w].pc \in ItemStages /\ run[w].pc = "upsert" /\ ~At(w, "idle")
      /\ UNCHANGED <<truth, proposal, ledger, assessed, acts, faults>>
  BY DEF Upsert, At, ItemStages
<1>2. /\ Tables /\ Executions /\ run \in [Workers -> Execution] /\ run[w] \in Execution
      /\ ExecutionSound(run[w]) /\ faults \in 0..MaxFaults /\ Rev \in Nat \ {0}
  BY <1>1, ItemIs, InvIs
<1>3. CASE Failed(w) /\ UNCHANGED incident
  <2>1. UNCHANGED <<truth, ours, acts>> /\ faults' \in 0..MaxFaults
    BY <1>1, <1>2, <1>3 DEF ours
  <2>2. QED
    BY <1>1, <1>3, <2>1, FailedKeeps
<1>4. CASE /\ incident' = Upserted(Row(truth[run[w].seen], run[w].seen, run[w].row.prop))
           /\ Goto(w, "succeed") /\ UNCHANGED work
  <2>1. PICK row : row = Row(truth[run[w].seen], run[w].seen, run[w].row.prop)
    OBVIOUS
  <2>2. /\ run[w].seen \in 1..Rev /\ run[w].row.prop \in 0..Rev /\ truth[run[w].seen] \in Truths
    <3>1. run[w].seen \in 1..Rev /\ run[w].row.prop <= Rev
      BY <1>1, <1>2 DEF ExecutionSound
    <3>2. run[w].row.prop \in Nat
      BY <1>2 DEF Execution, Incident
    <3>3. truth \in Seq(Truths)
      BY <1>2 DEF Tables, TablesTyped
    <3>4. QED
      BY <1>2, <3>1, <3>2, <3>3 DEF Rev
  <2>3. row \in Incident /\ row.rev \in 1..Rev /\ row.prop \in 0..Rev
    BY <1>2, <2>1, <2>2, RowIs
  <2>4. incident \in Seq(Incident)
    BY <1>2 DEF Tables, TablesTyped
  <2>5. /\ incident' \in Seq(Incident) /\ DOMAIN incident \subseteq DOMAIN incident'
        /\ \A i \in DOMAIN incident' :
              incident'[i] = row \/ (i \in DOMAIN incident /\ incident'[i] = incident[i])
    BY <1>4, <2>1, <2>3, <2>4, UpsertedIs
  <2>6. Rev' = Rev /\ UNCHANGED <<truth, work, proposal, ledger, assessed, action, moved, notices, faults>>
    BY <1>1, <1>4 DEF Rev, acts
  <2>7. \A i \in DOMAIN incident' : incident'[i].rev \in 1..Rev /\ incident'[i].prop \in 0..Rev
    BY <1>2, <2>3, <2>5 DEF Tables, TablesTyped
  <2>8. TablesTyped'
    BY <1>2, <2>5, <2>6, <2>7 DEF Tables, TablesTyped
  <2>9. /\ LedgerSound' /\ NoticesTrue' /\ NotLost' /\ BudgetSound'
        /\ DOMAIN proposal' \subseteq assessed'
    BY <1>2, <2>6 DEF Tables, LedgerSound, NoticesTrue, NotLost, BudgetSound, Impact, Allowed, MovedFor
  <2>10. Tables'
    BY <2>8, <2>9 DEF Tables
  <2>11. Grows
    BY <1>2, <2>5, <2>6 DEF Grows, OffersOf
  <2>12. "succeed" \in Stages
    BY DEF Stages, ItemStages
  <2>13. PICK x \in Execution :
              /\ run' = [run EXCEPT ![w] = x] /\ x.pc = "succeed"
              /\ x.v = run[w].v /\ x.tok = run[w].tok /\ x.seen = run[w].seen
              /\ x.offers = run[w].offers /\ x.inc = run[w].inc /\ x.prop = run[w].prop
              /\ x.todo = run[w].todo /\ x.fresh = run[w].fresh /\ x.row = run[w].row
    BY <1>2, <1>4, <2>12, GotoIs
  <2>14. ExecutionSound(x)
    <3>1. MovesWithin(x)
      BY <1>1, <1>2, <2>13 DEF ExecutionSound, MovesWithin
    <3>2. QED
      BY <1>1, <1>2, <2>13, <3>1 DEF ExecutionSound, ItemStages
  <2>15. ExecutionSound(x)'
    BY <1>2, <2>10, <2>11, <2>14, ExecutionKept
  <2>16. Executions'
    BY <1>2, <2>10, <2>11, <2>13, <2>15, ExecutionsKept
  <2>17. Tables' /\ Executions' => RecoveryInv'
    BY InvIs, PTL
  <2>18. QED
    BY <2>10, <2>16, <2>17
<1>5. QED
  BY <1>3, <1>4 DEF Upsert

-----------------------------------------------------------------------------
(* The source moves on, alone or with a reservation *)

LEMMA BumpIs ==
    ASSUME Tables, NEW t \in Truths, Bump(t)
    PROVE  /\ truth' \in Seq(Truths) /\ Rev' = Rev + 1 /\ Rev' \in 1..MaxRev /\ Rev \in Nat \ {0}
           /\ \A v \in 1..Rev : truth'[v] = truth[v]
           /\ work' \in [1..Rev' -> Work] /\ work'[Rev'].st = "pending"
<1>1. truth \in Seq(Truths) /\ Rev \in 1..MaxRev /\ MaxRev \in Nat /\ work \in [1..Rev -> Work]
  BY RecoveryAssumption DEF Tables, TablesTyped
<1>2. truth' = Append(truth, t) /\ Rev < MaxRev
  BY DEF Bump
<1>3. /\ truth' \in Seq(Truths) /\ Rev' = Rev + 1 /\ Rev' \in 1..MaxRev
      /\ \A v \in 1..Rev : truth'[v] = truth[v]
  BY <1>1, <1>2 DEF Rev
<1>4. ASSUME NEW a \in Work PROVE Superseded(a) \in Work
  BY DEF Superseded, Work
<1>5. [st |-> "pending", tries |-> 0] \in Work
  BY RecoveryAssumption DEF Work
<1>6. work' = [v \in 1..Rev + 1 |-> IF v > Rev THEN [st |-> "pending", tries |-> 0]
                                   ELSE Superseded(work[v])]
  BY DEF Bump, Schedule
<1>7. work' \in [1..Rev' -> Work]
  BY <1>1, <1>3, <1>4, <1>5, <1>6
<1>8. work'[Rev'].st = "pending"
  BY <1>1, <1>3, <1>6
<1>9. QED
  BY <1>1, <1>3, <1>7, <1>8

\* Nothing of the new revision exists yet.
LEMMA BumpTables ==
    ASSUME Tables, NEW t \in Truths, Bump(t), UNCHANGED <<ours, action, notices, faults>>,
           \/ moved' = moved
           \/ \E k \in DOMAIN action : /\ k \notin moved /\ k.rev = Rev /\ Allowed(k)
                                       /\ moved' = moved \cup {k}
    PROVE  Tables' /\ Grows
<1>1. /\ truth' \in Seq(Truths) /\ Rev' = Rev + 1 /\ Rev' \in 1..MaxRev /\ Rev \in Nat \ {0}
      /\ \A v \in 1..Rev : truth'[v] = truth[v]
      /\ work' \in [1..Rev' -> Work] /\ work'[Rev'].st = "pending"
  BY BumpIs
<1>2. UNCHANGED <<proposal, incident, ledger, assessed, action, notices, faults>>
  BY DEF ours
<1>3. TablesTyped /\ LedgerSound /\ NoticesTrue /\ BudgetSound /\ DOMAIN proposal \subseteq assessed
  BY DEF Tables
<1>4. TablesTyped'
  <2>1. \A v \in DOMAIN proposal : \A p \in proposal[v] :
          p.res \in truth'[v].affected /\ p.target \in Offers
    BY <1>1, <1>3 DEF TablesTyped
  <2>2. \A i \in DOMAIN incident : incident[i].rev \in 1..Rev' /\ incident[i].prop \in 0..Rev'
    BY <1>1, <1>3 DEF TablesTyped
  <2>3. DOMAIN proposal \subseteq 1..Rev' /\ assessed \subseteq 1..Rev' /\ moved' \subseteq DOMAIN action
    BY <1>1, <1>3 DEF TablesTyped
  <2>4. QED
    BY <1>1, <1>2, <1>3, <2>1, <2>2, <2>3 DEF TablesTyped
<1>5. NotLost'
  BY <1>1 DEF NotLost
<1>6. LedgerSound'
  BY <1>1, <1>2, <1>3 DEF LedgerSound, Impact
<1>7. NoticesTrue'
  BY <1>2, <1>3 DEF NoticesTrue
<1>8. BudgetSound'
  <2>1. \A k \in DOMAIN action' : k.rev \in Nat /\ k.rev <= Rev /\ k.rev <= Rev' /\ Allowed(k)'
    BY <1>1, <1>2, <1>3 DEF BudgetSound, Allowed, TablesTyped, ActionKey
  <2>2. CASE moved' = moved
    BY <1>1, <1>2, <1>3, <2>1, <2>2 DEF BudgetSound, MovedFor, TablesTyped
  <2>3. ASSUME NEW k \in DOMAIN action, k \notin moved, k.rev = Rev, Allowed(k), moved' = moved \cup {k}
        PROVE  BudgetSound'
    <3>1. Cardinality(MovedFor(k.inc)) < MaxAuto /\ MaxAuto \in Nat
      BY <2>3, RecoveryAssumption DEF Allowed
    <3>2. MovedFor(k.inc) \subseteq DOMAIN action /\ k \notin MovedFor(k.inc)
      BY <1>3, <2>3 DEF MovedFor, TablesTyped
    <3>3. IsFiniteSet(MovedFor(k.inc))
      BY <1>3, <3>2, FS_Subset DEF TablesTyped
    <3>4. Cardinality(MovedFor(k.inc) \cup {k}) = Cardinality(MovedFor(k.inc)) + 1
      BY <3>2, <3>3, FS_AddElement
    <3>5. Cardinality(MovedFor(k.inc)) \in Nat
      BY <3>3, FS_CardinalityType
    <3>6. ASSUME NEW j \in moved' PROVE j.rev < Rev' /\ Cardinality(MovedFor(j.inc)') <= MaxAuto
      <4>1. j.rev < Rev'
        BY <1>1, <1>2, <1>3, <2>1, <2>3 DEF BudgetSound, TablesTyped
      <4>2. CASE j.inc = k.inc
        <5>1. MovedFor(j.inc)' = MovedFor(k.inc) \cup {k}
          BY <2>3, <4>2 DEF MovedFor
        <5>2. QED
          BY <3>1, <3>4, <3>5, <4>1, <5>1
      <4>3. CASE j.inc # k.inc
        <5>1. MovedFor(j.inc)' = MovedFor(j.inc) /\ j \in moved
          BY <2>3, <4>3 DEF MovedFor
        <5>2. QED
          BY <1>3, <4>1, <5>1 DEF BudgetSound
      <4>4. QED
        BY <4>2, <4>3
    <3>7. QED
      BY <2>1, <3>6 DEF BudgetSound
  <2>4. QED
    BY <2>2, <2>3
<1>9. Grows
  BY <1>1, <1>2 DEF Grows, OffersOf
<1>10. QED
  BY <1>2, <1>3, <1>4, <1>5, <1>6, <1>7, <1>8, <1>9 DEF Tables

LEMMA SourceChangesKeeps ==
    ASSUME RecoveryInv, SourceChanges
    PROVE  RecoveryInv'
<1>1. Tables /\ Executions
  BY InvIs
<1>2. PICK t \in Truths : Bump(t)
  BY DEF SourceChanges
<1>3. UNCHANGED <<ours, action, notices, faults>> /\ moved' = moved /\ run' = run
  BY DEF SourceChanges, acts
<1>4. Tables' /\ Grows
  BY <1>1, <1>2, <1>3, BumpTables
<1>5. Executions'
  BY <1>1, <1>3, <1>4, AllExecutionsKept
<1>6. Tables' /\ Executions' => RecoveryInv'
  BY InvIs, PTL
<1>7. QED
  BY <1>4, <1>5, <1>6

\* Booking moves the reservation of a current, allowed action, and with it the
\* revision.
LEMMA MoveKeeps ==
    ASSUME RecoveryInv, NEW w \in Workers, At(w, "book"), NEW k, k = This(w), k \notin moved,
           SourceUnchanged(k.rev), moved' = moved \cup {k}, NEW t \in Truths, Bump(t),
           Goto(w, "reassess"), UNCHANGED <<ours, action, notices, faults>>
    PROVE  RecoveryInv'
<1>1. run[w].pc \in ItemStages /\ run[w].pc = "book"
  BY DEF At, ItemStages
<1>2. /\ Tables /\ Executions /\ run \in [Workers -> Execution] /\ run[w] \in Execution
      /\ ExecutionSound(run[w]) /\ Rev \in Nat \ {0}
      /\ Item(w) \in run[w].todo /\ MovesWithin(run[w])
  BY <1>1, ItemIs, InvIs
<1>3. k \in DOMAIN action /\ k.rev = Rev /\ Allowed(k)
  BY <1>1, <1>2 DEF ExecutionSound, MovesWithin, This, Item, SourceUnchanged
<1>4. Tables' /\ Grows
  BY <1>2, <1>3, BumpTables
<1>5. "reassess" \in Stages
  BY DEF Stages, ItemStages
<1>6. PICK x \in Execution :
              /\ run' = [run EXCEPT ![w] = x] /\ x.pc = "reassess"
              /\ x.v = run[w].v /\ x.tok = run[w].tok /\ x.seen = run[w].seen
              /\ x.offers = run[w].offers /\ x.inc = run[w].inc /\ x.prop = run[w].prop
              /\ x.todo = run[w].todo /\ x.fresh = run[w].fresh /\ x.row = run[w].row
  BY <1>2, <1>5, GotoIs
<1>7. ExecutionSound(x)
  <2>1. MovesWithin(x)
    BY <1>1, <1>2, <1>6 DEF ExecutionSound, MovesWithin
  <2>2. QED
    BY <1>1, <1>2, <1>6, <2>1 DEF ExecutionSound, ItemStages
<1>8. ExecutionSound(x)'
  BY <1>2, <1>4, <1>7, ExecutionKept
<1>9. Executions'
  BY <1>2, <1>4, <1>6, <1>8, ExecutionsKept
<1>10. Tables' /\ Executions' => RecoveryInv'
  BY InvIs, PTL
<1>11. QED
  BY <1>4, <1>9, <1>10

LEMMA BookKeeps ==
    ASSUME RecoveryInv, NEW w \in Workers, Book(w)
    PROVE  RecoveryInv'
<1>1. PICK k : k = This(w)
  OBVIOUS
<1>2. At(w, "book") /\ UNCHANGED <<ours, action, notices, faults>>
  BY DEF Book
<1>3. CASE /\ k \notin moved /\ SourceUnchanged(k.rev) /\ moved' = moved \cup {k}
           /\ \E t \in Truths : Bump(t)
           /\ Goto(w, "reassess")
  BY <1>1, <1>2, <1>3, MoveKeeps
<1>4. CASE UNCHANGED <<source, moved>> /\ \E p \in {"reassess", "reject"} : Goto(w, p)
  <2>1. PICK p \in {"reassess", "reject"} : Goto(w, p)
    BY <1>4
  <2>2. run[w].pc \in ItemStages /\ p \in ItemStages /\ p # "lookup" /\ p # "upsert"
    BY <1>2 DEF At, ItemStages
  <2>3. Tables /\ faults \in 0..MaxFaults /\ ExecutionSound(run[w])
    BY <2>2, ItemIs
  <2>4. This(w) \in DOMAIN action
    BY <1>2, <2>3 DEF ExecutionSound, This, Item, At, ItemStages
  <2>5. UNCHANGED <<truth, work, ours, moved>> /\ SameKeys /\ faults' \in 0..MaxFaults
    BY <1>2, <1>4, <2>3 DEF source, SameKeys, Tables, TablesTyped
  <2>6. NoticesTrue'
    BY <1>2, <2>3, NoticesKept DEF ours
  <2>7. QED
    BY <2>1, <2>2, <2>4, <2>5, <2>6, ItemGoesOn
<1>5. QED
  BY <1>1, <1>3, <1>4 DEF Book

-----------------------------------------------------------------------------
(* The commit and the impact notices *)

\* What a committed execution goes on with, in the state after the commit.
LEMMA ContinueIs ==
    ASSUME NEW w \in Workers, run[w] \in Execution, NEW i \in Nat, NEW p \in Nat,
           NEW recipients \in SUBSET Reservations, Continue(w, i, p, recipients)
    PROVE  \E x \in Execution :
              /\ run' = [run EXCEPT ![w] = x] /\ x.v = run[w].v
              /\ \/ x.pc = "settle"
                 \/ x.pc = "plan" /\ x.inc = i /\ recipients = {} /\ p # 0
                 \/ x.pc = "impact" /\ x.inc = i /\ x.todo = recipients /\ recipients # {}
<1>1. "impact" \in Stages /\ "plan" \in Stages
  BY DEF Stages
<1>2. CASE recipients # {} /\ Enter(w, "impact", i, p, recipients, {})
  BY <1>1, <1>2, EnterIs
<1>3. CASE recipients = {} /\ p # 0 /\ Enter(w, "plan", i, 0, {}, {})
  BY <1>1, <1>3, EnterIs
<1>4. CASE Done(w)
  BY <1>4, DoneIs
<1>5. QED
  BY <1>2, <1>3, <1>4 DEF Continue

LEMMA CommunicateImpactKeeps ==
    ASSUME RecoveryInv, NEW w \in Workers, CommunicateImpact(w)
    PROVE  RecoveryInv'
<1>1. run[w].pc = "impact" /\ ~At(w, "idle") /\ UNCHANGED <<source, ours, action, moved, faults>>
  BY DEF CommunicateImpact, At
<1>2. Tables /\ run[w] \in Execution /\ ExecutionSound(run[w]) /\ faults \in 0..MaxFaults
  BY <1>1, ExecutionIs
<1>3. /\ run[w].todo \subseteq Reservations /\ run[w].inc \in Nat /\ run[w].prop \in Nat
      /\ run[w].todo # {} /\ TellsTruth(run[w]) /\ run[w].inc \in DOMAIN incident
      /\ run[w].v \in 1..Rev /\ (run[w].v = Rev => Rev \in assessed)
  BY <1>1, <1>2 DEF ExecutionSound, Execution
<1>4. First(run[w].todo) \in run[w].todo
  BY <1>3, FirstIs
<1>5. PICK e \in ledger : e.inc = run[w].inc /\ e.rev = run[w].v /\ run[w].todo \subseteq e.impact
  BY <1>3 DEF TellsTruth
<1>6. NoticesTrue'
  <2>1. PICK n : n = Notice("impact", run[w].inc, First(run[w].todo), run[w].v)
    OBVIOUS
  <2>2. n.inc = e.inc /\ n.rev = e.rev /\ n.res \in e.impact
    BY <1>4, <1>5, <2>1 DEF Notice
  <2>3. notices' = notices \cup {n} /\ ledger' = ledger
    BY <1>1, <2>1 DEF CommunicateImpact, ours
  <2>4. QED
    BY <1>2, <2>2, <2>3 DEF Tables, NoticesTrue
<1>7. PICK R \in SUBSET Reservations : R = run[w].todo \ {First(run[w].todo)}
  BY <1>3
<1>8. PICK i \in Nat : i = run[w].inc
  BY <1>3
<1>9. PICK p \in Nat : p = run[w].prop
  BY <1>3
<1>10. Continue(w, i, p, R)
  BY <1>7, <1>8, <1>9 DEF CommunicateImpact
<1>11. PICK x \in Execution :
              /\ run' = [run EXCEPT ![w] = x] /\ x.v = run[w].v
              /\ \/ x.pc = "settle"
                 \/ x.pc = "plan" /\ x.inc = i /\ R = {} /\ p # 0
                 \/ x.pc = "impact" /\ x.inc = i /\ x.todo = R /\ R # {}
  BY <1>2, <1>10, ContinueIs
<1>12. x.pc = "impact" => TellsTruth(x)
  BY <1>5, <1>7, <1>8, <1>11 DEF TellsTruth
<1>13. ExecutionSound(x)
  BY <1>3, <1>8, <1>11, <1>12 DEF ExecutionSound, ItemStages
<1>14. UNCHANGED <<truth, work, ours, moved>> /\ SameKeys /\ faults' \in 0..MaxFaults
  BY <1>1, <1>2 DEF source, SameKeys, Tables, TablesTyped
<1>15. QED
  BY <1>6, <1>11, <1>13, <1>14, ExecutionMoves

\* A verdict of the current revision v is committed: what is written names v.
LEMMA CommitTables ==
    ASSUME Tables, UNCHANGED <<truth, work, acts, faults>>, NEW v \in 1..Rev,
           assessed' = assessed \cup {v},
           \/ ledger' = ledger
           \/ \E e : e.rev = v /\ e.impact = Impact(truth[v]) /\ ledger' = ledger \cup {e},
           \/ proposal' = proposal
           \/ \E O : /\ \A p \in O : p.res \in truth[v].affected /\ p.target \in Offers
                     /\ proposal' = Proposed(v, O),
           \/ incident' = incident
           \/ \E row \in Incident : /\ row.rev \in 1..Rev /\ row.prop \in 0..Rev
                                    /\ incident' = Upserted(row)
    PROVE  Tables' /\ Grows
<1>1. TablesTyped /\ NotLost /\ NoticesTrue /\ LedgerSound /\ BudgetSound /\ DOMAIN proposal \subseteq assessed
  BY DEF Tables
<1>2. Rev' = Rev /\ Rev \in Nat /\ UNCHANGED <<truth, work, action, moved, notices, faults>>
  BY <1>1 DEF Rev, acts, TablesTyped
<1>3. /\ DOMAIN proposal \subseteq DOMAIN proposal' /\ DOMAIN proposal' \subseteq DOMAIN proposal \cup {v}
      /\ \A u \in DOMAIN proposal : proposal'[u] = proposal[u]
      /\ \A u \in DOMAIN proposal' : \A p \in proposal'[u] :
            p.res \in truth[u].affected /\ p.target \in Offers
  BY <1>1 DEF TablesTyped, Proposed
<1>4. /\ incident' \in Seq(Incident) /\ DOMAIN incident \subseteq DOMAIN incident'
      /\ \A i \in DOMAIN incident' : incident'[i].rev \in 1..Rev /\ incident'[i].prop \in 0..Rev
  <2>1. incident \in Seq(Incident)
    BY <1>1 DEF TablesTyped
  <2>2. CASE incident' = incident
    BY <1>1, <2>2 DEF TablesTyped
  <2>3. ASSUME NEW row \in Incident, row.rev \in 1..Rev, row.prop \in 0..Rev, incident' = Upserted(row)
        PROVE  <1>4!1 /\ <1>4!2
    <3>1. /\ incident' \in Seq(Incident) /\ DOMAIN incident \subseteq DOMAIN incident'
          /\ \A i \in DOMAIN incident' :
                incident'[i] = row \/ (i \in DOMAIN incident /\ incident'[i] = incident[i])
      BY <2>1, <2>3, UpsertedIs
    <3>2. QED
      BY <1>1, <2>3, <3>1 DEF TablesTyped
  <2>4. QED
    BY <2>2, <2>3
<1>5. TablesTyped'
  BY <1>1, <1>2, <1>3, <1>4 DEF TablesTyped
<1>6. NotLost' /\ BudgetSound' /\ DOMAIN proposal' \subseteq assessed'
  BY <1>1, <1>2, <1>3 DEF NotLost, BudgetSound, Allowed, MovedFor
<1>7. LedgerSound' /\ ledger \subseteq ledger'
  BY <1>1, <1>2 DEF LedgerSound, Impact
<1>8. NoticesTrue'
  BY <1>1, <1>2, <1>7 DEF NoticesTrue
<1>9. Grows
  BY <1>1, <1>2, <1>3, <1>4, <1>7 DEF Grows, OffersOf
<1>10. QED
  BY <1>5, <1>6, <1>7, <1>8, <1>9 DEF Tables

\* The committed execution goes on.
LEMMA CommittedGoesOn ==
    ASSUME RecoveryInv, NEW w \in Workers, ~At(w, "idle"), Tables', Grows, Rev' = Rev,
           run[w].v \in assessed', NEW i \in Nat, NEW p \in Nat,
           NEW R \in SUBSET Reservations, Continue(w, i, p, R) \/ Done(w),
           R # {} \/ p # 0 => Continue(w, i, p, R) /\ i \in DOMAIN incident',
           R # {} => \E e \in ledger' : e.inc = i /\ e.rev = run[w].v /\ R \subseteq e.impact
    PROVE  RecoveryInv'
<1>1. Tables /\ Executions /\ run[w] \in Execution /\ run[w].v \in 1..Rev
  BY ExecutionIs
<1>2. PICK x \in Execution :
              /\ run' = [run EXCEPT ![w] = x] /\ x.v = run[w].v
              /\ \/ x.pc = "settle"
                 \/ x.pc = "plan" /\ x.inc = i /\ R = {} /\ p # 0
                 \/ x.pc = "impact" /\ x.inc = i /\ x.todo = R /\ R # {}
  BY <1>1, ContinueIs, DoneIs
<1>3. x.pc = "impact" => TellsTruth(x)'
  BY <1>2 DEF TellsTruth
<1>4. ExecutionSound(x)'
  BY <1>1, <1>2, <1>3 DEF ExecutionSound, ItemStages
<1>5. Executions'
  BY <1>1, <1>2, <1>4, ExecutionsKept
<1>6. Tables' /\ Executions' => RecoveryInv'
  BY InvIs, PTL
<1>7. QED
  BY <1>5, <1>6

\* The fence makes the assessed revision the claimed and the current one.
LEMMA FenceIs ==
    ASSUME RecoveryInv, NEW w \in Workers, At(w, "commit")
    PROVE  /\ run[w].v \in 1..Rev /\ run[w].seen \in run[w].v..Rev /\ Rev \in Nat
           /\ Fresh(w) <=> run[w].v = Rev
           /\ Fresh(w) => /\ run[w].seen = run[w].v /\ truth[run[w].v] \in Truths
                          /\ \A p \in run[w].offers :
                                p.res \in truth[run[w].v].affected /\ p.target \in Offers
<1>1. ~At(w, "idle") /\ run[w].pc = "commit"
  BY DEF At
<1>2. run[w] \in Execution /\ ExecutionSound(run[w]) /\ Rev \in Nat /\ truth[Rev] \in Truths
  BY <1>1, ExecutionIs
<1>3. run[w].v \in 1..Rev /\ run[w].seen \in run[w].v..Rev
  BY <1>1, <1>2 DEF ExecutionSound
<1>4. Fresh(w) <=> run[w].v = Rev
  BY <1>2, <1>3 DEF Fresh
<1>5. \A p \in run[w].offers : p.res \in truth[run[w].seen].affected /\ p.target \in Offers
  BY <1>1, <1>2 DEF ExecutionSound, Execution
<1>6. QED
  BY <1>2, <1>3, <1>4, <1>5 DEF Fresh

LEMMA CommitKeeps ==
    ASSUME RecoveryInv, NEW w \in Workers, Commit(w)
    PROVE  RecoveryInv'
<1>1. At(w, "commit") /\ ~At(w, "idle") /\ UNCHANGED <<truth, acts, faults>>
  BY DEF Commit, At
<1>2. /\ Tables /\ run[w] \in Execution /\ faults \in 0..MaxFaults /\ Rev \in Nat \ {0}
      /\ faults' \in 0..MaxFaults
  BY <1>1, ExecutionIs
<1>3. /\ run[w].v \in 1..Rev
      /\ Fresh(w) <=> run[w].v = Rev
      /\ Fresh(w) => /\ run[w].seen = run[w].v /\ truth[run[w].v] \in Truths
                     /\ \A p \in run[w].offers :
                           p.res \in truth[run[w].v].affected /\ p.target \in Offers
  BY <1>1, FenceIs
<1>4. SameKeys /\ UNCHANGED <<moved, notices>>
  BY <1>1, <1>2 DEF SameKeys, acts, Tables, TablesTyped
<1>5. PICK v \in 1..Rev : v = run[w].v
  BY <1>3
<1>6. PICK t : t = truth[run[w].seen]
  OBVIOUS
<1>7. PICK i \in Nat : i = OpenIncident
  BY <1>2, OpenIncidentIs DEF Tables, TablesTyped
<1>8. Fresh(w) => t = truth[v] /\ t \in Truths
  BY <1>3, <1>5, <1>6
<1>9. PICK target : target = IF i = 0 THEN Len(incident) + 1 ELSE i
  OBVIOUS
<1>10. CASE Stop(w) /\ UNCHANGED <<work, ours>>
  <2>1. PICK st \in {"pending", "completed", "dead"} : st = "pending"
    OBVIOUS
  <2>2. QED
    BY <1>1, <1>2, <1>10, <2>1, EndKeeps
<1>11. CASE ~Fresh(w) /\ Done(w) /\ UNCHANGED <<work, ours>>
  <2>1. NoticesTrue'
    BY <1>2, <1>4, <1>11, NoticesKept DEF ours
  <2>2. QED
    BY <1>1, <1>2, <1>3, <1>4, <1>11, <2>1, DoneKeeps
<1>12. CASE Fresh(w) /\ AlreadyCommitted(v) /\ Continue(w, i, v, {}) /\ UNCHANGED <<work, ours>>
  <2>1. NoticesTrue'
    BY <1>2, <1>4, <1>12, NoticesKept DEF ours
  <2>2. v \in assessed /\ i \in DOMAIN incident
    BY <1>2, <1>7, <1>12, OpenIncidentIs DEF AlreadyCommitted, Tables
  <2>3. PICK x \in Execution :
              /\ run' = [run EXCEPT ![w] = x] /\ x.v = run[w].v
              /\ x.pc = "settle" \/ (x.pc = "plan" /\ x.inc = i)
    BY <1>2, <1>12, ContinueIs
  <2>4. ExecutionSound(x)
    BY <1>5, <2>2, <2>3 DEF ExecutionSound, ItemStages
  <2>5. UNCHANGED <<truth, work, ours, moved>>
    BY <1>1, <1>4, <1>12
  <2>6. QED
    BY <1>2, <1>4, <2>1, <2>3, <2>4, <2>5, ExecutionMoves
<1>13. CASE Failed(w) /\ UNCHANGED ours
  BY <1>1, <1>2, <1>13, FailedKeeps
<1>14. CASE /\ Fresh(w) /\ assessed' = assessed \cup {v} /\ Done(w)
            /\ UNCHANGED <<work, proposal, incident>>
            /\ \/ ledger' = ledger
               \/ \E newest : ledger' = ledger \cup {Outcome(newest, v, t, 0)}
  <2>1. \A j : Outcome(j, v, t, 0).rev = v /\ Outcome(j, v, t, 0).impact = Impact(truth[v])
    BY <1>8, <1>14 DEF Outcome
  <2>2. ledger' = ledger \/ \E e : e.rev = v /\ e.impact = Impact(truth[v]) /\ ledger' = ledger \cup {e}
    BY <1>14, <2>1
  <2>3. Tables' /\ Grows
    BY <1>1, <1>2, <1>14, <2>2, CommitTables
  <2>4. Rev' = Rev /\ run[w].v \in assessed'
    BY <1>1, <1>5, <1>14 DEF Rev
  <2>5. PICK R \in SUBSET Reservations : R = {}
    OBVIOUS
  <2>6. PICK z \in Nat : z = 0
    OBVIOUS
  <2>7. QED
    BY <1>1, <1>14, <2>3, <2>4, <2>5, <2>6, CommittedGoesOn
<1>15. CASE /\ Fresh(w)
            /\ proposal' = IF ProposalOf(t, v) = 0 THEN proposal ELSE Proposed(v, run[w].offers)
            /\ incident' = Upserted(Row(t, v, ProposalOf(t, v)))
            /\ ledger' = ledger \cup {Outcome(target, v, t, i)}
            /\ assessed' = assessed \cup {v}
            /\ Continue(w, target, ProposalOf(t, v), Impact(t))
            /\ UNCHANGED work
  <2>1. PICK e : e = Outcome(target, v, t, i)
    OBVIOUS
  <2>2. e.inc = target /\ e.rev = v /\ e.impact = Impact(truth[v]) /\ e.impact = Impact(t)
    BY <1>8, <1>15, <2>1 DEF Outcome
  <2>3. PICK p \in 0..Rev : p = ProposalOf(t, v)
    BY <1>2 DEF ProposalOf
  <2>4. PICK row : row = Row(t, v, p)
    OBVIOUS
  <2>5. row \in Incident /\ row.rev \in 1..Rev /\ row.prop \in 0..Rev
    BY <1>2, <1>8, <1>15, <2>3, <2>4, RowIs
  <2>6. incident' = Upserted(row)
    BY <1>15, <2>3, <2>4
  <2>7. ledger' = ledger \cup {e}
    BY <1>15, <2>1
  <2>8. \/ proposal' = proposal
        \/ \E O : /\ \A q \in O : q.res \in truth[v].affected /\ q.target \in Offers
                  /\ proposal' = Proposed(v, O)
    BY <1>3, <1>5, <1>15
  <2>9. Tables' /\ Grows
    BY <1>1, <1>2, <1>15, <2>2, <2>5, <2>6, <2>7, <2>8, CommitTables
  <2>10. target \in DOMAIN incident' /\ target \in Nat
    <3>1. incident \in Seq(Incident)
      BY <1>2 DEF Tables, TablesTyped
    <3>2. QED
      BY <1>7, <1>9, <2>5, <2>6, <3>1, UpsertedIs
  <2>11. PICK R \in SUBSET Reservations : R = Impact(t)
    BY <1>8, <1>15, TruthIs
  <2>12. Continue(w, target, p, R)
    BY <1>15, <2>3, <2>11
  <2>13. R # {} => \E f \in ledger' : f.inc = target /\ f.rev = run[w].v /\ R \subseteq f.impact
    BY <1>5, <2>2, <2>7, <2>11
  <2>14. Rev' = Rev /\ run[w].v \in assessed'
    BY <1>1, <1>5, <1>15 DEF Rev
  <2>15. p \in Nat
    BY <1>2, <2>3
  <2>16. QED
    BY <1>1, <2>9, <2>10, <2>12, <2>13, <2>14, <2>15, CommittedGoesOn
<1>16. QED
  BY <1>1, <1>5, <1>6, <1>7, <1>9, <1>10, <1>11, <1>12, <1>13, <1>14, <1>15 DEF Commit

-----------------------------------------------------------------------------
(* The theorems *)

LEMMA InitHolds == Init => RecoveryInv
<1>1. SUFFICES ASSUME Init PROVE RecoveryInv
  OBVIOUS
<1>2. PICK t \in Truths : truth = <<t>>
  BY <1>1 DEF Init
<1>3. Rev = 1 /\ truth \in Seq(Truths) /\ 1 \in 1..MaxRev
  BY <1>2, RecoveryAssumption DEF Rev
<1>4. work \in [1..Rev -> Work] /\ work[Rev].st = "pending"
  <2>1. [st |-> "pending", tries |-> 0] \in Work
    BY RecoveryAssumption DEF Work
  <2>2. QED
    BY <1>1, <1>3, <2>1 DEF Init
<1>5. /\ DOMAIN proposal = {} /\ DOMAIN action = {} /\ incident = <<>> /\ ledger = {}
      /\ moved = {} /\ notices = {} /\ assessed = {} /\ faults = 0
      /\ action \in [DOMAIN action -> Statuses]
  BY <1>1 DEF Init
<1>6. IsFiniteSet(DOMAIN action)
  BY <1>5, FS_EmptySet
<1>7. incident \in Seq(Incident) /\ DOMAIN incident = {}
  BY <1>5
<1>8. TablesTyped
  BY <1>3, <1>4, <1>5, <1>6, <1>7, RecoveryAssumption DEF TablesTyped
<1>9. Tables
  BY <1>4, <1>5, <1>8 DEF Tables, NotLost, NoticesTrue, LedgerSound, BudgetSound
<1>10. Executions
  <2>1. run = [w \in Workers |-> Idle] /\ Idle.pc = "idle"
    BY <1>1 DEF Init, Idle, Stage
  <2>2. QED
    BY <2>1, IdleIs DEF Executions, Sound, At
<1>11. QED
  BY <1>9, <1>10, InvIs

LEMMA StutterKeeps == RecoveryInv /\ UNCHANGED vars => RecoveryInv'
<1>1. SUFFICES ASSUME RecoveryInv, UNCHANGED vars PROVE RecoveryInv'
  OBVIOUS
<1>2. UNCHANGED <<truth, work, proposal, incident, ledger, action, moved, notices, run, assessed, faults>>
  BY <1>1 DEF vars
<1>3. Tables /\ Executions
  BY <1>1, InvIs
<1>4. UNCHANGED <<truth, ours, moved>> /\ NoticesTrue'
  BY <1>2, <1>3, NoticesKept DEF ours
<1>5. Tables' /\ Grows
  BY <1>2, <1>3, <1>4, TablesKept DEF Tables, TablesTyped, NotLost, Rev
<1>6. Executions'
  BY <1>2, <1>3, <1>5, AllExecutionsKept
<1>7. Tables' /\ Executions' => RecoveryInv'
  BY InvIs, PTL
<1>8. QED
  BY <1>5, <1>6, <1>7

LEMMA NextKeeps == RecoveryInv /\ [Next]_vars => RecoveryInv'
<1>1. SUFFICES ASSUME RecoveryInv, Next PROVE RecoveryInv'
  BY StutterKeeps
<1>2. CASE SourceChanges
  BY <1>1, <1>2, SourceChangesKeeps
<1>3. ASSUME NEW w \in Workers, Handle(w) PROVE RecoveryInv'
  BY <1>1, <1>3, AssessKeeps, CommitKeeps, CommunicateImpactKeeps, PlanKeeps, SettleKeeps DEF Handle
<1>4. ASSUME NEW w \in Workers, Reschedule(w) PROVE RecoveryInv'
  BY <1>1, <1>4, ReadIncidentKeeps, PrepareActionKeeps, AuthorizeKeeps, BookKeeps, RejectKeeps,
     ReassessKeeps, LookupKeeps, UpsertKeeps, SucceedKeeps, NotifyKeeps DEF Reschedule
<1>5. ASSUME NEW w \in Workers, Crash(w) \/ Fails(w) PROVE RecoveryInv'
  BY <1>1, <1>5, CrashKeeps
<1>6. ASSUME NEW w \in Workers, NEW v \in 1..Rev, Claim(w, v) \/ Takeover(w, v) PROVE RecoveryInv'
  <2>1. faults \in 0..MaxFaults
    BY <1>1, InvIs DEF Tables, TablesTyped
  <2>2. Take(w, v) /\ faults' \in 0..MaxFaults
    BY <1>6, <2>1, FaultIs DEF Claim, Takeover
  <2>3. QED
    BY <1>1, <2>2, TakeKeeps
<1>7. ASSUME NEW v \in 1..Rev, Exhaust(v) PROVE RecoveryInv'
  BY <1>1, <1>7, ExhaustKeeps
<1>8. QED
  BY <1>1, <1>2, <1>3, <1>4, <1>5, <1>6, <1>7 DEF Next

\* The books of a recovery scope agree: tables, budgets and what every handler
\* execution has verified.
THEOREM RecoveryInvariant == Spec => []RecoveryInv
<1>1. QED
  BY InitHolds, NextKeeps, PTL DEF Spec

\* The latest revision is never given up unassessed, and the state is well
\* typed.
THEOREM LatestRevisionAssessed == Spec => []NoRevisionLost
<1>1. RecoveryInv => NoRevisionLost
  BY DEF RecoveryInv
<1>2. QED
  BY RecoveryInvariant, <1>1, PTL

\* What is recorded and told about a revision is what was found at it.
THEOREM TrueImpact == Spec => []ImpactIsTrue
<1>1. RecoveryInv => ImpactIsTrue
  BY DEF RecoveryInv
<1>2. QED
  BY RecoveryInvariant, <1>1, PTL

\* The moves for one incident stay within the granted envelope.
THEOREM MovesWithinEnvelope == Spec => []AutonomyBudget
<1>1. RecoveryInv => AutonomyBudget
  <2>1. SUFFICES ASSUME RecoveryInv, NEW i \in DOMAIN incident
        PROVE  Cardinality(MovedFor(i)) <= MaxAuto
    BY DEF AutonomyBudget, MovedFor
  <2>2. CASE MovedFor(i) = {}
    BY <2>2, FS_EmptySet, RecoveryAssumption
  <2>3. CASE MovedFor(i) # {}
    BY <2>1, <2>3, InvIs DEF Tables, BudgetSound, MovedFor
  <2>4. QED
    BY <2>2, <2>3
<1>2. QED
  BY RecoveryInvariant, <1>1, PTL

LEMMA NeedfulMove ==
    ASSUME RecoveryInv, NEW w \in Workers, Book(w), NEW k \in moved' \ moved
    PROVE  k.res \in truth[Rev].affected /\ Offer(k.res, "within") \in OffersOf(k.rev)
<1>1. run[w].pc \in ItemStages
  BY DEF Book, At, ItemStages
<1>2. k = This(w) /\ SourceUnchanged(k.rev)
  BY DEF Book
<1>3. Tables /\ Item(w) \in run[w].todo /\ MovesWithin(run[w])
  BY <1>1, ItemIs
<1>4. k.rev = Rev /\ k.rev = run[w].v /\ k.res = Item(w)
  BY <1>2 DEF SourceUnchanged, This, Key
<1>5. Offer(k.res, "within") \in OffersOf(k.rev)
  BY <1>3, <1>4 DEF MovesWithin, Within
<1>6. k.rev \in DOMAIN proposal /\ Offer(k.res, "within") \in proposal[k.rev]
  BY <1>5 DEF OffersOf
<1>7. Offer(k.res, "within").res \in truth[k.rev].affected
  BY <1>3, <1>6 DEF Tables, TablesTyped
<1>8. QED
  BY <1>4, <1>5, <1>7 DEF Offer

\* A move disturbs only a reservation the current revision cannot keep, inside
\* the granted delay.
THEOREM OnlyNeedfulMoves == Spec => NoNeedlessMove
<1>1. RecoveryInv /\ [Next]_vars
         => [\A k \in moved' \ moved :
                /\ k.res \in truth[Rev].affected
                /\ Offer(k.res, "within") \in OffersOf(k.rev)]_vars
  <2>1. SUFFICES ASSUME RecoveryInv, Next, moved' # moved, NEW k \in moved' \ moved
        PROVE  k.res \in truth[Rev].affected /\ Offer(k.res, "within") \in OffersOf(k.rev)
    BY SMTT(30) DEF vars
  <2>2. PICK w \in Workers : Book(w)
    BY ZenonT(40), <2>1 DEF Next, SourceChanges, Handle, Reschedule, Crash, Fails, Claim, Takeover, Take, Exhaust, Settle,
       Assess, Commit, CommunicateImpact, Plan, ReadIncident, PrepareAction, Authorize, Reject, Reassess,
       Lookup, Upsert, Succeed, Notify, acts
  <2>3. QED
    BY <2>1, <2>2, NeedfulMove
<1>2. QED
  BY RecoveryInvariant, <1>1, PTL DEF Spec, NoNeedlessMove

=============================================================================
