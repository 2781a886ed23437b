------------------------ MODULE CommunicationsProofs ------------------------
(***************************************************************************)
(* Proofs about Communications for any handlers, channels, deadlines,      *)
(* limits, provider answers and bounds.                                    *)
(***************************************************************************)
EXTENDS Communications, FiniteSetTheorems, SequenceTheorems, WellFoundedInduction, TLAPS

-----------------------------------------------------------------------------
(* Rows *)

Statuses == {"pending", "delivering"} \cup Closed
Stages == {"prepare", "poison", "send", "lookup", "finalize", "ok", "retry", "dead"}
Answers == {"attempting"} \cup Results
Facts == SUBSET {"unreachable", "poisoned"}

\* A sequence with one element replaced.
LEMMA SeqReplace ==
    ASSUME NEW S, NEW s \in Seq(S), NEW i \in DOMAIN s, NEW v \in S, NEW z,
           z = [s EXCEPT ![i] = v]
    PROVE  /\ z \in Seq(S) /\ Len(z) = Len(s) /\ DOMAIN z = DOMAIN s /\ z[i] = v
           /\ \A j \in DOMAIN s \ {i} : z[j] = s[j]
OBVIOUS

\* A sequence with one element more.
LEMMA SeqExtend ==
    ASSUME NEW S, NEW s \in Seq(S), NEW v \in S, NEW z, z = Append(s, v)
    PROVE  /\ z \in Seq(S) /\ Len(z) = Len(s) + 1 /\ DOMAIN z = DOMAIN s \cup {Len(s) + 1}
           /\ z[Len(s) + 1] = v /\ Len(s) + 1 \notin DOMAIN s
           /\ \A j \in DOMAIN s : z[j] = s[j]
BY AppendProperties

\* The rows of a task.
LEMMA TaskAt ==
    ASSUME TypeOK, NEW t \in Tasks
    PROVE  /\ task[t] \in Task /\ dlv[t] \in Seq(Delivery)
           /\ t \in Nat \ {0} /\ t <= Len(task) /\ t \in DOMAIN dlv
BY DEF TypeOK, Tasks

LEMMA TaskFields ==
    ASSUME NEW x \in Task
    PROVE  /\ x.st \in Statuses /\ x.exp \in Nat /\ x.pin \in 0..Channels /\ x.parent \in Nat
           /\ x.root \in Nat /\ x.via \in 0..Channels /\ x.failedFacts \in Nat /\ x.facts \in Facts
BY DEF Task, Statuses, Facts

LEMMA DeliveryAt ==
    ASSUME TypeOK, NEW t \in Tasks, NEW n \in DOMAIN dlv[t]
    PROVE  /\ dlv[t][n] \in Delivery /\ n \in Nat \ {0} /\ n <= Len(dlv[t])
           /\ dlv[t][n].st \in Answers /\ dlv[t][n].sent \in Nat
<1>1. dlv[t] \in Seq(Delivery)
  BY TaskAt
<1>2. dlv[t][n] \in Delivery /\ n \in Nat \ {0} /\ n <= Len(dlv[t])
  BY <1>1
<1>3. QED
  BY <1>2 DEF Delivery, Answers

\* The latest delivery.
LEMMA LatestAt ==
    ASSUME TypeOK, NEW t \in Tasks
    PROVE  /\ Len(dlv[t]) \in Nat
           /\ LatestStatus(t) = IF Len(dlv[t]) = 0 THEN "none" ELSE dlv[t][Len(dlv[t])].st
           /\ Len(dlv[t]) > 0 => Len(dlv[t]) \in DOMAIN dlv[t]
           /\ DOMAIN dlv[t] = 1..Len(dlv[t])
<1>1. dlv[t] \in Seq(Delivery)
  BY TaskAt
<1>2. dlv[t] = <<>> <=> Len(dlv[t]) = 0
  BY <1>1, EmptySeq
<1>3. QED
  BY <1>1, <1>2 DEF LatestStatus

\* An execution.
LEMMA JobAt ==
    ASSUME TypeOK, NEW w \in Workers
    PROVE  /\ ~At(w, "idle") <=> job[w] \in Execution
           /\ ~At(w, "idle") => /\ job[w].pc \in Stages /\ Key(w) \in ActionKey
                                /\ job[w].n \in Nat /\ job[w].res \in Results \cup {"none", "missing"}
           /\ At(w, "idle") <=> job[w] = Idle
BY DEF TypeOK, At, Key, Execution, Idle, Stages

\* An action.
LEMMA ActionAt ==
    ASSUME TypeOK, NEW k \in DOMAIN work
    PROVE  /\ k \in ActionKey /\ k.t \in Tasks /\ k.n \in Nat /\ k.n <= Len(dlv[k.t])
           /\ k.at \in Nat /\ k.kind \in {"dispatch", "reconcile"}
           /\ work[k] \in Action /\ work[k].st \in {"pending", "leased", "dead"}
           /\ work[k].tries \in 0..MaxTries
<1>1. k \in ActionKey /\ k.t \in Tasks /\ k.n \in 0..Len(dlv[k.t]) /\ work[k] \in Action
  BY DEF TypeOK
<1>2. Len(dlv[k.t]) \in Nat
  BY <1>1, LatestAt
<1>3. QED
  BY <1>1, <1>2 DEF ActionKey, Action

-----------------------------------------------------------------------------
(* What a step does to the rows *)

\* Task t gets a status, a number of task_failed facts and other facts.
TaskPut(z, t, st, ff, fs) ==
    /\ z \in Seq(Task) /\ Len(z) = Len(task) /\ DOMAIN z = Tasks
    /\ z[t].st = st /\ z[t].failedFacts = ff /\ z[t].facts = fs
    /\ z[t].exp = task[t].exp /\ z[t].parent = task[t].parent /\ z[t].root = task[t].root
    /\ \A i \in Tasks \ {t} : z[i] = task[i]

\* Attempt n of task t gets a status and a number of handovers.
DlvPut(z, t, n, st, sent) ==
    /\ z \in Seq(Seq(Delivery)) /\ Len(z) = Len(dlv) /\ DOMAIN z = DOMAIN dlv
    /\ Len(z[t]) = Len(dlv[t]) /\ DOMAIN z[t] = DOMAIN dlv[t]
    /\ z[t][n].st = st /\ z[t][n].sent = sent
    /\ \A m \in DOMAIN dlv[t] \ {n} : z[t][m] = dlv[t][m]
    /\ \A i \in DOMAIN dlv \ {t} : z[i] = dlv[i]

\* Execution w goes on with its action; the others stay where they are.
JobPut(z, w, pc, n, res) ==
    /\ z \in [Workers -> Execution \cup {Idle}]
    /\ z[w] \in Execution /\ z[w].pc = pc /\ z[w].key = job[w].key /\ z[w].n = n /\ z[w].res = res
    /\ \A v \in Workers \ {w} : z[v] = job[v]

JobEnd(z, w) ==
    /\ z \in [Workers -> Execution \cup {Idle}]
    /\ z[w] = Idle
    /\ \A v \in Workers \ {w} : z[v] = job[v]

LEMMA TaskReplaced ==
    ASSUME TypeOK, NEW t \in Tasks, NEW y \in Task, NEW z, z = [task EXCEPT ![t] = y],
           y.exp = task[t].exp, y.parent = task[t].parent, y.root = task[t].root
    PROVE  TaskPut(z, t, y.st, y.failedFacts, y.facts)
<1>1. task \in Seq(Task) /\ t \in DOMAIN task
  BY DEF TypeOK, Tasks
<1>2. /\ z \in Seq(Task) /\ Len(z) = Len(task) /\ DOMAIN z = DOMAIN task /\ z[t] = y
      /\ \A j \in DOMAIN task \ {t} : z[j] = task[j]
  BY <1>1, SeqReplace
<1>3. QED
  BY <1>2 DEF TaskPut, Tasks

LEMMA StatusPut ==
    ASSUME TypeOK, NEW t \in Tasks, NEW st \in Statuses, NEW z, z = [task EXCEPT ![t].st = st]
    PROVE  TaskPut(z, t, st, task[t].failedFacts, task[t].facts)
<1> DEFINE y == [task[t] EXCEPT !.st = st]
<1>1. task[t] \in Task
  BY TaskAt
<1>2. /\ y \in Task /\ y.exp = task[t].exp /\ y.parent = task[t].parent /\ y.root = task[t].root
      /\ y.st = st /\ y.failedFacts = task[t].failedFacts /\ y.facts = task[t].facts
  BY <1>1 DEF Task, Statuses
<1>3. z = [task EXCEPT ![t] = y]
  BY <1>1
<1> HIDE DEF y
<1>4. TaskPut(z, t, y.st, y.failedFacts, y.facts)
  BY <1>2, <1>3, TaskReplaced
<1>5. QED
  BY <1>2, <1>4

LEMMA RoutePut ==
    ASSUME TypeOK, NEW t \in Tasks, NEW c \in 0..Channels, NEW z,
           z = [task EXCEPT ![t].pin = c, ![t].st = "delivering"]
    PROVE  TaskPut(z, t, "delivering", task[t].failedFacts, task[t].facts)
<1> DEFINE y == [task[t] EXCEPT !.pin = c, !.st = "delivering"]
<1>1. task[t] \in Task
  BY TaskAt
<1>2. /\ y \in Task /\ y.exp = task[t].exp /\ y.parent = task[t].parent /\ y.root = task[t].root
      /\ y.st = "delivering" /\ y.failedFacts = task[t].failedFacts /\ y.facts = task[t].facts
  BY <1>1 DEF Task, Statuses
<1>3. z = [task EXCEPT ![t] = y]
  BY <1>1
<1> HIDE DEF y
<1>4. TaskPut(z, t, y.st, y.failedFacts, y.facts)
  BY <1>2, <1>3, TaskReplaced
<1>5. QED
  BY <1>2, <1>4

LEMMA FailedPut ==
    ASSUME TypeOK, NEW t \in Tasks, NEW why \in Facts, NEW z, z = FailedTask(t, why)
    PROVE  TaskPut(z, t, "failed", task[t].failedFacts + 1, task[t].facts \cup why)
<1> DEFINE y == [task[t] EXCEPT !.st = "failed", !.failedFacts = task[t].failedFacts + 1,
                                !.facts = task[t].facts \cup why]
<1>0. task[t].facts \cup why \in Facts
  BY TaskAt, TaskFields DEF Facts
<1>1. task[t] \in Task
  BY TaskAt
<1>2. /\ y \in Task /\ y.exp = task[t].exp /\ y.parent = task[t].parent /\ y.root = task[t].root
      /\ y.st = "failed" /\ y.failedFacts = task[t].failedFacts + 1
      /\ y.facts = task[t].facts \cup why
  <2>1. task[t].failedFacts + 1 \in Nat
    BY <1>1, TaskFields
  <2> DEFINE ff == task[t].failedFacts + 1
             fs == task[t].facts \cup why
  <2> HIDE DEF ff, fs
  <2>2. y = [task[t] EXCEPT !.st = "failed", !.failedFacts = ff, !.facts = fs]
    BY DEF ff, fs
  <2>3. ff \in Nat /\ fs \in Facts
    BY <1>0, <2>1 DEF ff, fs
  <2> HIDE DEF y
  <2>4. y \in Task
    BY <1>1, <2>2, <2>3 DEF Task, Facts, Closed
  <2>5. /\ y.exp = task[t].exp /\ y.parent = task[t].parent /\ y.root = task[t].root
        /\ y.st = "failed" /\ y.failedFacts = ff /\ y.facts = fs
    BY <1>1, <2>2 DEF Task
  <2>6. QED
    BY <2>4, <2>5 DEF ff, fs
<1>3. z = [task EXCEPT ![t] = y]
  BY <1>1 DEF FailedTask
<1> HIDE DEF y
<1>4. TaskPut(z, t, y.st, y.failedFacts, y.facts)
  BY <1>2, <1>3, TaskReplaced
<1>5. QED
  BY <1>2, <1>4

\* A fact is added to row t of a table that already differs from task in that row.
LEMMA FactPut ==
    ASSUME TypeOK, NEW t \in Tasks, NEW st, NEW ff, NEW fs, NEW ts,
           TaskPut(ts, t, st, ff, fs), NEW z,
           z = LineageUnreachable(ts, t)
    PROVE  TaskPut(z, t, st, ff, fs \cup {"unreachable"})
<1> DEFINE y == [ts[t] EXCEPT !.facts = ts[t].facts \cup {"unreachable"}]
<1>1. ts \in Seq(Task) /\ t \in DOMAIN ts /\ ts[t] \in Task
  BY DEF TaskPut
<1>2. /\ y \in Task /\ y.exp = task[t].exp /\ y.parent = task[t].parent /\ y.root = task[t].root
      /\ y.st = st /\ y.failedFacts = ff /\ y.facts = fs \cup {"unreachable"}
  BY <1>1 DEF Task, TaskPut
<1>3. z = [ts EXCEPT ![t] = y]
  BY <1>1 DEF LineageUnreachable
<1> HIDE DEF y
<1>4. y \in Task
  BY <1>2
<1>5. /\ z \in Seq(Task) /\ Len(z) = Len(ts) /\ DOMAIN z = DOMAIN ts /\ z[t] = y
      /\ \A j \in DOMAIN ts \ {t} : z[j] = ts[j]
  BY <1>1, <1>3, <1>4, SeqReplace
<1>6. QED
  BY <1>2, <1>5 DEF TaskPut

\* The task as it is.
LEMMA NothingPut ==
    ASSUME TypeOK, NEW t \in Tasks
    PROVE  TaskPut(task, t, task[t].st, task[t].failedFacts, task[t].facts)
BY DEF TaskPut, TypeOK, Tasks

LEMMA DeliveryReplaced ==
    ASSUME TypeOK, NEW t \in Tasks, NEW n \in DOMAIN dlv[t], NEW d \in Delivery, NEW z,
           z = [dlv EXCEPT ![t] = [dlv[t] EXCEPT ![n] = d]]
    PROVE  DlvPut(z, t, n, d.st, d.sent)
<1>1. dlv \in Seq(Seq(Delivery)) /\ t \in DOMAIN dlv /\ dlv[t] \in Seq(Delivery)
  BY TaskAt DEF TypeOK
<1> DEFINE y == [dlv[t] EXCEPT ![n] = d]
<1>2. /\ y \in Seq(Delivery) /\ Len(y) = Len(dlv[t]) /\ DOMAIN y = DOMAIN dlv[t] /\ y[n] = d
      /\ \A m \in DOMAIN dlv[t] \ {n} : y[m] = dlv[t][m]
  BY <1>1, SeqReplace
<1> HIDE DEF y
<1>3. z = [dlv EXCEPT ![t] = y]
  BY DEF y
<1>4. /\ z \in Seq(Seq(Delivery)) /\ Len(z) = Len(dlv) /\ DOMAIN z = DOMAIN dlv /\ z[t] = y
      /\ \A i \in DOMAIN dlv \ {t} : z[i] = dlv[i]
  BY <1>1, <1>2, <1>3, SeqReplace
<1>5. QED
  BY <1>2, <1>4 DEF DlvPut

LEMMA ResultPut ==
    ASSUME TypeOK, NEW t \in Tasks, NEW n \in DOMAIN dlv[t], NEW r \in Results, NEW z,
           z = [dlv EXCEPT ![t][n].st = r]
    PROVE  DlvPut(z, t, n, r, dlv[t][n].sent)
<1> DEFINE d == [dlv[t][n] EXCEPT !.st = r]
<1>1. dlv[t][n] \in Delivery
  BY DeliveryAt
<1>2. d \in Delivery /\ d.st = r /\ d.sent = dlv[t][n].sent
  BY <1>1 DEF Delivery
<1>3. z = [dlv EXCEPT ![t] = [dlv[t] EXCEPT ![n] = d]]
  OBVIOUS
<1> HIDE DEF d
<1>4. DlvPut(z, t, n, d.st, d.sent)
  BY <1>2, <1>3, DeliveryReplaced
<1>5. QED
  BY <1>2, <1>4

LEMMA SentPut ==
    ASSUME TypeOK, NEW t \in Tasks, NEW n \in DOMAIN dlv[t], NEW z,
           z = [dlv EXCEPT ![t][n].sent = dlv[t][n].sent + 1]
    PROVE  DlvPut(z, t, n, dlv[t][n].st, dlv[t][n].sent + 1)
<1> DEFINE d == [dlv[t][n] EXCEPT !.sent = dlv[t][n].sent + 1]
<1>1. dlv[t][n] \in Delivery /\ dlv[t][n].sent \in Nat
  BY DeliveryAt
<1>2. d \in Delivery /\ d.st = dlv[t][n].st /\ d.sent = dlv[t][n].sent + 1
  BY <1>1 DEF Delivery
<1>3. z = [dlv EXCEPT ![t] = [dlv[t] EXCEPT ![n] = d]]
  OBVIOUS
<1> HIDE DEF d
<1>4. DlvPut(z, t, n, d.st, d.sent)
  BY <1>2, <1>3, DeliveryReplaced
<1>5. QED
  BY <1>2, <1>4

LEMMA SameDelivery ==
    ASSUME TypeOK, NEW t \in Tasks, NEW n \in DOMAIN dlv[t]
    PROVE  DlvPut(dlv, t, n, dlv[t][n].st, dlv[t][n].sent)
BY DEF DlvPut, TypeOK

LEMMA GotoPut ==
    ASSUME TypeOK, NEW w \in Workers, ~At(w, "idle"), NEW p \in Stages, NEW z,
           z = [job EXCEPT ![w].pc = p]
    PROVE  JobPut(z, w, p, job[w].n, job[w].res)
<1> DEFINE j == [job[w] EXCEPT !.pc = p]
<1>1. job[w] \in Execution
  BY JobAt
<1>2. j \in Execution /\ j.pc = p /\ j.key = job[w].key /\ j.n = job[w].n /\ j.res = job[w].res
  BY <1>1 DEF Execution, Stages
<1>3. z = [job EXCEPT ![w] = j]
  OBVIOUS
<1> HIDE DEF j
<1>4. z \in [Workers -> Execution \cup {Idle}] /\ z[w] = j /\ \A v \in Workers \ {w} : z[v] = job[v]
  BY ZenonT(40), <1>2, <1>3 DEF TypeOK
<1>5. QED
  BY <1>2, <1>4 DEF JobPut

LEMMA AnswerPut ==
    ASSUME TypeOK, NEW w \in Workers, ~At(w, "idle"), NEW p \in Stages,
           NEW r \in Results \cup {"none", "missing"}, NEW z,
           z = [job EXCEPT ![w].pc = p, ![w].res = r]
    PROVE  JobPut(z, w, p, job[w].n, r)
<1> DEFINE j == [job[w] EXCEPT !.pc = p, !.res = r]
<1>1. job[w] \in Execution
  BY JobAt
<1>2. j \in Execution /\ j.pc = p /\ j.key = job[w].key /\ j.n = job[w].n /\ j.res = r
  BY <1>1 DEF Execution, Stages
<1>3. z = [job EXCEPT ![w] = j]
  OBVIOUS
<1> HIDE DEF j
<1>4. z \in [Workers -> Execution \cup {Idle}] /\ z[w] = j /\ \A v \in Workers \ {w} : z[v] = job[v]
  BY ZenonT(40), <1>2, <1>3 DEF TypeOK
<1>5. QED
  BY <1>2, <1>4 DEF JobPut

LEMMA NewJobPut ==
    ASSUME TypeOK, NEW w \in Workers, ~At(w, "idle"), NEW p \in Stages, NEW n \in Nat, NEW z,
           z = [job EXCEPT ![w] = Job(p, Key(w), n, "none")]
    PROVE  JobPut(z, w, p, n, "none")
<1> DEFINE j == Job(p, Key(w), n, "none")
<1>1. Key(w) \in ActionKey
  BY JobAt
<1>2. j \in Execution /\ j.pc = p /\ j.key = job[w].key /\ j.n = n /\ j.res = "none"
  BY <1>1 DEF Execution, Stages, Job, Key
<1> HIDE DEF j
<1>3. z = [job EXCEPT ![w] = j]
  BY DEF j
<1>4. z \in [Workers -> Execution \cup {Idle}] /\ z[w] = j /\ \A v \in Workers \ {w} : z[v] = job[v]
  BY <1>2, <1>3 DEF TypeOK
<1>5. QED
  BY <1>2, <1>4 DEF JobPut

LEMMA IdlePut ==
    ASSUME TypeOK, NEW w \in Workers, NEW z, z = [job EXCEPT ![w] = Idle]
    PROVE  JobEnd(z, w)
BY DEF TypeOK, JobEnd

-----------------------------------------------------------------------------
(* Lineages and reports *)

TasksSound == LineageSound /\ SequentialEscalation /\ ReportsSound /\ FailureIsReported

\* What a step may make of one task: it goes on, it completes or is cancelled,
\* it fails with a fact and a follow-up, or it collects a fact after its end.
LawfulTask(t, st, ff, fs) ==
    \/ st \notin Closed /\ Live(t) /\ ff = task[t].failedFacts
    \/ st \in {"completed", "cancelled"} /\ ff = task[t].failedFacts
    \/ /\ st = "failed" /\ Live(t) /\ ff = task[t].failedFacts + 1
       /\ fs # {} \/ \E i \in Tasks : task[i].parent = t
    \/ st = task[t].st /\ ff = task[t].failedFacts /\ task[t].facts \subseteq fs

\* One task changes.
LEMMA TaskChangeKeeps ==
    ASSUME TypeOK, TasksSound, NEW t \in Tasks, NEW st, NEW ff, NEW fs,
           TaskPut(task', t, st, ff, fs), LawfulTask(t, st, ff, fs)
    PROVE  TasksSound' /\ Tasks' = Tasks
<1>1. Tasks' = Tasks
  BY DEF TaskPut, Tasks
<1>2. \A i \in Tasks : task'[i].parent = task[i].parent /\ task'[i].root = task[i].root
  BY DEF TaskPut
<1>3. \A i \in Tasks : Live(i)' => Live(i)
  BY DEF TaskPut, LawfulTask, Live, Closed
<1>4. LineageSound'
  BY <1>1, <1>2, <1>3 DEF TasksSound, LineageSound
<1>5. SequentialEscalation'
  BY <1>1, <1>2, <1>3 DEF TasksSound, SequentialEscalation
<1>6. ReportsSound'
  BY <1>1 DEF TasksSound, ReportsSound, TaskPut, LawfulTask, Live, Closed
<1>7. FailureIsReported'
  <2>1. SUFFICES ASSUME NEW i \in Tasks
        PROVE  /\ task'[i].failedFacts <= 1
               /\ task'[i].st = "failed" =>
                     /\ task'[i].failedFacts = 1
                     /\ (\E j \in Tasks : task'[j].parent = i) \/ task'[i].facts # {}
    BY <1>1 DEF FailureIsReported
  <2>2. /\ task[i].failedFacts <= 1
        /\ task[i].st = "failed" =>
              /\ task[i].failedFacts = 1
              /\ (\E j \in Tasks : task[j].parent = i) \/ task[i].facts # {}
        /\ Live(i) => task[i].failedFacts = 0
    BY DEF TasksSound, FailureIsReported, ReportsSound
  <2>3. CASE i # t
    BY <1>2, <2>2, <2>3 DEF TaskPut
  <2>4. CASE i = t
    <3>1. task'[t].st = st /\ task'[t].failedFacts = ff /\ task'[t].facts = fs
      BY DEF TaskPut
    <3>2. CASE st \notin Closed /\ Live(t) /\ ff = task[t].failedFacts
      BY <2>2, <2>4, <3>1, <3>2 DEF Closed
    <3>3. CASE st \in {"completed", "cancelled"} /\ ff = task[t].failedFacts
      BY <2>2, <2>4, <3>1, <3>3
    <3>4. CASE /\ st = "failed" /\ Live(t) /\ ff = task[t].failedFacts + 1
               /\ fs # {} \/ \E j \in Tasks : task[j].parent = t
      BY <1>2, <2>2, <2>4, <3>1, <3>4
    <3>5. CASE st = task[t].st /\ ff = task[t].failedFacts /\ task[t].facts \subseteq fs
      BY <1>2, <2>2, <2>4, <3>1, <3>5
    <3>6. QED
      BY <3>2, <3>3, <3>4, <3>5 DEF LawfulTask
  <2>5. QED
    BY <2>3, <2>4
<1>8. QED
  BY <1>1, <1>4, <1>5, <1>6, <1>7 DEF TasksSound

\* The same of a table of tasks.
SoundTable(z) ==
    /\ \A t \in DOMAIN z : z[t].parent = NoTask => z[t].root = t
    /\ \A t \in DOMAIN z : z[t].parent # NoTask => /\ z[t].root \in DOMAIN z
                                                   /\ z[z[t].root].st \in Closed
    /\ \A s, t \in DOMAIN z : /\ z[s].st \notin Closed /\ z[t].st \notin Closed
                              /\ z[s].root = z[t].root
                              => s = t
    /\ \A t \in DOMAIN z : z[t].st \notin Closed => z[t].failedFacts = 0
    /\ \A t \in DOMAIN z :
          /\ z[t].failedFacts <= 1
          /\ z[t].st = "failed" => /\ z[t].failedFacts = 1
                                   /\ (\E i \in DOMAIN z : z[i].parent = t) \/ z[t].facts # {}

LEMMA TableIsTasks == TasksSound <=> SoundTable(task)
BY DEF TasksSound, SoundTable, LineageSound, SequentialEscalation, ReportsSound,
       FailureIsReported, Live, Tasks

LEMMA TableIsTasksNext == TasksSound' <=> SoundTable(task')
BY DEF TasksSound, SoundTable, LineageSound, SequentialEscalation, ReportsSound,
       FailureIsReported, Live, Tasks

\* A failed task gets an escalation child: its lineage is closed, so the child
\* is the only live task of it.
LEMMA ChildKeeps ==
    ASSUME TypeOK, TasksSound, NEW t \in Tasks, NEW ff, NEW fs, NEW ts,
           TaskPut(ts, t, "failed", ff, fs),
           \/ Live(t) /\ ff = task[t].failedFacts + 1
           \/ task[t].st = "failed" /\ ff = task[t].failedFacts,
           MayEscalate(ts, t), NEW row \in Task, NEW z, z = Append(ts, row),
           row.st = "pending", row.parent = t, row.root = ts[t].root, row.failedFacts = 0
    PROVE  SoundTable(z)
<1> DEFINE c == Len(task) + 1
<1>a. SoundTable(task)
  BY TableIsTasks
<1>1. ts \in Seq(Task) /\ Len(ts) = Len(task) /\ DOMAIN ts = DOMAIN task /\ Len(task) \in Nat
  BY DEF TaskPut, TypeOK, Tasks
<1>2. /\ DOMAIN z = DOMAIN task \cup {c} /\ c \notin DOMAIN task /\ z[c] = row
      /\ \A i \in DOMAIN task : z[i] = ts[i]
  BY <1>1, SeqExtend
<1>3. /\ \A i \in DOMAIN task : z[i].parent = task[i].parent /\ z[i].root = task[i].root
      /\ \A i \in DOMAIN task \ {t} : z[i] = task[i]
      /\ z[t].st = "failed" /\ z[t].failedFacts = ff
  BY <1>2 DEF TaskPut, Tasks
<1> HIDE DEF c
<1>t. t \in DOMAIN task /\ t # 0
  BY TaskAt DEF Tasks
<1>4. \A i \in DOMAIN task : z[i].st \notin Closed => task[i].st \notin Closed /\ i # t
  BY <1>3 DEF Closed
<1>5. /\ task[t].root \in DOMAIN task
      /\ task[t].root = t \/ task[task[t].root].st \in Closed
  BY <1>a, <1>t DEF SoundTable
<1>6. \A i \in DOMAIN task : task[i].root = task[t].root => z[i].st \in Closed
  <2>1. SUFFICES ASSUME NEW i \in DOMAIN task, task[i].root = task[t].root, z[i].st \notin Closed
        PROVE  FALSE
    OBVIOUS
  <2>2. task[i].st \notin Closed /\ i # t
    BY <1>4, <2>1
  <2>3. CASE task[i].parent = NoTask
    <3>1. task[i].root = i
      BY <1>a, <2>3 DEF SoundTable
    <3>2. QED
      BY <1>5, <2>1, <2>2, <3>1
  <2>4. CASE task[i].parent # NoTask
    <3>1. i \in Children(ts, t)
      BY <1>1, <1>2, <1>3, <1>t, <2>1, <2>4 DEF Children, Lineage
    <3>2. ts[i].st \in Closed
      BY <3>1 DEF MayEscalate
    <3>3. QED
      BY <1>2, <2>1, <3>2
  <2>5. QED
    BY <2>3, <2>4
<1>7. row.root = task[t].root
  BY DEF TaskPut
<1>8. \A i \in DOMAIN z : z[i].parent = NoTask => z[i].root = i
  BY <1>a, <1>2, <1>3, <1>t DEF SoundTable, NoTask
<1>9. ASSUME NEW i \in DOMAIN z, z[i].parent # NoTask
      PROVE  z[i].root \in DOMAIN z /\ z[z[i].root].st \in Closed
  <2>2. CASE i = c
    <3>1. z[i].root = task[t].root
      BY <1>2, <1>7, <2>2
    <3>2. z[task[t].root].st \in Closed
      BY <1>3, <1>4, <1>5
    <3>3. QED
      BY <1>2, <1>5, <3>1, <3>2
  <2>3. CASE i \in DOMAIN task
    <3>1. z[i].root = task[i].root /\ task[i].parent # NoTask
      BY <1>3, <1>9, <2>3
    <3>2. task[i].root \in DOMAIN task /\ task[task[i].root].st \in Closed
      BY <1>a, <2>3, <3>1 DEF SoundTable
    <3>3. z[task[i].root].st \in Closed
      BY <1>4, <3>2
    <3>4. QED
      BY <1>2, <3>1, <3>2, <3>3
  <2>4. QED
    BY <1>2, <1>9, <2>2, <2>3
<1>10. ASSUME NEW i \in DOMAIN z, NEW j \in DOMAIN z, z[i].st \notin Closed, z[j].st \notin Closed,
              z[i].root = z[j].root
       PROVE  i = j
  <2>2. CASE i \in DOMAIN task /\ j \in DOMAIN task
    <3>1. task[i].st \notin Closed /\ task[j].st \notin Closed /\ task[i].root = task[j].root
      BY <1>3, <1>4, <1>10, <2>2
    <3>2. QED
      BY <1>a, <2>2, <3>1 DEF SoundTable
  <2>3. CASE i = c /\ j \in DOMAIN task
    BY <1>2, <1>3, <1>6, <1>7, <1>10, <2>3
  <2>4. CASE j = c /\ i \in DOMAIN task
    BY <1>2, <1>3, <1>6, <1>7, <1>10, <2>4
  <2>5. QED
    BY <1>2, <1>10, <2>2, <2>3, <2>4
<1>11. ASSUME NEW i \in DOMAIN z, z[i].st \notin Closed PROVE z[i].failedFacts = 0
  <2>2. CASE i = c
    BY <1>2, <2>2
  <2>3. CASE i \in DOMAIN task
    BY <1>a, <1>3, <1>4, <1>11, <2>3 DEF SoundTable
  <2>4. QED
    BY <1>2, <1>11, <2>2, <2>3
<1>12. ASSUME NEW i \in DOMAIN z
       PROVE  /\ z[i].failedFacts <= 1
              /\ z[i].st = "failed" =>
                    /\ z[i].failedFacts = 1
                    /\ (\E j \in DOMAIN z : z[j].parent = i) \/ z[i].facts # {}
  <2>2. CASE i = c
    BY <1>2, <2>2
  <2>3. CASE i = t
    <3>1. ff = 1
      BY <1>a, <1>t DEF SoundTable, Live
    <3>2. z[c].parent = t /\ c \in DOMAIN z
      BY <1>2
    <3>3. QED
      BY <1>3, <2>3, <3>1, <3>2
  <2>4. CASE i \in DOMAIN task \ {t}
    <3>1. z[i] = task[i]
      BY <1>3, <2>4
    <3>2. \A j \in DOMAIN task : j \in DOMAIN z /\ z[j].parent = task[j].parent
      BY <1>2, <1>3
    <3>3. QED
      BY SMTT(30), <1>a, <2>4, <3>1, <3>2 DEF SoundTable
  <2>5. QED
    BY <1>2, <1>12, <2>2, <2>3, <2>4
<1>13. QED
  BY <1>8, <1>9, <1>10, <1>11, <1>12 DEF SoundTable

\* A new notification is a lineage of its own.
LEMMA RootKeeps ==
    ASSUME TypeOK, TasksSound, NEW row \in Task, NEW z, z = Append(task, row),
           row.st = "pending", row.parent = NoTask, row.root = Len(task) + 1, row.failedFacts = 0
    PROVE  SoundTable(z)
<1> DEFINE c == Len(task) + 1
<1>a. SoundTable(task)
  BY TableIsTasks
<1>1. task \in Seq(Task) /\ Len(task) \in Nat
  BY DEF TypeOK
<1>2. /\ DOMAIN z = DOMAIN task \cup {c} /\ c \notin DOMAIN task /\ z[c] = row
      /\ \A i \in DOMAIN task : z[i] = task[i]
  BY <1>1, SeqExtend
<1> HIDE DEF c
<1>3. row.root = c
  BY DEF c
<1>5. \A i \in DOMAIN task : task[i].root \in DOMAIN task
  BY <1>a DEF SoundTable
<1>6. \A i \in DOMAIN z : z[i].parent = NoTask => z[i].root = i
  BY <1>a, <1>2, <1>3 DEF SoundTable
<1>7. ASSUME NEW i \in DOMAIN z, z[i].parent # NoTask
      PROVE  z[i].root \in DOMAIN z /\ z[z[i].root].st \in Closed
  <2>1. i \in DOMAIN task /\ z[i] = task[i]
    BY <1>2, <1>7
  <2>2. task[i].root \in DOMAIN task /\ task[task[i].root].st \in Closed
    BY <1>a, <1>7, <2>1 DEF SoundTable
  <2>3. QED
    BY <1>2, <2>1, <2>2
<1>8. ASSUME NEW i \in DOMAIN z, NEW j \in DOMAIN z, z[i].st \notin Closed, z[j].st \notin Closed,
             z[i].root = z[j].root
      PROVE  i = j
  <2>2. CASE i \in DOMAIN task /\ j \in DOMAIN task
    BY <1>a, <1>2, <1>8, <2>2 DEF SoundTable
  <2>3. CASE i = c \/ j = c
    BY <1>2, <1>3, <1>5, <1>8, <2>3
  <2>4. QED
    BY <1>2, <1>8, <2>2, <2>3
<1>9. \A i \in DOMAIN z : z[i].st \notin Closed => z[i].failedFacts = 0
  BY <1>a, <1>2 DEF SoundTable
<1>10. ASSUME NEW i \in DOMAIN z
       PROVE  /\ z[i].failedFacts <= 1
              /\ z[i].st = "failed" =>
                    /\ z[i].failedFacts = 1
                    /\ (\E j \in DOMAIN z : z[j].parent = i) \/ z[i].facts # {}
  <2>2. CASE i = c
    BY <1>2, <2>2
  <2>4. CASE i \in DOMAIN task
    <3>1. \A j \in DOMAIN task : j \in DOMAIN z /\ z[j] = task[j]
      BY <1>2
    <3>3. QED
      BY <1>a, <2>4, <3>1 DEF SoundTable
  <2>5. QED
    BY <1>2, <1>10, <2>2, <2>4
<1>11. QED
  BY <1>6, <1>7, <1>8, <1>9, <1>10 DEF SoundTable

-----------------------------------------------------------------------------
(* Deliveries *)

\* DeliveriesSound of a table of tasks and their deliveries.
SoundDeliveries(zt, zd) ==
    \A t \in DOMAIN zt : \A n \in DOMAIN zd[t] :
        /\ zd[t][n].sent <= 1
        /\ n < Len(zd[t]) => zd[t][n].st \notin Unresolved
        /\ zd[t][n].sent = 0 => zd[t][n].st \in {"attempting", "ambiguous", "final"}
        /\ zd[t][n].st \in {"delivered", "final"} => zt[t].st \in Closed

LEMMA DeliveriesTable == DeliveriesSound <=> SoundDeliveries(task, dlv)
BY DEF DeliveriesSound, SoundDeliveries, Live, Tasks

LEMMA DeliveriesTableNext == DeliveriesSound' <=> SoundDeliveries(task', dlv')
BY DEF DeliveriesSound, SoundDeliveries, Live, Tasks

\* One delivery and the row of its task change; no task is reopened.
LEMMA DeliveryKeeps ==
    ASSUME TypeOK, DeliveriesSound, NEW t \in Tasks, NEW n \in DOMAIN dlv[t],
           NEW zt, NEW zd, NEW ts, NEW ff, NEW fs, NEW st, NEW sent \in Nat,
           TaskPut(zt, t, ts, ff, fs), DlvPut(zd, t, n, st, sent),
           ~Live(t) => ts \in Closed,
           sent <= 1, n < Len(dlv[t]) => st \notin Unresolved,
           sent = 0 => st \in {"attempting", "ambiguous", "final"},
           st \in {"delivered", "final"} => ts \in Closed
    PROVE  SoundDeliveries(zt, zd)
<1>1. SUFFICES ASSUME NEW i \in Tasks, NEW m \in DOMAIN zd[i]
      PROVE  /\ zd[i][m].sent <= 1
             /\ m < Len(zd[i]) => zd[i][m].st \notin Unresolved
             /\ zd[i][m].sent = 0 => zd[i][m].st \in {"attempting", "ambiguous", "final"}
             /\ zd[i][m].st \in {"delivered", "final"} => zt[i].st \in Closed
  BY DEF SoundDeliveries, TaskPut
<1>2. i \in DOMAIN dlv
  BY TaskAt
<1>3. CASE i # t
  <2>1. zd[i] = dlv[i] /\ zt[i] = task[i]
    BY <1>2, <1>3 DEF DlvPut, TaskPut
  <2>2. QED
    BY <2>1 DEF DeliveriesSound, Live
<1>4. CASE i = t /\ m # n
  <2>1. m \in DOMAIN dlv[t] /\ zd[t][m] = dlv[t][m] /\ Len(zd[t]) = Len(dlv[t]) /\ zt[t].st = ts
    BY <1>4 DEF DlvPut, TaskPut
  <2>2. QED
    BY <1>4, <2>1 DEF DeliveriesSound
<1>5. CASE i = t /\ m = n
  <2>1. zd[t][n].st = st /\ zd[t][n].sent = sent /\ Len(zd[t]) = Len(dlv[t]) /\ zt[t].st = ts
    BY DEF DlvPut, TaskPut
  <2>2. QED
    BY <1>5, <2>1
<1>6. QED
  BY <1>3, <1>4, <1>5

\* Only the row of a task changes; no task is reopened.
LEMMA DeliveriesStay ==
    ASSUME TypeOK, DeliveriesSound, NEW t \in Tasks, NEW zt, NEW ts, NEW ff, NEW fs,
           TaskPut(zt, t, ts, ff, fs), ~Live(t) => ts \in Closed
    PROVE  SoundDeliveries(zt, dlv)
<1>1. SUFFICES ASSUME NEW i \in Tasks, NEW m \in DOMAIN dlv[i]
      PROVE  /\ dlv[i][m].sent <= 1
             /\ m < Len(dlv[i]) => dlv[i][m].st \notin Unresolved
             /\ dlv[i][m].sent = 0 => dlv[i][m].st \in {"attempting", "ambiguous", "final"}
             /\ dlv[i][m].st \in {"delivered", "final"} => zt[i].st \in Closed
  BY DEF SoundDeliveries, TaskPut
<1>2. ~Live(i) => zt[i].st \in Closed
  BY DEF TaskPut, Live
<1>3. QED
  BY <1>2 DEF DeliveriesSound

\* A new task has no delivery.
Tables(zt, zd) == zt \in Seq(Task) /\ zd \in Seq(Seq(Delivery)) /\ Len(zd) = Len(zt)

Extended(zt, zd, row, yt, yd) == yt = Append(zt, row) /\ yd = Append(zd, <<>>)

NewRow(zt, zd, yt, yd) ==
    yd[Len(zt) + 1] = <<>> /\ \A i \in DOMAIN zt : yd[i] = zd[i]

LEMMA DeliveriesExtend ==
    ASSUME NEW zt, NEW zd, Tables(zt, zd), SoundDeliveries(zt, zd), NEW row \in Task,
           NEW yt, NEW yd, Extended(zt, zd, row, yt, yd)
    PROVE  SoundDeliveries(yt, yd) /\ Tables(yt, yd) /\ NewRow(zt, zd, yt, yd)
<1>a. zt \in Seq(Task) /\ zd \in Seq(Seq(Delivery)) /\ Len(zd) = Len(zt)
  BY DEF Tables
<1>e. PICK e : e = <<>>
  OBVIOUS
<1>b. yt = Append(zt, row) /\ yd = Append(zd, e)
  BY <1>e DEF Extended
<1>0. e \in Seq(Delivery) /\ DOMAIN e = {}
  BY <1>e
<1>1. /\ yt \in Seq(Task) /\ Len(yt) = Len(zt) + 1 /\ DOMAIN yt = DOMAIN zt \cup {Len(zt) + 1}
      /\ yt[Len(zt) + 1] = row /\ \A j \in DOMAIN zt : yt[j] = zt[j]
  BY <1>a, <1>b, SeqExtend
<1>2. /\ yd \in Seq(Seq(Delivery)) /\ Len(yd) = Len(zd) + 1
      /\ yd[Len(zd) + 1] = e /\ \A j \in DOMAIN zd : yd[j] = zd[j]
  BY <1>0, <1>a, <1>b, SeqExtend
<1>3. DOMAIN zd = DOMAIN zt
  BY <1>a
<1>4. SoundDeliveries(yt, yd)
  <2>1. SUFFICES ASSUME NEW i \in DOMAIN yt, NEW m \in DOMAIN yd[i]
        PROVE  /\ yd[i][m].sent <= 1
               /\ m < Len(yd[i]) => yd[i][m].st \notin Unresolved
               /\ yd[i][m].sent = 0 => yd[i][m].st \in {"attempting", "ambiguous", "final"}
               /\ yd[i][m].st \in {"delivered", "final"} => yt[i].st \in Closed
    BY DEF SoundDeliveries
  <2>2. i \in DOMAIN zt
    BY <1>a, <1>0, <1>1, <1>2, <2>1
  <2>3. yd[i] = zd[i] /\ yt[i] = zt[i]
    BY <1>1, <1>2, <1>3, <2>2
  <2>4. QED
    BY <2>1, <2>2, <2>3 DEF SoundDeliveries
<1>5. Tables(yt, yd) /\ NewRow(zt, zd, yt, yd)
  BY <1>a, <1>e, <1>1, <1>2, <1>3 DEF Tables, NewRow
<1>6. QED
  BY <1>4, <1>5

-----------------------------------------------------------------------------
(* Scheduled actions *)

\* Rows are never taken away, and what was handed over stays handed over.
RowsGrow ==
    /\ Tasks \subseteq Tasks'
    /\ \A t \in Tasks :
          /\ Len(dlv'[t]) \in Nat /\ DOMAIN dlv'[t] = 1..Len(dlv'[t]) /\ Len(dlv[t]) <= Len(dlv'[t])
          /\ \A n \in DOMAIN dlv[t] : dlv'[t][n].sent \in Nat /\ dlv[t][n].sent <= dlv'[t][n].sent

\* The conjuncts of TypeOK.
ClockTyped == now \in 0..MaxTime /\ faults \in 0..MaxFaults /\ points \subseteq 1..Channels
TablesTyped == task \in Seq(Task) /\ dlv \in Seq(Seq(Delivery)) /\ Len(dlv) = Len(task)
WorkTyped ==
    \A k \in DOMAIN work : /\ k \in ActionKey /\ k.t \in Tasks /\ k.n \in 0..Len(dlv[k.t])
                           /\ work[k] \in Action
JobsTyped == job \in [Workers -> Execution \cup {Idle}]

LEMMA TypedParts == TypeOK <=> ClockTyped /\ TablesTyped /\ WorkTyped /\ JobsTyped
BY DEF TypeOK, ClockTyped, TablesTyped, WorkTyped, JobsTyped

LEMMA TypedPartsNext == TypeOK' <=> ClockTyped' /\ TablesTyped' /\ WorkTyped' /\ JobsTyped'
BY DEF TypeOK, ClockTyped, TablesTyped, WorkTyped, JobsTyped

\* A row of the actions is written.
ActionPut(z, k, v) ==
    /\ DOMAIN z = DOMAIN work \cup {k} /\ z[k] = v
    /\ \A j \in DOMAIN work \ {k} : z[j] = work[j]

\* Rows of the actions are dropped.
ActionDrop(z, K) ==
    /\ DOMAIN z = DOMAIN work \ K
    /\ \A j \in DOMAIN work \ K : z[j] = work[j]

LEMMA PutIs ==
    ASSUME NEW k, NEW v, NEW z, z = Put(work, {k}, v)
    PROVE  ActionPut(z, k, v)
BY DEF Put, ActionPut

LEMMA DropIs ==
    ASSUME NEW K, NEW z, z = Drop(work, K)
    PROVE  ActionDrop(z, K)
BY DEF Drop, ActionDrop

\* What ActionsSound asks of one action.
LawfulAction(k, v, time) ==
    /\ k \in ActionKey /\ v \in Action
    /\ v.st # "pending" => k.at <= time
    /\ v.st = "pending" => v.tries < MaxTries
    /\ k.kind = "reconcile" => k.n > 0

LEMMA WorkRowsStay ==
    ASSUME TypeOK, ActionsSound, RowsGrow, NEW k \in DOMAIN work, now' \in Nat, now <= now'
    PROVE  /\ LawfulAction(k, work[k], now')
           /\ k.t \in Tasks' /\ k.n \in 0..Len(dlv'[k.t])
<1>1. /\ k \in ActionKey /\ k.t \in Tasks /\ k.n \in Nat /\ k.n <= Len(dlv[k.t])
      /\ k.at \in Nat /\ work[k] \in Action
  BY ActionAt
<1>2. now \in Nat
  BY DEF TypeOK
<1>3. Len(dlv[k.t]) \in Nat /\ Len(dlv'[k.t]) \in Nat /\ Len(dlv[k.t]) <= Len(dlv'[k.t])
  BY <1>1, LatestAt DEF RowsGrow
<1>4. k.t \in Tasks' /\ k.n \in 0..Len(dlv'[k.t])
  BY <1>1, <1>3 DEF RowsGrow
<1>5. QED
  BY <1>1, <1>2, <1>4 DEF LawfulAction, ActionsSound

LEMMA ActionPutKeeps ==
    ASSUME TypeOK, ActionsSound, RowsGrow, now' \in Nat, now <= now',
           NEW k, NEW v, ActionPut(work', k, v), LawfulAction(k, v, now'),
           k.t \in Tasks', k.n \in 0..Len(dlv'[k.t])
    PROVE  WorkTyped' /\ ActionsSound'
<1>1. \A j \in DOMAIN work' : /\ LawfulAction(j, work'[j], now')
                              /\ j.t \in Tasks' /\ j.n \in 0..Len(dlv'[j.t])
  <2>1. SUFFICES ASSUME NEW j \in DOMAIN work'
        PROVE  /\ LawfulAction(j, work'[j], now')
               /\ j.t \in Tasks' /\ j.n \in 0..Len(dlv'[j.t])
    OBVIOUS
  <2>2. CASE j = k
    BY <2>2 DEF ActionPut
  <2>3. CASE j # k
    <3>1. j \in DOMAIN work /\ work'[j] = work[j]
      BY <2>1, <2>3 DEF ActionPut
    <3>2. QED
      BY <3>1, WorkRowsStay
  <2>4. QED
    BY <2>2, <2>3
<1>2. QED
  BY <1>1 DEF LawfulAction, WorkTyped, ActionsSound

LEMMA ActionDropKeeps ==
    ASSUME TypeOK, ActionsSound, RowsGrow, now' \in Nat, now <= now',
           NEW K, ActionDrop(work', K)
    PROVE  WorkTyped' /\ ActionsSound'
<1>1. \A j \in DOMAIN work' : /\ LawfulAction(j, work'[j], now')
                              /\ j.t \in Tasks' /\ j.n \in 0..Len(dlv'[j.t])
  <2>1. SUFFICES ASSUME NEW j \in DOMAIN work'
        PROVE  /\ LawfulAction(j, work'[j], now')
               /\ j.t \in Tasks' /\ j.n \in 0..Len(dlv'[j.t])
    OBVIOUS
  <2>2. j \in DOMAIN work /\ work'[j] = work[j]
    BY <2>1 DEF ActionDrop
  <2>3. QED
    BY <2>2, WorkRowsStay
<1>2. QED
  BY <1>1 DEF LawfulAction, WorkTyped, ActionsSound

LEMMA ActionsStay ==
    ASSUME TypeOK, ActionsSound, RowsGrow, now' \in Nat, now <= now', work' = work
    PROVE  WorkTyped' /\ ActionsSound'
<1>1. ActionDrop(work', {})
  BY DEF ActionDrop
<1>2. QED
  BY <1>1, ActionDropKeeps

-----------------------------------------------------------------------------
(* Handler executions *)

\* The task a sender works for is left alone by everybody else.
Spared(v) ==
    At(v, "send") =>
        /\ Len(dlv'[Subject(v)]) = Len(dlv[Subject(v)])
        /\ dlv'[Subject(v)][job[v].n].sent = dlv[Subject(v)][job[v].n].sent
        /\ task'[Subject(v)].st \notin {"pending", "cancelled"}

\* What ExecutionSound says of an execution, before and after a step.
SoundWork(j, ts, zt, zd) ==
    /\ j.key.t \in ts
    /\ j.pc = "poison" => j.key.kind = "dispatch"
    /\ j.pc \in {"send", "lookup", "finalize"} =>
          /\ j.n \in DOMAIN zd[j.key.t]
          /\ j.key.kind = "reconcile" => j.n = j.key.n
    /\ j.pc = "send" =>
          /\ j.n = Len(zd[j.key.t]) /\ zd[j.key.t][j.n].sent = 0
          /\ zt[j.key.t].st \notin {"pending", "cancelled"}
    /\ j.pc = "finalize" =>
          /\ j.res # "none"
          /\ zd[j.key.t][j.n].sent = 0 => j.res \in {"ambiguous", "missing"}

LEMMA SoundWorkIs ==
    ASSUME NEW w
    PROVE  ExecutionSound(w) <=> SoundWork(job[w], Tasks, task, dlv)
BY DEF ExecutionSound, SoundWork, Subject, Key, At

LEMMA SoundWorkNext ==
    ASSUME NEW w
    PROVE  ExecutionSound(w)' <=> SoundWork(job'[w], Tasks', task', dlv')
BY DEF ExecutionSound, SoundWork, Subject, Key, At

LEMMA OtherExecution ==
    ASSUME TypeOK, RowsGrow, NEW v \in Workers, ~At(v, "idle"), ExecutionSound(v), Spared(v),
           job'[v] = job[v]
    PROVE  ExecutionSound(v)'
<1> DEFINE t == Subject(v)
           n == job[v].n
<1>1. t \in Tasks /\ t \in Tasks'
  BY DEF ExecutionSound, RowsGrow
<1>2. Len(dlv[t]) \in Nat /\ DOMAIN dlv[t] = 1..Len(dlv[t])
  BY <1>1, LatestAt
<1>3. /\ Len(dlv'[t]) \in Nat /\ DOMAIN dlv'[t] = 1..Len(dlv'[t]) /\ Len(dlv[t]) <= Len(dlv'[t])
      /\ \A m \in DOMAIN dlv[t] : dlv'[t][m].sent \in Nat /\ dlv[t][m].sent <= dlv'[t][m].sent
  BY <1>1 DEF RowsGrow
<1>4. SoundWork(job[v], Tasks, task, dlv)
  BY SoundWorkIs
<1>5. n \in DOMAIN dlv[t] => n \in DOMAIN dlv'[t]
  BY <1>2, <1>3
<1>6. n \in DOMAIN dlv[t] /\ dlv'[t][n].sent = 0 => dlv[t][n].sent = 0
  <2>1. SUFFICES ASSUME n \in DOMAIN dlv[t], dlv'[t][n].sent = 0 PROVE dlv[t][n].sent = 0
    OBVIOUS
  <2>2. dlv[t][n].sent \in Nat
    BY <1>1, <2>1, DeliveryAt
  <2>3. dlv[t][n].sent <= dlv'[t][n].sent
    BY SMTT(30), <1>3, <2>1
  <2>4. QED
    BY <2>1, <2>2, <2>3
<1>7. SoundWork(job[v], Tasks', task', dlv')
  BY <1>1, <1>4, <1>5, <1>6 DEF SoundWork, Spared, At, Subject, Key
<1>8. QED
  BY <1>7, SoundWorkNext

\* One execution moves.
LEMMA ExecutionsKeep ==
    ASSUME TypeOK, ExecutionsSound, RowsGrow, NEW w \in Workers,
           \A v \in Workers \ {w} : job'[v] = job[v] /\ Spared(v),
           ~At(w, "idle")' => ExecutionSound(w)',
           At(w, "send")' => \A v \in Workers \ {w} : At(v, "send") => Subject(v) # Subject(w)'
    PROVE  ExecutionsSound'
<1>1. ASSUME NEW v \in Workers, ~At(v, "idle")' PROVE ExecutionSound(v)'
  <2>1. CASE v = w
    BY <1>1, <2>1
  <2>2. CASE v # w
    <3>1. job'[v] = job[v] /\ Spared(v)
      BY <2>2
    <3>2. ~At(v, "idle")
      BY <1>1, <3>1 DEF At
    <3>3. ExecutionSound(v)
      BY <3>2 DEF ExecutionsSound
    <3>4. QED
      BY <3>1, <3>2, <3>3, OtherExecution
  <2>3. QED
    BY <2>1, <2>2
<1>2. ASSUME NEW u \in Workers, NEW v \in Workers, At(u, "send")', At(v, "send")',
             Subject(u)' = Subject(v)'
      PROVE  u = v
  <2>1. ASSUME NEW x \in Workers \ {w} PROVE (At(x, "send")' <=> At(x, "send")) /\ Subject(x)' = Subject(x)
    <3>1. job'[x] = job[x]
      OBVIOUS
    <3>2. QED
      BY <3>1 DEF At, Subject
  <2>2. CASE u # w /\ v # w
    BY <1>2, <2>1, <2>2 DEF ExecutionsSound
  <2>3. CASE u = w /\ v # w
    BY <1>2, <2>1, <2>3
  <2>4. CASE v = w /\ u # w
    BY <1>2, <2>1, <2>4
  <2>5. QED
    BY <2>2, <2>3, <2>4
<1>3. QED
  BY <1>1, <1>2 DEF ExecutionsSound

\* No execution moves.
LEMMA ExecutionsStay ==
    ASSUME TypeOK, ExecutionsSound, RowsGrow, job' = job, \A v \in Workers : Spared(v)
    PROVE  ExecutionsSound'
<1>1. ASSUME NEW v \in Workers, ~At(v, "idle")' PROVE ExecutionSound(v)'
  <2>1. ~At(v, "idle") /\ job'[v] = job[v]
    BY <1>1 DEF At
  <2>2. ExecutionSound(v)
    BY <2>1 DEF ExecutionsSound
  <2>3. QED
    BY <2>1, <2>2, OtherExecution
<1>2. ASSUME NEW u \in Workers, NEW v \in Workers, At(u, "send")', At(v, "send")',
             Subject(u)' = Subject(v)'
      PROVE  u = v
  BY <1>2 DEF ExecutionsSound, At, Subject
<1>3. QED
  BY <1>1, <1>2 DEF ExecutionsSound

-----------------------------------------------------------------------------
(* Coverage *)

\* An action that, left alone, will act on the latest delivery.
Apt(k) ==
    k.kind = "dispatch" \/ (LatestStatus(k.t) \in Unresolved /\ k.n = Len(dlv[k.t]))

\* What covers a task whatever the executions are doing.
Settled(t) ==
    \/ ~Live(t)
    \/ GivenUp(t)
    \/ \E k \in DOMAIN work : k.t = t /\ work[k].st = "pending" /\ Apt(k)

LEMMA OneExecutor ==
    ASSUME NEW v, NEW w, NEW k, Executing(v, k), Executing(w, k)
    PROVE  v = w
BY DEF Executing, Owned

LEMMA CoverIsApt ==
    ASSUME TypeOK, ExecutionsSound, NEW k \in DOMAIN work, Covers(k)
    PROVE  Apt(k) /\ Open(k)
<1>1. CASE ~Asking(k)
  BY <1>1 DEF Covers, Apt
<1>2. CASE Asking(k)
  <2>1. PICK w \in Workers : /\ Executing(w, k) /\ job[w].pc \in {"send", "lookup", "finalize"}
                             /\ job[w].n = Len(dlv[k.t])
    BY <1>2 DEF Asking
  <2>2. ~At(w, "idle") /\ Key(w) = k
    BY <2>1 DEF Executing
  <2>3. k.kind = "reconcile" => job[w].n = k.n
    BY <2>1, <2>2 DEF ExecutionsSound, ExecutionSound
  <2>4. k.kind \in {"dispatch", "reconcile"}
    BY ActionAt
  <2>5. QED
    BY <2>1, <2>3, <2>4 DEF Covers, Apt
<1>3. QED
  BY <1>1, <1>2 DEF Covers

LEMMA UndecidedCovers ==
    ASSUME NEW k, Open(k)', Apt(k)', Undecided(k)'
    PROVE  Covers(k)'
BY DEF Covers, Apt

LEMMA PendingCovers ==
    ASSUME NEW k, work'[k].st = "pending", Apt(k)'
    PROVE  Covers(k)'
<1>1. Open(k)'
  BY DEF Open
<1>2. \A w \in Workers : ~Executing(w, k)'
  BY DEF Executing, Owned
<1>3. Undecided(k)'
  BY <1>2 DEF Undecided
<1>4. QED
  BY <1>1, <1>3, UndecidedCovers

LEMMA SettledCovered ==
    ASSUME NEW t, Settled(t)'
    PROVE  Covered(t)'
<1>1. CASE (~Live(t))' \/ GivenUp(t)'
  BY <1>1 DEF Covered
<1>2. CASE \E k \in DOMAIN work' : k.t = t /\ work'[k].st = "pending" /\ Apt(k)'
  <2>1. PICK k \in DOMAIN work' : k.t = t /\ work'[k].st = "pending" /\ Apt(k)'
    BY <1>2
  <2>2. Covers(k)'
    BY <2>1, PendingCovers
  <2>3. QED
    BY <2>1, <2>2 DEF Covered
<1>3. QED
  BY <1>1, <1>2 DEF Settled

\* The latest delivery of task t is as before.
SameLatest(t) == Len(dlv'[t]) = Len(dlv[t]) /\ LatestStatus(t)' = LatestStatus(t)

LEMMA CoverStays ==
    ASSUME NEW k \in DOMAIN work, k \in DOMAIN work', Covers(k), work'[k] = work[k],
           SameLatest(k.t),
           \A w \in Workers : Executing(w, k) \/ Executing(w, k)' => job'[w] = job[w]
    PROVE  Covers(k)'
<1>1. Open(k)'
  BY DEF Open, Covers
<1>2. \A w \in Workers : Executing(w, k) <=> Executing(w, k)'
  BY DEF Executing, Owned, At, Key
<1>3. \A w \in Workers : Executing(w, k) => job'[w] = job[w]
  OBVIOUS
<1>4. Undecided(k) => Undecided(k)'
  BY <1>2, <1>3 DEF Undecided
<1>5. Asking(k) => Asking(k)'
  BY <1>2, <1>3 DEF Asking, SameLatest
<1>6. QED
  BY <1>1, <1>4, <1>5 DEF Covers, SameLatest

\* Outside action k0, nothing that matters for task t changes.
Around(t, k0) ==
    /\ task'[t].exp = task[t].exp
    /\ Live(t)' => Live(t)
    /\ SameLatest(t)
    /\ \A k \in DOMAIN work \ {k0} : k.t = t => k \in DOMAIN work' /\ work'[k] = work[k]
    /\ \A w \in Workers : \A k \in DOMAIN work \ {k0} :
          k.t = t /\ (Executing(w, k) \/ Executing(w, k)') => job'[w] = job[w]

LEMMA CoveredAround ==
    ASSUME TypeOK, NEW t \in Tasks, Covered(t), NEW k0, Around(t, k0), now' \in Nat, now <= now',
           k0 \in DOMAIN work /\ k0.t = t /\ work[k0].st = "dead"
              => k0 \in DOMAIN work' /\ work'[k0] = work[k0],
           k0 \in DOMAIN work /\ k0.t = t /\ Covers(k0)
              => GivenUp(t)' \/ (k0 \in DOMAIN work' /\ Covers(k0)')
    PROVE  Covered(t)'
<1>1. SUFFICES ASSUME Live(t)' PROVE GivenUp(t)' \/ \E k \in DOMAIN work' : k.t = t /\ Covers(k)'
  BY DEF Covered
<1>2. GivenUp(t) \/ \E k \in DOMAIN work : k.t = t /\ Covers(k)
  BY <1>1 DEF Covered, Around
<1>3. CASE GivenUp(t)
  <2>1. CASE Expired(t) /\ LatestStatus(t) = "retryable"
    <3>1. now \in Nat /\ task[t].exp \in Nat
      BY TaskAt, TaskFields DEF TypeOK
    <3>2. Expired(t)' /\ LatestStatus(t)' = "retryable"
      BY <2>1, <3>1 DEF Expired, Around, SameLatest
    <3>3. QED
      BY <3>2 DEF GivenUp
  <2>2. CASE \E k \in DOMAIN work : k.t = t /\ work[k].st = "dead"
    <3>1. PICK k \in DOMAIN work : k.t = t /\ work[k].st = "dead"
      BY <2>2
    <3>2. k \in DOMAIN work' /\ work'[k] = work[k]
      BY <3>1 DEF Around
    <3>3. QED
      BY <3>1, <3>2 DEF GivenUp
  <2>3. QED
    BY <1>3, <2>1, <2>2 DEF GivenUp
<1>4. CASE \E k \in DOMAIN work : k.t = t /\ Covers(k)
  <2>1. PICK k \in DOMAIN work : k.t = t /\ Covers(k)
    BY <1>4
  <2>2. CASE k = k0
    BY <2>1, <2>2
  <2>3. CASE k # k0
    <3>1. k \in DOMAIN work' /\ work'[k] = work[k] /\ SameLatest(k.t)
      BY <2>1, <2>3 DEF Around
    <3>2. \A w \in Workers : Executing(w, k) \/ Executing(w, k)' => job'[w] = job[w]
      BY <2>1, <2>3 DEF Around
    <3>3. Covers(k)'
      BY <2>1, <3>1, <3>2, CoverStays
    <3>4. QED
      BY <2>1, <3>1, <3>3
  <2>4. QED
    BY <2>2, <2>3
<1>5. QED
  BY <1>2, <1>3, <1>4

\* The executions of other actions, when one execution moves.
LEMMA ExecutorsStay ==
    ASSUME NEW w \in Workers, ~At(w, "idle"), \A v \in Workers \ {w} : job'[v] = job[v],
           At(w, "idle")' \/ job'[w].key = job[w].key,
           NEW v \in Workers, NEW k, k # Key(w), Executing(v, k) \/ Executing(v, k)'
    PROVE  job'[v] = job[v]
BY DEF Executing, Key

\* A task that no step touches.
LEMMA CoveredUntouched ==
    ASSUME TypeOK, NEW t \in Tasks, Covered(t), NEW k0, Around(t, k0), now' \in Nat, now <= now',
           k0.t # t
    PROVE  Covered(t)'
BY CoveredAround

-----------------------------------------------------------------------------
(* Steps on the rows of one task *)

\* The deliveries of task t keep their number and their handovers, the others
\* stay as they are.
DlvKept(z, t) ==
    /\ z \in Seq(Seq(Delivery)) /\ Len(z) = Len(task)
    /\ Len(z[t]) = Len(dlv[t])
    /\ \A n \in DOMAIN dlv[t] : z[t][n].sent = dlv[t][n].sent
    /\ \A i \in Tasks \ {t} : z[i] = dlv[i]

\* Nobody is about to send a message of task t.
NoSender(t) == \A v \in Workers : At(v, "send") => Subject(v) # t

\* What a transaction on the rows of task t leaves behind.
RowStep(t) ==
    /\ TablesTyped' /\ WorkTyped' /\ ActionsSound' /\ TasksSound' /\ DeliveriesSound'
    /\ RowsGrow
    /\ \A i \in Tasks \ {t} : task'[i] = task[i] /\ dlv'[i] = dlv[i]
    /\ \A k \in DOMAIN work : k.t # t => k \in DOMAIN work' /\ work'[k] = work[k]
    /\ \A i \in Tasks' \ Tasks : Settled(i)'
    /\ \A v \in Workers : Spared(v)

LEMMA ResultKept ==
    ASSUME TypeOK, NEW t \in Tasks, NEW n \in DOMAIN dlv[t], NEW z, NEW st,
           DlvPut(z, t, n, st, dlv[t][n].sent)
    PROVE  DlvKept(z, t)
<1>1. t \in DOMAIN dlv /\ Tasks \subseteq DOMAIN dlv /\ Len(dlv) = Len(task)
  BY TaskAt DEF TypeOK
<1>2. QED
  BY <1>1 DEF DlvPut, DlvKept

LEMMA SameKept ==
    ASSUME TypeOK, NEW t \in Tasks
    PROVE  DlvKept(dlv, t)
BY DEF DlvKept, TypeOK

\* The table of deliveries, seen from the one before.
LEMMA KeptGrows ==
    ASSUME TypeOK, NEW t \in Tasks, NEW z, DlvKept(z, t), NEW i \in Tasks
    PROVE  /\ Len(z[i]) \in Nat /\ DOMAIN z[i] = 1..Len(z[i]) /\ Len(z[i]) = Len(dlv[i])
           /\ \A n \in DOMAIN dlv[i] : z[i][n].sent \in Nat /\ z[i][n].sent = dlv[i][n].sent
<1>1. i \in DOMAIN z
  BY DEF DlvKept, Tasks, TypeOK
<1>2. z[i] \in Seq(Delivery)
  BY <1>1 DEF DlvKept
<1>3. Len(z[i]) = Len(dlv[i]) /\ \A n \in DOMAIN dlv[i] : z[i][n].sent = dlv[i][n].sent
  BY DEF DlvKept
<1>4. \A n \in DOMAIN dlv[i] : dlv[i][n].sent \in Nat
  BY DeliveryAt
<1>5. QED
  BY <1>2, <1>3, <1>4

\* A sender whose task keeps its deliveries and is not put back or cancelled.
LEMMA SparedIs ==
    ASSUME TypeOK, ExecutionsSound, NEW t \in Tasks,
           \A i \in Tasks : /\ Len(dlv'[i]) = Len(dlv[i])
                            /\ \A n \in DOMAIN dlv[i] : dlv'[i][n].sent = dlv[i][n].sent,
           \A i \in Tasks \ {t} : task'[i] = task[i],
           task'[t].st \notin {"pending", "cancelled"} \/ NoSender(t),
           NEW v \in Workers
    PROVE  Spared(v)
<1>1. SUFFICES ASSUME At(v, "send")
      PROVE  /\ Len(dlv'[Subject(v)]) = Len(dlv[Subject(v)])
             /\ dlv'[Subject(v)][job[v].n].sent = dlv[Subject(v)][job[v].n].sent
             /\ task'[Subject(v)].st \notin {"pending", "cancelled"}
  BY DEF Spared
<1>2. ExecutionSound(v)
  BY <1>1 DEF ExecutionsSound, At
<1>3. /\ Subject(v) \in Tasks /\ job[v].n \in DOMAIN dlv[Subject(v)]
      /\ task[Subject(v)].st \notin {"pending", "cancelled"}
  BY <1>1, <1>2 DEF ExecutionSound, At
<1>4. QED
  BY <1>1, <1>3 DEF NoSender

\* A transaction that changes one task, keeps its deliveries' number and
\* handovers, and writes lawful actions.
LEMMA RowStepIs ==
    ASSUME TypeOK, TasksSound, ExecutionsSound, NEW t \in Tasks, NEW st, NEW ff, NEW fs,
           TaskPut(task', t, st, ff, fs), LawfulTask(t, st, ff, fs), DlvKept(dlv', t),
           SoundDeliveries(task', dlv'),
           st \notin {"pending", "cancelled"} \/ NoSender(t),
           RowsGrow => WorkTyped' /\ ActionsSound',
           \A k \in DOMAIN work : k.t # t => k \in DOMAIN work' /\ work'[k] = work[k]
    PROVE  RowStep(t) /\ Tasks' = Tasks
<1>1. TasksSound' /\ Tasks' = Tasks
  BY TaskChangeKeeps
<1>2. TablesTyped'
  BY DEF TablesTyped, TaskPut, DlvKept
<1>3. \A i \in Tasks :
         /\ Len(dlv'[i]) \in Nat /\ DOMAIN dlv'[i] = 1..Len(dlv'[i]) /\ Len(dlv'[i]) = Len(dlv[i])
         /\ \A n \in DOMAIN dlv[i] : dlv'[i][n].sent \in Nat /\ dlv'[i][n].sent = dlv[i][n].sent
  BY KeptGrows
<1>4. RowsGrow
  BY <1>1, <1>3 DEF RowsGrow
<1>5. \A i \in Tasks \ {t} : task'[i] = task[i] /\ dlv'[i] = dlv[i]
  BY DEF TaskPut, DlvKept
<1>6. task'[t].st = st
  BY DEF TaskPut
<1>7. \A v \in Workers : Spared(v)
  BY <1>3, <1>5, <1>6, SparedIs
<1>8. DeliveriesSound'
  BY DeliveriesTableNext
<1>9. QED
  BY <1>1, <1>2, <1>4, <1>5, <1>7, <1>8 DEF RowStep

LEMMA FirstIsLeast ==
    ASSUME NEW S, S \subseteq Nat, S # {}
    PROVE  FirstOf(S) \in S
<1>1. PICK x \in S : \A y \in S : ~(<<y, x>> \in OpToRel(<, Nat))
  BY NatLessThanWellFounded, WFMin
<1>2. ASSUME NEW y \in S PROVE x <= y
  <2>1. x \in Nat /\ y \in Nat
    OBVIOUS
  <2>2. ~(y < x)
    BY <1>1, <2>1 DEF OpToRel
  <2>3. QED
    BY <2>1, <2>2
<1>3. QED
  BY <1>2 DEF FirstOf

LEMMA NewTaskIs ==
    ASSUME NEW exp \in Nat, NEW pin \in 0..Channels, NEW parent \in Nat, NEW root \in Nat,
           NEW via \in 0..Channels, NEW row, row = NewTask(exp, pin, parent, root, via)
    PROVE  /\ row \in Task /\ row.st = "pending" /\ row.exp = exp /\ row.parent = parent
           /\ row.root = root /\ row.failedFacts = 0
BY DEF NewTask, Task

\* A fresh action is put in for a task.
LEMMA FreshIs ==
    ASSUME NEW k \in ActionKey, NEW time, k.kind = "reconcile" => k.n > 0
    PROVE  LawfulAction(k, Fresh, time) /\ Fresh.st = "pending"
BY DeliveryAssumption DEF LawfulAction, Fresh, Action

LEMMA DispatchIs ==
    ASSUME NEW t \in Nat, NEW n \in Nat, NEW at \in Nat, NEW k, k = Dispatch(t, n, at)
    PROVE  k \in ActionKey /\ k.kind = "dispatch" /\ k.t = t /\ k.n = n /\ k.at = at
BY DEF Dispatch, ActionKey

LEMMA ReconcileIs ==
    ASSUME NEW t \in Nat, NEW n \in Nat, NEW at \in Nat, NEW k, k = Reconcile(t, n, at)
    PROVE  k \in ActionKey /\ k.kind = "reconcile" /\ k.t = t /\ k.n = n /\ k.at = at
BY DEF Reconcile, ActionKey

\* The escalation step of a task that has just failed, or was closed before.
LEMMA EscalationStep ==
    ASSUME TypeOK, TasksSound, ExecutionsSound, ActionsSound, NEW t \in Tasks,
           NEW ts, NEW ds, NEW st \in Closed, NEW ff,
           TaskPut(ts, t, st, ff, task[t].facts),
           \/ Live(t) /\ st = "failed" /\ ff = task[t].failedFacts + 1
           \/ ~Live(t) /\ st = task[t].st /\ ff = task[t].failedFacts,
           st # "cancelled" \/ NoSender(t),
           DlvKept(ds, t), SoundDeliveries(ts, ds), now' = now,
           EscalateChannel(ts, ds, t)
    PROVE  RowStep(t) /\ (~Live(t))'
<1>0. now' \in Nat /\ now <= now' /\ st # "pending"
  BY DEF TypeOK, Closed
<1>a. DOMAIN ts = Tasks /\ ts \in Seq(Task) /\ Len(ts) = Len(task) /\ t # NoTask
  BY TaskAt DEF TaskPut, NoTask
<1>1. CASE ~MayEscalate(ts, t)
  <2>1. task' = ts /\ dlv' = ds /\ work' = work
    BY <1>1 DEF EscalateChannel
  <2>2. LawfulTask(t, st, ff, task[t].facts)
    <3>1. CASE ~Live(t)
      BY <3>1 DEF LawfulTask
    <3>2. CASE Live(t)
      <4>1. st = "failed" /\ ff = task[t].failedFacts + 1 /\ ts[t].st = "failed"
        BY <3>2 DEF TaskPut
      <4>2. PICK i \in Children(ts, t) : ts[i].st \notin Closed \/ ts[i].parent = t
        BY <1>1, <4>1 DEF MayEscalate
      <4>3. i \in Tasks /\ ts[i].root = ts[t].root /\ ts[i].parent # NoTask
        BY <1>a, <4>2 DEF Children, Lineage
      <4>4. ts[i].root = task[i].root /\ ts[t].root = task[t].root /\ ts[i].parent = task[i].parent
        BY <4>3 DEF TaskPut
      <4>5. ts[i].st \in Closed
        <5>1. CASE i = t
          BY <4>1, <5>1 DEF Closed
        <5>2. CASE i # t
          <6>1. ts[i] = task[i]
            BY <4>3, <5>2 DEF TaskPut
          <6>2. ~Live(i)
            BY <3>2, <4>3, <4>4, <5>2 DEF TasksSound, SequentialEscalation
          <6>3. QED
            BY <6>1, <6>2 DEF Live
        <5>3. QED
          BY <5>1, <5>2
      <4>6. task[i].parent = t
        BY <4>2, <4>4, <4>5
      <4>7. QED
        BY <3>2, <4>1, <4>3, <4>6 DEF LawfulTask
    <3>3. QED
      BY <3>1, <3>2
  <2>3. \A k \in DOMAIN work : k.t # t => k \in DOMAIN work' /\ work'[k] = work[k]
    BY <2>1
  <2>4. RowsGrow => WorkTyped' /\ ActionsSound'
    BY <1>0, <2>1, ActionsStay
  <2>5. RowStep(t)
    BY <1>0, <2>1, <2>2, <2>3, <2>4, RowStepIs
  <2>6. QED
    BY <2>1, <2>5 DEF Live, TaskPut
<1>2. CASE MayEscalate(ts, t) /\ Refused(ts, ds, t)
  <2>1. task' = LineageUnreachable(ts, t) /\ dlv' = ds /\ work' = work
    BY <1>2 DEF EscalateChannel
  <2> DEFINE fs == task[t].facts \cup {"unreachable"}
  <2>2. TaskPut(task', t, st, ff, fs)
    BY <2>1, FactPut
  <2>3. fs # {} /\ task[t].facts \subseteq fs
    OBVIOUS
  <2> HIDE DEF fs
  <2>4. LawfulTask(t, st, ff, fs)
    BY <2>3 DEF LawfulTask
  <2>5. SoundDeliveries(task', dlv')
    <3>1. DOMAIN task' = DOMAIN ts /\ \A i \in DOMAIN ts : task'[i].st = ts[i].st
      BY <2>2 DEF TaskPut
    <3>2. QED
      BY <2>1, <3>1 DEF SoundDeliveries
  <2>6. \A k \in DOMAIN work : k.t # t => k \in DOMAIN work' /\ work'[k] = work[k]
    BY <2>1
  <2>7. RowsGrow => WorkTyped' /\ ActionsSound'
    BY <1>0, <2>1, ActionsStay
  <2>8. RowStep(t)
    BY <1>0, <2>1, <2>2, <2>4, <2>5, <2>6, <2>7, RowStepIs
  <2>9. QED
    BY <2>2, <2>8 DEF Live, TaskPut
<1>3. CASE MayEscalate(ts, t) /\ ~Refused(ts, ds, t)
  <2>i. PICK i : i = Len(task) + 1
    OBVIOUS
  <2>c. PICK c : c = FirstOf(NextChannels(ts, ds, t))
    OBVIOUS
  <2>r. PICK row : row = NewTask(ChildDeadline(ts[t].exp), c, t, ts[t].root, c)
    OBVIOUS
  <2>k. PICK k : k = Dispatch(i, 0, now)
    OBVIOUS
  <2>1. /\ task' = Append(ts, row) /\ dlv' = Append(ds, <<>>) /\ work' = Put(work, {k}, Fresh)
    BY <1>a, <1>3, <2>i, <2>c, <2>r, <2>k DEF EscalateChannel
  <2>2. i \in Nat /\ t \in Nat /\ ts[t] \in Task /\ now \in Nat
    BY <1>a, <2>i, TaskAt DEF TypeOK
  <2>3. ChildDeadline(ts[t].exp) \in Nat
    BY <2>2, TaskFields, DeliveryAssumption DEF ChildDeadline, LatestOf
  <2>4. c \in 1..Channels
    <3>1. NextChannels(ts, ds, t) \subseteq 1..Channels /\ NextChannels(ts, ds, t) # {}
      BY <1>3 DEF NextChannels, Refused, TypeOK
    <3>2. NextChannels(ts, ds, t) \subseteq Nat
      BY <3>1
    <3>3. QED
      BY <2>c, <3>1, <3>2, FirstIsLeast
  <2>5. ts[t].root \in Nat
    BY <2>2, TaskFields
  <2>6. /\ row \in Task /\ row.st = "pending" /\ row.parent = t /\ row.root = ts[t].root
        /\ row.failedFacts = 0
    <3>1. c \in 0..Channels
      BY <2>4
    <3>2. PICK exp \in Nat : exp = ChildDeadline(ts[t].exp)
      BY <2>3
    <3>3. PICK root \in Nat : root = ts[t].root
      BY <2>5
    <3>4. row = NewTask(exp, c, t, root, c)
      BY <2>r, <3>2, <3>3
    <3>5. t \in Nat
      BY <2>2
    <3>6. /\ row \in Task /\ row.st = "pending" /\ row.parent = t /\ row.root = root
          /\ row.failedFacts = 0
      BY SMTT(30), <3>1, <3>4, <3>5, NewTaskIs
    <3>7. QED
      BY <3>3, <3>6
  <2>7. k \in ActionKey /\ k.kind = "dispatch" /\ k.t = i /\ k.n = 0
    BY SMTT(30), <2>k, <2>2, DispatchIs
  <2>8. ts[t].st = "failed" /\ st = "failed"
    BY <1>3 DEF MayEscalate, TaskPut
  <2>9. SoundTable(task')
    BY <1>3, <2>1, <2>6, <2>8, ChildKeeps DEF Live, Closed
  <2>10. TasksSound'
    BY <2>9, TableIsTasksNext
  <2>11. ds \in Seq(Seq(Delivery)) /\ Len(ds) = Len(ts)
    BY <1>a DEF DlvKept
  <2>12. /\ SoundDeliveries(task', dlv')
         /\ task' \in Seq(Task) /\ dlv' \in Seq(Seq(Delivery)) /\ Len(dlv') = Len(task')
         /\ dlv'[i] = <<>> /\ \A j \in DOMAIN ts : dlv'[j] = ds[j]
    <3>1. PICK yt, yd : yt = task' /\ yd = dlv'
      OBVIOUS
    <3>2. Tables(ts, ds)
      BY <1>a, <2>11 DEF Tables
    <3>3. Extended(ts, ds, row, yt, yd)
      BY <2>1, <3>1 DEF Extended
    <3>4. SoundDeliveries(yt, yd) /\ Tables(yt, yd) /\ NewRow(ts, ds, yt, yd)
      BY <2>6, <3>2, <3>3, DeliveriesExtend
    <3>5. QED
      BY <1>a, <2>i, <3>1, <3>4 DEF Tables, NewRow
  <2>13. /\ Tasks' = Tasks \cup {i} /\ i \notin Tasks /\ task'[i] = row
         /\ \A j \in Tasks : task'[j] = ts[j]
    BY <1>a, <2>i, <2>1, <2>6, SeqExtend DEF Tasks
  <2>14. \A j \in Tasks :
           /\ Len(dlv'[j]) \in Nat /\ DOMAIN dlv'[j] = 1..Len(dlv'[j]) /\ Len(dlv'[j]) = Len(dlv[j])
           /\ \A n \in DOMAIN dlv[j] : dlv'[j][n].sent \in Nat /\ dlv'[j][n].sent = dlv[j][n].sent
    <3>1. \A j \in Tasks :
            /\ Len(ds[j]) \in Nat /\ DOMAIN ds[j] = 1..Len(ds[j]) /\ Len(ds[j]) = Len(dlv[j])
            /\ \A n \in DOMAIN dlv[j] : ds[j][n].sent \in Nat /\ ds[j][n].sent = dlv[j][n].sent
      BY KeptGrows
    <3>2. \A j \in Tasks : dlv'[j] = ds[j]
      BY <1>a, <2>12
    <3>3. QED
      BY <3>1, <3>2
  <2>15. RowsGrow
    BY <2>13, <2>14 DEF RowsGrow
  <2>16. \A j \in Tasks \ {t} : task'[j] = task[j] /\ dlv'[j] = dlv[j]
    BY <1>a, <2>12, <2>13 DEF TaskPut, DlvKept
  <2>17. task'[t].st = "failed"
    BY <2>8, <2>13
  <2>18. \A v \in Workers : Spared(v)
    BY <2>14, <2>16, <2>17, SparedIs
  <2>19. ActionPut(work', k, Fresh)
    BY <2>1, PutIs
  <2>20. LawfulAction(k, Fresh, now') /\ Fresh.st = "pending"
    BY <2>7, FreshIs
  <2>21. k.t \in Tasks' /\ k.n \in 0..Len(dlv'[k.t])
    BY <2>7, <2>12, <2>13
  <2>22. WorkTyped' /\ ActionsSound'
    BY <1>0, <2>15, <2>19, <2>20, <2>21, ActionPutKeeps
  <2>23. \A j \in DOMAIN work : j.t # t => j \in DOMAIN work' /\ work'[j] = work[j]
    <3>1. k \notin DOMAIN work
      BY <2>7, <2>13, ActionAt
    <3>2. QED
      BY <2>19, <3>1 DEF ActionPut
  <2>24. Settled(i)'
    <3>1. k \in DOMAIN work' /\ work'[k].st = "pending" /\ Apt(k)'
      BY <2>7, <2>19, <2>20 DEF ActionPut, Apt
    <3>2. QED
      BY <2>7, <3>1 DEF Settled
  <2>25. RowStep(t)
    <3>1. TablesTyped' /\ DeliveriesSound'
      BY <2>12, DeliveriesTableNext DEF TablesTyped
    <3>2. \A j \in Tasks' \ Tasks : Settled(j)'
      BY <2>13, <2>24
    <3>3. QED
      BY <2>10, <2>15, <2>16, <2>18, <2>22, <2>23, <3>1, <3>2 DEF RowStep
  <2>26. QED
    BY <2>17, <2>25 DEF Live, Closed
<1>4. QED
  BY <1>1, <1>2, <1>3

\* A task is closed as failed, or found closed, and escalated.
LEMMA ClosingStep ==
    ASSUME TypeOK, TasksSound, DeliveriesSound, ExecutionsSound, ActionsSound, NEW t \in Tasks,
           NEW ds, DlvKept(ds, t), now' = now,
           \A zt : TaskPut(zt, t, "failed", task[t].failedFacts + 1, task[t].facts) /\ Live(t)
                   => SoundDeliveries(zt, ds),
           ~Live(t) => SoundDeliveries(task, ds),
           CloseTaskFailedAndEscalate(t, ds)
    PROVE  RowStep(t) /\ (~Live(t))'
<1>1. CASE Live(t)
  <2>1. PICK ts : ts = FailedTask(t, {})
    OBVIOUS
  <2>2. EscalateChannel(ts, ds, t)
    BY <1>1, <2>1 DEF CloseTaskFailedAndEscalate
  <2>3. TaskPut(ts, t, "failed", task[t].failedFacts + 1, task[t].facts)
    <3>1. TaskPut(ts, t, "failed", task[t].failedFacts + 1, task[t].facts \cup {})
      BY <2>1, FailedPut DEF Facts
    <3>2. task[t].facts \cup {} = task[t].facts
      OBVIOUS
    <3>3. QED
      BY <3>1, <3>2
  <2>4. SoundDeliveries(ts, ds)
    BY <1>1, <2>3
  <2>5. "failed" \in Closed
    BY DEF Closed
  <2>6. QED
    BY <1>1, <2>2, <2>3, <2>4, <2>5, EscalationStep
<1>2. CASE ~Live(t)
  <2>1. EscalateChannel(task, ds, t)
    BY <1>2 DEF CloseTaskFailedAndEscalate
  <2>2. TaskPut(task, t, task[t].st, task[t].failedFacts, task[t].facts)
    BY NothingPut
  <2>3. task[t].st \in Closed
    BY <1>2 DEF Live
  <2>4. task[t].st # "cancelled" \/ NoSender(t)
    BY DEF NoSender, ExecutionsSound, ExecutionSound, At
  <2>5. QED
    BY <1>2, <2>1, <2>2, <2>3, <2>4, EscalationStep
<1>3. QED
  BY <1>1, <1>2

\* Which results finalize_provider_result is given: what the provider did not
\* receive is only ever ambiguous, or definitively failed for want of a provider.
Reportable(t, n, r) == dlv[t][n].sent = 0 => r \in {"ambiguous", "final"}

\* An accepted result that does not end the task is about the latest delivery.
LEMMA AcceptedIsLatest ==
    ASSUME TypeOK, DeliveriesSound, NEW t \in Tasks, NEW n \in DOMAIN dlv[t], NEW r \in Results,
           AcceptsResult(t, n, r), r # "delivered"
    PROVE  dlv[t][n].st \in Unresolved /\ n = Len(dlv[t]) /\ LatestStatus(t) = dlv[t][n].st
<1>1. dlv[t][n].st \in Answers /\ n \in Nat /\ n <= Len(dlv[t]) /\ Len(dlv[t]) \in Nat
  BY DeliveryAt, LatestAt
<1>2. dlv[t][n].st \in Unresolved
  BY <1>1 DEF AcceptsResult, Unresolved, Answers, Results
<1>3. n = Len(dlv[t])
  BY <1>1, <1>2 DEF DeliveriesSound
<1>4. QED
  BY <1>2, <1>3, LatestAt

LEMMA LatestNext ==
    ASSUME TypeOK, NEW t \in Tasks, NEW n \in DOMAIN dlv[t], n = Len(dlv[t]), NEW st, NEW sent,
           DlvPut(dlv', t, n, st, sent)
    PROVE  LatestStatus(t)' = st /\ Len(dlv'[t]) = n
<1>1. t \in DOMAIN dlv' /\ dlv' \in Seq(Seq(Delivery))
  BY TaskAt DEF DlvPut
<1>2. Len(dlv'[t]) = n /\ dlv'[t] # <<>>
  <2>1. Len(dlv'[t]) = n /\ n # 0
    BY DeliveryAt DEF DlvPut
  <2>2. QED
    BY <2>1
<1>3. dlv'[t][n].st = st
  BY DEF DlvPut
<1>4. QED
  BY <1>2, <1>3 DEF LatestStatus

LEMMA SenderTask ==
    ASSUME ExecutionsSound, NEW t
    PROVE  task[t].st \notin {"pending", "cancelled"} \/ NoSender(t)
BY DEF NoSender, ExecutionsSound, ExecutionSound, At

\* An action that is not due yet waits.
LEMMA FutureIsPending ==
    ASSUME TypeOK, ActionsSound, NEW k \in DOMAIN work, k.at > now
    PROVE  work[k].st = "pending"
<1>1. k.at \in Nat /\ now \in Nat
  BY ActionAt DEF TypeOK
<1>2. QED
  BY <1>1 DEF ActionsSound

\* A result that is accepted leaves the task closed, given up, or with an action
\* that acts on its latest delivery.
LEMMA FinalizingStep ==
    ASSUME TypeOK, TasksSound, DeliveriesSound, ExecutionsSound, ActionsSound, now' = now,
           NEW t \in Tasks, NEW n \in DOMAIN dlv[t], NEW r \in Results,
           Reportable(t, n, r), AcceptsResult(t, n, r), FinalizeProviderResult(t, n, r)
    PROVE  RowStep(t) /\ Settled(t)'
<1>0. now' \in Nat /\ now <= now' /\ now \in Nat
  BY DEF TypeOK
<1>a. /\ dlv[t][n].sent \in Nat /\ dlv[t][n].sent <= 1 /\ n \in Nat \ {0} /\ n <= Len(dlv[t])
      /\ t \in Nat /\ Len(dlv[t]) \in Nat
  BY DeliveryAt, TaskAt, LatestAt DEF DeliveriesSound
<1>d. PICK ds : ds = [dlv EXCEPT ![t][n].st = r]
  OBVIOUS
<1>p. DlvPut(ds, t, n, r, dlv[t][n].sent)
  BY <1>d, ResultPut
<1>k. DlvKept(ds, t)
  BY <1>p, ResultKept
<1>n. TaskPut(task, t, task[t].st, task[t].failedFacts, task[t].facts)
  BY NothingPut
<1>1. CASE r = "delivered"
  <2>1. task' = [task EXCEPT ![t].st = "completed"] /\ dlv' = ds /\ work' = work
    BY <1>1, <1>d DEF FinalizeProviderResult
  <2>2. TaskPut(task', t, "completed", task[t].failedFacts, task[t].facts)
    BY <2>1, StatusPut DEF Statuses, Closed
  <2>3. LawfulTask(t, "completed", task[t].failedFacts, task[t].facts)
    BY DEF LawfulTask
  <2>4. SoundDeliveries(task', ds)
    <3>1. "completed" \in Closed /\ dlv[t][n].sent # 0 /\ r \notin Unresolved
      BY <1>1 DEF Closed, Reportable, Unresolved
    <3>2. QED
      BY <1>a, <1>p, <2>2, <3>1, DeliveryKeeps
  <2>5. RowsGrow => WorkTyped' /\ ActionsSound'
    BY <1>0, <2>1, ActionsStay
  <2>6. RowStep(t)
    BY <1>k, <2>1, <2>2, <2>3, <2>4, <2>5, RowStepIs
  <2>7. (~Live(t))'
    BY <2>2 DEF TaskPut, Live, Closed
  <2>8. QED
    BY <2>6, <2>7 DEF Settled
<1>2. CASE r = "retryable"
  <2>1. /\ dlv' = ds
        /\ MayRearm(t) => /\ task' = [task EXCEPT ![t].st = "pending"]
                          /\ work' = Put(work, {Dispatch(t, n, now + RetryAfter)}, Fresh)
        /\ ~MayRearm(t) => task' = task /\ work' = work
    BY <1>2, <1>d DEF FinalizeProviderResult
  <2>2. dlv[t][n].sent # 0 /\ n = Len(dlv[t])
    BY <1>2, AcceptedIsLatest DEF Reportable
  <2>3. NoSender(t)
    BY <2>2 DEF NoSender, ExecutionsSound, ExecutionSound, At
  <2>4. LatestStatus(t)' = "retryable" /\ Len(dlv'[t]) = n
    BY <1>2, <1>p, <2>1, <2>2, LatestNext
  <2>5. r \notin Unresolved /\ r \notin {"delivered", "final"}
    BY <1>2 DEF Unresolved
  <2>6. CASE MayRearm(t)
    <3>1. TaskPut(task', t, "pending", task[t].failedFacts, task[t].facts)
      BY <2>1, <2>6, StatusPut DEF Statuses
    <3>2. Live(t) /\ LawfulTask(t, "pending", task[t].failedFacts, task[t].facts)
      BY <2>6 DEF LawfulTask, MayRearm, Closed
    <3>3. SoundDeliveries(task', ds)
      BY <1>a, <1>p, <2>2, <2>5, <3>1, <3>2, DeliveryKeeps
    <3>4. PICK k : k = Dispatch(t, n, now + RetryAfter)
      OBVIOUS
    <3>5. now + RetryAfter \in Nat
      BY <1>0, DeliveryAssumption
    <3>6. k \in ActionKey /\ k.kind = "dispatch" /\ k.t = t /\ k.n = n
      BY SMTT(30), <1>a, <3>4, <3>5, DispatchIs
    <3>7. LawfulAction(k, Fresh, now') /\ Fresh.st = "pending"
      BY <3>6, FreshIs
    <3>8. ActionPut(work', k, Fresh)
      BY <2>1, <2>6, <3>4, PutIs
    <3>9. RowsGrow => WorkTyped' /\ ActionsSound'
      <4>1. ASSUME RowsGrow PROVE k.t \in Tasks' /\ k.n \in 0..Len(dlv'[k.t])
        BY <1>a, <2>4, <3>6, <4>1 DEF RowsGrow
      <4>2. QED
        BY <1>0, <3>7, <3>8, <4>1, ActionPutKeeps
    <3>10. \A j \in DOMAIN work : j.t # t => j \in DOMAIN work' /\ work'[j] = work[j]
      BY <3>6, <3>8 DEF ActionPut
    <3>11. RowStep(t)
      BY <1>k, <2>1, <2>3, <3>1, <3>2, <3>3, <3>9, <3>10, RowStepIs
    <3>12. k \in DOMAIN work' /\ work'[k].st = "pending" /\ Apt(k)'
      BY <3>6, <3>7, <3>8 DEF ActionPut, Apt
    <3>13. QED
      BY <3>6, <3>11, <3>12 DEF Settled
  <2>7. CASE ~MayRearm(t)
    <3>1. TaskPut(task', t, task[t].st, task[t].failedFacts, task[t].facts)
      BY <1>n, <2>1, <2>7
    <3>2. LawfulTask(t, task[t].st, task[t].failedFacts, task[t].facts)
      BY DEF LawfulTask
    <3>3. SoundDeliveries(task', ds)
      BY <1>a, <1>p, <2>2, <2>5, <3>1, DeliveryKeeps DEF Live
    <3>4. RowsGrow => WorkTyped' /\ ActionsSound'
      BY <1>0, <2>1, <2>7, ActionsStay
    <3>5. RowStep(t)
      BY <1>k, <2>1, <2>3, <2>7, <3>1, <3>2, <3>3, <3>4, RowStepIs
    <3>6. (~Live(t))' \/ Expired(t)'
      <4>1. task' = task
        BY <2>1, <2>7
      <4>2. task[t].exp \in Nat
        BY TaskAt, TaskFields
      <4>3. QED
        BY <1>0, <2>7, <4>1, <4>2 DEF MayRearm, Live, Expired
    <3>7. QED
      BY <2>4, <3>5, <3>6 DEF Settled, GivenUp
  <2>8. QED
    BY <2>6, <2>7
<1>3. CASE r = "final"
  <2>1. CloseTaskFailedAndEscalate(t, ds)
    BY <1>3, <1>d DEF FinalizeProviderResult
  <2>2. r \notin Unresolved
    BY <1>3 DEF Unresolved
  <2>3. ASSUME NEW zt, TaskPut(zt, t, "failed", task[t].failedFacts + 1, task[t].facts)
        PROVE  SoundDeliveries(zt, ds)
    <3>1. "failed" \in Closed
      BY DEF Closed
    <3>2. QED
      BY <1>a, <1>p, <1>3, <2>2, <2>3, <3>1, DeliveryKeeps
  <2>4. ASSUME ~Live(t) PROVE SoundDeliveries(task, ds)
    <3>1. task[t].st \in Closed
      BY <2>4 DEF Live
    <3>2. QED
      BY <1>a, <1>n, <1>p, <1>3, <2>2, <3>1, DeliveryKeeps
  <2>5. RowStep(t) /\ (~Live(t))'
    BY <1>k, <2>1, <2>3, <2>4, ClosingStep
  <2>6. QED
    BY <2>5 DEF Settled
<1>4. CASE r \notin {"delivered", "retryable", "final"}
  <2>1. dlv' = ds /\ task' = task /\ EnsureReconciliation(t, n)
    BY <1>4, <1>d DEF FinalizeProviderResult
  <2>2. r \in Unresolved /\ n = Len(dlv[t])
    BY <1>4, AcceptedIsLatest DEF Unresolved, Results
  <2>3. LatestStatus(t)' \in Unresolved /\ Len(dlv'[t]) = n
    BY <1>p, <2>1, <2>2, LatestNext
  <2>4. TaskPut(task', t, task[t].st, task[t].failedFacts, task[t].facts)
    BY <1>n, <2>1
  <2>5. LawfulTask(t, task[t].st, task[t].failedFacts, task[t].facts)
    BY DEF LawfulTask
  <2>6. SoundDeliveries(task', ds)
    <3>1. dlv[t][n].sent = 0 => r \in {"attempting", "ambiguous", "final"}
      BY DEF Reportable
    <3>2. QED
      BY <1>a, <1>p, <1>4, <2>2, <2>4, <3>1, DeliveryKeeps DEF Live
  <2>7. task[t].st \notin {"pending", "cancelled"} \/ NoSender(t)
    BY SenderTask
  <2>8. CASE \E k \in DOMAIN work : /\ k.kind = "reconcile" /\ k.t = t /\ k.n = n
                                    /\ Open(k) /\ work[k].tries < MaxTries /\ k.at > now
    <3>1. work' = work
      BY <2>1, <2>8 DEF EnsureReconciliation
    <3>2. PICK k \in DOMAIN work : k.kind = "reconcile" /\ k.t = t /\ k.n = n /\ k.at > now
      BY <2>8
    <3>3. work[k].st = "pending"
      BY <3>2, FutureIsPending
    <3>4. RowsGrow => WorkTyped' /\ ActionsSound'
      BY <1>0, <3>1, ActionsStay
    <3>5. RowStep(t)
      BY <1>k, <2>1, <2>4, <2>5, <2>6, <2>7, <3>1, <3>4, RowStepIs
    <3>6. Apt(k)'
      BY <2>3, <3>2 DEF Apt
    <3>7. QED
      BY <3>1, <3>2, <3>3, <3>5, <3>6 DEF Settled
  <2>9. CASE ~\E k \in DOMAIN work : /\ k.kind = "reconcile" /\ k.t = t /\ k.n = n
                                     /\ Open(k) /\ work[k].tries < MaxTries /\ k.at > now
    <3>1. PICK k : k = Reconcile(t, n, now + ReconcileAfter)
      OBVIOUS
    <3>2. work' = Put(work, {k}, Fresh)
      BY <2>1, <2>9, <3>1 DEF EnsureReconciliation
    <3>3. PICK at \in Nat : at = now + ReconcileAfter
      BY <1>0, DeliveryAssumption
    <3>4. k \in ActionKey /\ k.kind = "reconcile" /\ k.t = t /\ k.n = n
      <4>1. t \in Nat /\ n \in Nat /\ k = Reconcile(t, n, at)
        BY <1>a, <3>1, <3>3
      <4>2. QED
        BY ONLY <4>1, at \in Nat, ReconcileIs
    <3>5. LawfulAction(k, Fresh, now') /\ Fresh.st = "pending"
      BY SMTT(30), <1>a, <3>4, FreshIs
    <3>6. ActionPut(work', k, Fresh)
      BY <3>2, PutIs
    <3>7. RowsGrow => WorkTyped' /\ ActionsSound'
      <4>1. ASSUME RowsGrow PROVE k.t \in Tasks' /\ k.n \in 0..Len(dlv'[k.t])
        BY <1>a, <2>3, <3>4, <4>1 DEF RowsGrow
      <4>2. QED
        BY <1>0, <3>5, <3>6, <4>1, ActionPutKeeps
    <3>8. \A j \in DOMAIN work : j.t # t => j \in DOMAIN work' /\ work'[j] = work[j]
      BY <3>4, <3>6 DEF ActionPut
    <3>9. RowStep(t)
      BY <1>k, <2>1, <2>4, <2>5, <2>6, <2>7, <3>7, <3>8, RowStepIs
    <3>10. k \in DOMAIN work' /\ work'[k].st = "pending" /\ Apt(k)'
      BY <2>3, <3>4, <3>5, <3>6 DEF ActionPut, Apt
    <3>11. QED
      BY <3>4, <3>9, <3>10 DEF Settled
  <2>10. QED
    BY <2>8, <2>9
<1>5. QED
  BY <1>1, <1>2, <1>3, <1>4

-----------------------------------------------------------------------------
(* The steps of the system *)

AllCovered == \A t \in Tasks : Covered(t)

LEMMA InvIs ==
    CommunicationInv <=> /\ TypeOK /\ DeliveriesSound /\ ExecutionsSound /\ TasksSound
                         /\ ActionsSound /\ AllCovered
BY DEF CommunicationInv, TasksSound, AllCovered

LEMMA InvIsNext ==
    CommunicationInv' <=> /\ TypeOK' /\ DeliveriesSound' /\ ExecutionsSound' /\ TasksSound'
                          /\ ActionsSound' /\ AllCovered'
BY DEF CommunicationInv, TasksSound, AllCovered

\* Executions of actions of other tasks than t stay as they are.
OthersStay(t) ==
    \A v \in Workers : \A k \in DOMAIN work :
        k.t # t /\ (Executing(v, k) \/ Executing(v, k)') => job'[v] = job[v]

\* A task other than the one a transaction is about.
LEMMA OtherCovered ==
    ASSUME CommunicationInv, NEW t, NEW i \in Tasks, i # t, OthersStay(t),
           now' \in Nat, now <= now', task'[i] = task[i], dlv'[i] = dlv[i],
           \A k \in DOMAIN work : k.t # t => k \in DOMAIN work' /\ work'[k] = work[k]
    PROVE  Covered(i)'
<1>1. TypeOK /\ Covered(i)
  BY InvIs DEF AllCovered
<1>2. PICK k0 : k0 = [t |-> t]
  OBVIOUS
<1>3. k0.t # i
  BY <1>2
<1>4. Around(i, k0)
  <2>1. task'[i].exp = task[i].exp /\ (Live(i)' => Live(i)) /\ SameLatest(i)
    BY DEF Live, SameLatest, LatestStatus
  <2>2. QED
    BY <2>1 DEF Around, OthersStay
<1>5. QED
  BY <1>1, <1>3, <1>4, CoveredUntouched

\* A transaction on the rows of one task.
LEMMA RowStepKeeps ==
    ASSUME CommunicationInv, NEW t \in Tasks, RowStep(t), Settled(t)', now' = now, ClockTyped',
           JobsTyped', ExecutionsSound', OthersStay(t)
    PROVE  CommunicationInv'
<1>1. TypeOK'
  BY TypedPartsNext DEF RowStep
<1>2. now' \in Nat /\ now <= now'
  BY InvIs DEF TypeOK
<1>3. ASSUME NEW i \in Tasks' PROVE Covered(i)'
  <2>1. CASE i = t \/ i \notin Tasks
    <3>1. Settled(i)'
      BY <1>3, <2>1 DEF RowStep
    <3>2. QED
      BY <3>1, SettledCovered
  <2>2. CASE i # t /\ i \in Tasks
    <3>1. /\ task'[i] = task[i] /\ dlv'[i] = dlv[i]
          /\ \A k \in DOMAIN work : k.t # t => k \in DOMAIN work' /\ work'[k] = work[k]
      BY <2>2 DEF RowStep
    <3>2. QED
      BY <1>2, <2>2, <3>1, OtherCovered
  <2>3. QED
    BY <2>1, <2>2
<1>4. AllCovered'
  BY <1>3 DEF AllCovered
<1>5. QED
  BY <1>1, <1>4, InvIsNext DEF RowStep

\* The rows are as they were.
LEMMA SameRows ==
    ASSUME CommunicationInv, UNCHANGED rows, now' \in Nat, now <= now'
    PROVE  /\ RowsGrow /\ TablesTyped' /\ WorkTyped' /\ ActionsSound' /\ TasksSound'
           /\ DeliveriesSound' /\ Tasks' = Tasks /\ \A v \in Workers : Spared(v)
<1>0. task' = task /\ dlv' = dlv /\ work' = work
  BY DEF rows
<1>1. TypeOK /\ ExecutionsSound /\ ActionsSound /\ TasksSound /\ DeliveriesSound
  BY InvIs
<1>2. Tasks' = Tasks
  BY <1>0 DEF Tasks
<1>3. RowsGrow
  <2>1. ASSUME NEW t \in Tasks
        PROVE  /\ Len(dlv[t]) \in Nat /\ DOMAIN dlv[t] = 1..Len(dlv[t])
               /\ \A n \in DOMAIN dlv[t] : dlv[t][n].sent \in Nat
    BY <1>1, LatestAt, DeliveryAt
  <2>2. QED
    BY <1>0, <1>2, <2>1 DEF RowsGrow
<1>4. TablesTyped'
  BY <1>0, <1>1, TypedParts DEF TablesTyped
<1>5. WorkTyped' /\ ActionsSound'
  BY <1>0, <1>1, <1>3, ActionsStay
<1>6. TasksSound'
  BY <1>0, <1>1, TableIsTasks, TableIsTasksNext
<1>7. DeliveriesSound'
  BY <1>0, <1>1, DeliveriesTable, DeliveriesTableNext
<1>8. ASSUME NEW v \in Workers PROVE Spared(v)
  BY <1>0, <1>1 DEF Spared, ExecutionsSound, ExecutionSound, At
<1>9. QED
  BY <1>2, <1>3, <1>4, <1>5, <1>6, <1>7, <1>8

\* Neither rows nor executions move.
LEMMA Unmoved ==
    ASSUME CommunicationInv, UNCHANGED rows, job' = job, now' \in Nat, now <= now', ClockTyped'
    PROVE  CommunicationInv'
<1>0. task' = task /\ dlv' = dlv /\ work' = work
  BY DEF rows
<1>1. TypeOK /\ ExecutionsSound
  BY InvIs
<1>2. /\ RowsGrow /\ TablesTyped' /\ WorkTyped' /\ ActionsSound' /\ TasksSound'
      /\ DeliveriesSound' /\ Tasks' = Tasks /\ \A v \in Workers : Spared(v)
  BY SameRows
<1>3. ExecutionsSound'
  BY <1>1, <1>2, ExecutionsStay
<1>4. TypeOK'
  BY <1>1, <1>2, TypedParts, TypedPartsNext DEF JobsTyped
<1>5. ASSUME NEW i \in Tasks PROVE Covered(i)'
  <2>1. PICK t : t # i
    <3>1. i \in Nat
      BY <1>1, TaskAt
    <3>2. i + 1 # i
      BY <3>1
    <3>3. QED
      BY <3>2
  <2>2. OthersStay(t)
    BY DEF OthersStay
  <2>3. QED
    BY <1>0, <2>1, <2>2, OtherCovered
<1>6. AllCovered'
  BY <1>2, <1>5 DEF AllCovered
<1>7. QED
  BY <1>2, <1>3, <1>4, <1>6, InvIsNext

\* Execution w moves on, the rows stay, and what its action covered is covered
\* still.
LEMMA JobStepKeeps ==
    ASSUME CommunicationInv, UNCHANGED rows, now' = now, ClockTyped', JobsTyped',
           NEW w \in Workers, ~At(w, "idle"), \A v \in Workers \ {w} : job'[v] = job[v],
           At(w, "idle")' \/ (job'[w].key = job[w].key /\ ExecutionSound(w)'),
           ~At(w, "send")',
           NEW k, k = Key(w), NEW t, t = Subject(w),
           k \in DOMAIN work /\ Covers(k)
              => GivenUp(t)' \/ \E j \in DOMAIN work' : j.t = t /\ Covers(j)'
    PROVE  CommunicationInv'
<1>0. task' = task /\ dlv' = dlv /\ work' = work
  BY DEF rows
<1>1. TypeOK /\ ExecutionsSound /\ AllCovered /\ now' \in Nat /\ now <= now'
  BY InvIs DEF TypeOK
<1>2. /\ RowsGrow /\ TablesTyped' /\ WorkTyped' /\ ActionsSound' /\ TasksSound'
      /\ DeliveriesSound' /\ Tasks' = Tasks /\ \A v \in Workers : Spared(v)
  BY <1>1, SameRows
<1>3. ExecutionsSound'
  BY <1>1, <1>2, ExecutionsKeep
<1>4. TypeOK'
  BY <1>2, TypedPartsNext
<1>5. k.t = t
  BY DEF Key, Subject
<1>6. \A v \in Workers : \A j : j # k /\ (Executing(v, j) \/ Executing(v, j)') => job'[v] = job[v]
  BY ExecutorsStay
<1>7. ASSUME NEW i \in Tasks PROVE Covered(i)'
  <2>1. CASE i # t
    <3>1. OthersStay(t)
      BY <1>5, <1>6 DEF OthersStay
    <3>2. QED
      BY <1>0, <1>1, <2>1, <3>1, OtherCovered
  <2>2. CASE i = t
    <3>1. Covered(t)
      BY <1>1, <2>2 DEF AllCovered
    <3>2. CASE k \in DOMAIN work /\ Covers(k)
      BY <2>2, <3>2 DEF Covered
    <3>3. CASE ~(k \in DOMAIN work /\ Covers(k))
      <4>1. Around(t, k)
        <5>1. task'[t].exp = task[t].exp /\ (Live(t)' => Live(t)) /\ SameLatest(t)
          BY <1>0 DEF Live, SameLatest, LatestStatus
        <5>2. QED
          BY <1>0, <1>6, <5>1 DEF Around
      <4>2. QED
        BY <1>0, <1>1, <2>2, <3>1, <3>3, <4>1, CoveredAround
    <3>4. QED
      BY <3>2, <3>3
  <2>3. QED
    BY <2>1, <2>2
<1>8. AllCovered'
  BY <1>2, <1>7 DEF AllCovered
<1>9. QED
  BY <1>2, <1>3, <1>4, <1>8, InvIsNext

\* What the action of a moving execution covers.
LEMMA KeyStays ==
    ASSUME UNCHANGED rows, NEW w \in Workers, ~At(w, "idle"), ~Owned(w),
           \A v \in Workers \ {w} : job'[v] = job[v],
           At(w, "idle")' \/ job'[w].key = job[w].key,
           NEW k \in DOMAIN work, k = Key(w), Covers(k)
    PROVE  k \in DOMAIN work' /\ Covers(k)'
<1>0. task' = task /\ dlv' = dlv /\ work' = work
  BY DEF rows
<1>1. SameLatest(k.t)
  BY <1>0 DEF SameLatest, LatestStatus
<1>2. ~Executing(w, k) /\ ~Executing(w, k)'
  BY <1>0 DEF Executing, Owned, Key
<1>3. \A v \in Workers : Executing(v, k) \/ Executing(v, k)' => job'[v] = job[v]
  BY <1>2
<1>4. QED
  BY <1>0, <1>1, <1>3, CoverStays

LEMMA KeyUndecided ==
    ASSUME TypeOK, ExecutionsSound, UNCHANGED rows, NEW w \in Workers, Owned(w),
           At(w, "idle")' \/ job'[w].pc \in {"prepare", "poison", "retry", "dead"},
           NEW k \in DOMAIN work, k = Key(w), Covers(k)
    PROVE  k \in DOMAIN work' /\ Covers(k)'
<1>0. task' = task /\ dlv' = dlv /\ work' = work
  BY DEF rows
<1>1. Apt(k) /\ Open(k)
  BY CoverIsApt
<1>2. Apt(k)' /\ Open(k)'
  BY <1>0, <1>1 DEF Apt, Open, LatestStatus
<1>3. \A v \in Workers : Executing(v, k)' => v = w
  BY <1>0 DEF Executing, Owned
<1>4. Undecided(k)'
  BY <1>3 DEF Undecided, Executing
<1>5. QED
  BY <1>0, <1>2, <1>4, UndecidedCovers

LEMMA KeyAsking ==
    ASSUME UNCHANGED rows, NEW w \in Workers, Owned(w), job'[w].key = job[w].key,
           job'[w].pc \in {"send", "lookup", "finalize"}, NEW k, k = Key(w),
           job'[w].n = Len(dlv[k.t]), LatestStatus(k.t) \in Unresolved
    PROVE  k \in DOMAIN work' /\ Covers(k)'
<1>0. task' = task /\ dlv' = dlv /\ work' = work
  BY DEF rows
<1>1. k \in DOMAIN work' /\ Open(k)'
  BY <1>0 DEF Open, Owned
<1>2. Executing(w, k)'
  BY <1>0 DEF Executing, Owned, Key, At
<1>3. Asking(k)'
  BY <1>0, <1>2 DEF Asking
<1>4. QED
  BY <1>0, <1>1, <1>3 DEF Covers, LatestStatus

LEMMA CoverAsks ==
    ASSUME NEW w \in Workers, ~At(w, "idle"), Owned(w), NEW k, k = Key(w), Covers(k),
           job[w].pc \notin {"prepare", "poison", "retry", "dead"}
    PROVE  /\ job[w].pc \in {"send", "lookup", "finalize"}
           /\ job[w].n = Len(dlv[k.t]) /\ LatestStatus(k.t) \in Unresolved
<1>1. Executing(w, k)
  BY DEF Executing
<1>2. ~Undecided(k)
  BY <1>1 DEF Undecided
<1>3. Asking(k) /\ LatestStatus(k.t) \in Unresolved
  BY <1>2 DEF Covers
<1>4. PICK v \in Workers : /\ Executing(v, k) /\ job[v].pc \in {"send", "lookup", "finalize"}
                           /\ job[v].n = Len(dlv[k.t])
  BY <1>3 DEF Asking
<1>5. v = w
  BY <1>1, <1>4, OneExecutor
<1>6. QED
  BY <1>3, <1>4, <1>5

\* The claim is gone, the handler fails or its process dies: the action, if it
\* is still claimed, is as undecided as it was.
LEMMA WithdrawalKeeps ==
    ASSUME CommunicationInv, UNCHANGED rows, now' = now, ClockTyped',
           NEW w \in Workers, ~At(w, "idle"),
           JobEnd(job', w) \/ JobPut(job', w, "retry", job[w].n, job[w].res)
    PROVE  CommunicationInv'
<1>1. TypeOK /\ ExecutionsSound
  BY InvIs
<1>2. JobsTyped' /\ (\A v \in Workers \ {w} : job'[v] = job[v])
  BY DEF JobEnd, JobPut, JobsTyped
<1>3. \/ At(w, "idle")'
      \/ job'[w].pc = "retry" /\ job'[w].key = job[w].key
  BY DEF JobEnd, JobPut, At, Idle
<1>4. job'[w].pc = "retry" /\ job'[w].key = job[w].key => ExecutionSound(w)'
  <2>1. Subject(w) \in Tasks
    BY <1>1 DEF ExecutionsSound, ExecutionSound
  <2>2. Tasks' = Tasks
    BY DEF rows, Tasks
  <2>3. QED
    BY <2>1, <2>2 DEF ExecutionSound, At, Subject
<1>5. ~At(w, "send")'
  BY <1>3 DEF At
<1>6. PICK k, t : k = Key(w) /\ t = Subject(w)
  OBVIOUS
<1>7. k.t = t
  BY <1>6 DEF Key, Subject
<1>8. ASSUME k \in DOMAIN work, Covers(k) PROVE k \in DOMAIN work' /\ Covers(k)'
  <2>1. CASE Owned(w)
    <3>1. At(w, "idle")' \/ job'[w].pc \in {"prepare", "poison", "retry", "dead"}
      BY <1>3
    <3>2. QED
      BY <1>1, <1>6, <1>8, <2>1, <3>1, KeyUndecided
  <2>2. CASE ~Owned(w)
    BY <1>2, <1>3, <1>6, <1>8, <2>2, KeyStays
  <2>3. QED
    BY <2>1, <2>2
<1>9. QED
  BY <1>2, <1>3, <1>4, <1>5, <1>6, <1>7, <1>8, JobStepKeeps

LEMMA SameClock ==
    ASSUME CommunicationInv, now' = now, points' = points, faults' = faults
    PROVE  ClockTyped'
BY InvIs, TypedParts DEF ClockTyped

LEMMA FaultClock ==
    ASSUME CommunicationInv, now' = now, points' \subseteq points, Fault
    PROVE  ClockTyped'
<1>1. now \in 0..MaxTime /\ faults \in 0..MaxFaults /\ points \subseteq 1..Channels
  BY InvIs DEF TypeOK
<1>2. faults' \in 0..MaxFaults
  BY <1>1, DeliveryAssumption DEF Fault
<1>3. QED
  BY <1>1, <1>2 DEF ClockTyped

\* An execution that moves from one stage to another without touching the rows.
LEMMA StageMoveKeeps ==
    ASSUME CommunicationInv, now' = now, ClockTyped', UNCHANGED rows,
           NEW w \in Workers, ~At(w, "idle"), NEW p, NEW n, NEW r, JobPut(job', w, p, n, r),
           p # "send", SoundWork(job'[w], Tasks, task, dlv),
           NEW k, k = Key(w), NEW t, t = Subject(w),
           k \in DOMAIN work /\ Covers(k) /\ Owned(w)
              => \E j \in DOMAIN work' : j.t = t /\ Covers(j)'
    PROVE  CommunicationInv'
<1>0. task' = task /\ dlv' = dlv /\ work' = work /\ Tasks' = Tasks
  BY DEF rows, Tasks
<1>1. JobsTyped' /\ (\A v \in Workers \ {w} : job'[v] = job[v]) /\ job'[w].key = job[w].key
  BY DEF JobPut, JobsTyped
<1>2. ExecutionSound(w)'
  BY <1>0, SoundWorkNext
<1>3. ~At(w, "send")'
  BY DEF At, JobPut
<1>4. ASSUME k \in DOMAIN work, Covers(k)
      PROVE  \E j \in DOMAIN work' : j.t = t /\ Covers(j)'
  <2>1. CASE Owned(w)
    BY <1>4, <2>1
  <2>2. CASE ~Owned(w)
    <3>1. k \in DOMAIN work' /\ Covers(k)'
      BY <1>1, <1>4, <2>2, KeyStays
    <3>2. QED
      BY <3>1 DEF Key, Subject
  <2>3. QED
    BY <2>1, <2>2
<1>5. QED
  BY <1>1, <1>2, <1>3, <1>4, JobStepKeeps

\* The same, when nothing fails meanwhile.
LEMMA StageKeeps ==
    ASSUME CommunicationInv, UNCHANGED <<now, faults, points, rows>>,
           NEW w \in Workers, ~At(w, "idle"), NEW p, NEW n, NEW r, JobPut(job', w, p, n, r),
           p # "send", SoundWork(job'[w], Tasks, task, dlv),
           NEW k, k = Key(w), NEW t, t = Subject(w),
           k \in DOMAIN work /\ Covers(k) /\ Owned(w)
              => \E j \in DOMAIN work' : j.t = t /\ Covers(j)'
    PROVE  CommunicationInv'
<1>1. ClockTyped'
  BY SameClock
<1>2. QED
  BY <1>1, StageMoveKeeps

LEMMA FenceLostKeeps ==
    ASSUME CommunicationInv, NEW w \in Workers, ~At(w, "idle"), FenceLost(w)
    PROVE  CommunicationInv'
<1>1. TypeOK
  BY InvIs
<1>2. JobEnd(job', w)
  BY <1>1, IdlePut DEF FenceLost
<1>3. UNCHANGED rows /\ now' = now /\ ClockTyped'
  BY SameClock DEF FenceLost
<1>4. QED
  BY <1>2, <1>3, WithdrawalKeeps

LEMMA CrashKeeps ==
    ASSUME CommunicationInv, NEW w \in Workers, Crash(w)
    PROVE  CommunicationInv'
<1>1. TypeOK /\ ~At(w, "idle")
  BY InvIs DEF Crash
<1>2. JobEnd(job', w)
  BY <1>1, IdlePut DEF Crash
<1>3. UNCHANGED rows /\ now' = now /\ ClockTyped'
  BY FaultClock DEF Crash
<1>4. QED
  BY <1>1, <1>2, <1>3, WithdrawalKeeps

LEMMA HandlerFailsKeeps ==
    ASSUME CommunicationInv, NEW w \in Workers, ~At(w, "idle"), HandlerFails(w)
    PROVE  CommunicationInv'
<1>1. TypeOK
  BY InvIs
<1>2. JobPut(job', w, "retry", job[w].n, job[w].res)
  BY <1>1, GotoPut DEF HandlerFails, Goto, Stages
<1>3. UNCHANGED rows /\ now' = now /\ ClockTyped'
  BY FaultClock DEF HandlerFails
<1>4. QED
  BY <1>2, <1>3, WithdrawalKeeps

LEMMA PrepareLookupKeeps ==
    ASSUME CommunicationInv, NEW w \in Workers, ~At(w, "idle"), NEW kind, NEW n,
           \/ kind = "dispatch" /\ n = Len(dlv[Subject(w)])
           \/ kind = "reconcile" /\ n = Key(w).n,
           PrepareLookup(w, kind, n)
    PROVE  CommunicationInv'
<1>1. TypeOK /\ DeliveriesSound /\ ExecutionsSound
  BY InvIs
<1>2. PICK k, t : k = Key(w) /\ t = Subject(w)
  OBVIOUS
<1>3. /\ Owned(w) /\ k.kind = kind /\ Live(t) /\ n > 0 /\ dlv[t][n].st \in Unresolved
      /\ job' = [job EXCEPT ![w] = Job("lookup", Key(w), n, "none")]
      /\ UNCHANGED <<now, faults, points, rows>>
  BY <1>2 DEF PrepareLookup, Preparing
<1>4. k \in DOMAIN work /\ k.t = t
  BY <1>2, <1>3 DEF Owned, Key, Subject
<1>5. t \in Tasks /\ k.n \in Nat /\ k.n <= Len(dlv[t]) /\ Len(dlv[t]) \in Nat
      /\ DOMAIN dlv[t] = 1..Len(dlv[t])
  BY <1>1, <1>4, ActionAt, LatestAt
<1>6. n \in Nat /\ n \in DOMAIN dlv[t]
  BY <1>2, <1>3, <1>5
<1>7. n = Len(dlv[t])
  BY <1>1, <1>3, <1>5, <1>6 DEF DeliveriesSound
<1>8. LatestStatus(t) \in Unresolved
  BY <1>1, <1>3, <1>5, <1>6, <1>7, LatestAt
<1>9. JobPut(job', w, "lookup", n, "none")
  BY <1>1, <1>3, <1>6, NewJobPut DEF Stages
<1>10. SoundWork(job'[w], Tasks, task, dlv)
  <2>1. /\ job'[w].pc = "lookup" /\ job'[w].n = n /\ job'[w].key = k
    BY <1>2, <1>9 DEF JobPut, Key
  <2>2. k.kind = "reconcile" => n = k.n
    BY <1>2, <1>3
  <2>3. QED
    BY <1>4, <1>5, <1>6, <2>1, <2>2 DEF SoundWork
<1>11. k \in DOMAIN work' /\ Covers(k)'
  <2>1. /\ job'[w].key = job[w].key /\ job'[w].pc \in {"send", "lookup", "finalize"}
        /\ job'[w].n = Len(dlv[k.t]) /\ LatestStatus(k.t) \in Unresolved
    BY <1>4, <1>7, <1>8, <1>9 DEF JobPut
  <2>2. QED
    BY <1>2, <1>3, <2>1, KeyAsking
<1>12. QED
  BY <1>2, <1>3, <1>4, <1>9, <1>10, <1>11, StageKeeps

\* A dispatch that is waiting for its time covers its task.
LEMMA FutureDispatchCovers ==
    ASSUME TypeOK, ActionsSound, NEW t, FutureDispatchExists(t), UNCHANGED rows
    PROVE  \E j \in DOMAIN work' : j.t = t /\ Covers(j)'
<1>1. PICK j \in DOMAIN work : j.kind = "dispatch" /\ j.t = t /\ j.at > now
  BY DEF FutureDispatchExists
<1>2. work[j].st = "pending" /\ work' = work
  BY <1>1, FutureIsPending DEF rows
<1>3. Apt(j)'
  BY <1>1 DEF Apt
<1>4. Covers(j)'
  BY <1>2, <1>3, PendingCovers
<1>5. QED
  BY <1>1, <1>2, <1>4

LEMMA SkipFailedKeeps ==
    ASSUME CommunicationInv, NEW w \in Workers, ~At(w, "idle"), NEW kind, NEW n,
           \/ kind = "dispatch" /\ n = Len(dlv[Subject(w)])
           \/ kind = "reconcile" /\ n = Key(w).n,
           SkipFailed(w, kind, n)
    PROVE  CommunicationInv'
<1>1. TypeOK /\ DeliveriesSound /\ ExecutionsSound /\ ActionsSound
  BY InvIs
<1>2. PICK k, t : k = Key(w) /\ t = Subject(w)
  OBVIOUS
<1>3. /\ Owned(w) /\ At(w, "prepare") /\ k.kind = kind /\ n > 0 /\ dlv[t][n].st = "retryable"
      /\ kind = "reconcile" \/ FutureDispatchExists(t)
      /\ UNCHANGED <<now, faults, points, rows>>
  BY <1>2 DEF SkipFailed, Preparing
<1>4. k \in DOMAIN work /\ k.t = t
  BY <1>2, <1>3 DEF Owned, Key, Subject
<1>5. t \in Tasks /\ k.n \in Nat /\ Len(dlv[t]) \in Nat
  BY <1>1, <1>4, ActionAt, LatestAt
<1>6. JobPut(job', w, "ok", job[w].n, job[w].res)
  BY <1>1, GotoPut DEF SkipFailed, Goto, Stages
<1>7. SoundWork(job'[w], Tasks, task, dlv)
  BY <1>2, <1>4, <1>5, <1>6 DEF SoundWork, JobPut, Key
<1>8. ASSUME Covers(k) PROVE \E j \in DOMAIN work' : j.t = t /\ Covers(j)'
  <2>1. CASE FutureDispatchExists(t)
    BY <1>1, <1>3, <2>1, FutureDispatchCovers
  <2>2. CASE kind = "reconcile"
    <3>1. Apt(k)
      BY <1>1, <1>4, <1>8, CoverIsApt
    <3>2. LatestStatus(t) \in Unresolved /\ n = Len(dlv[t])
      BY <1>2, <1>3, <1>4, <2>2, <3>1 DEF Apt
    <3>3. LatestStatus(t) = "retryable"
      BY <1>1, <1>3, <1>5, <3>2, LatestAt
    <3>4. QED
      BY <3>2, <3>3 DEF Unresolved
  <2>3. QED
    BY <1>3, <2>1, <2>2
<1>9. QED
  BY <1>2, <1>3, <1>6, <1>7, <1>8, StageKeeps

LEMMA PoisonFoundKeeps ==
    ASSUME CommunicationInv, NEW w \in Workers, ~At(w, "idle"), PoisonFound(w)
    PROVE  CommunicationInv'
<1>1. TypeOK /\ ExecutionsSound
  BY InvIs
<1>2. PICK k, t : k = Key(w) /\ t = Subject(w)
  OBVIOUS
<1>3. /\ Owned(w) /\ k.kind = "dispatch" /\ UNCHANGED <<now, points, rows>>
  BY <1>2 DEF PoisonFound, Resolves, Preparing
<1>c. ClockTyped'
  <2>1. Fault \/ faults' = faults
    BY DEF PoisonFound
  <2>2. QED
    BY <1>3, <2>1, SameClock, FaultClock
<1>4. k \in DOMAIN work /\ k.t = t /\ t \in Tasks
  BY <1>1, <1>2, <1>3, ActionAt DEF Owned, Key, Subject
<1>5. JobPut(job', w, "poison", job[w].n, job[w].res)
  BY <1>1, GotoPut DEF PoisonFound, Goto, Stages
<1>6. SoundWork(job'[w], Tasks, task, dlv)
  BY <1>2, <1>3, <1>4, <1>5 DEF SoundWork, JobPut, Key
<1>7. ASSUME Covers(k) PROVE k \in DOMAIN work' /\ Covers(k)'
  <2>1. job'[w].pc \in {"prepare", "poison", "retry", "dead"}
    BY <1>5 DEF JobPut
  <2>2. QED
    BY <1>1, <1>2, <1>3, <1>4, <1>7, <2>1, KeyUndecided
<1>8. QED
  BY <1>2, <1>3, <1>c, <1>4, <1>5, <1>6, <1>7, StageMoveKeeps

\* The provider answers, or is not there: the execution still asks about the
\* same delivery.
LEMMA AnswerKeeps ==
    ASSUME CommunicationInv, UNCHANGED <<now, faults, points, rows>>,
           NEW w \in Workers, ~At(w, "idle"), job[w].pc \in {"send", "lookup"}, NEW r,
           JobPut(job', w, "finalize", job[w].n, r), r # "none",
           dlv[Subject(w)][job[w].n].sent = 0 => r \in {"ambiguous", "missing"}
    PROVE  CommunicationInv'
<1>1. TypeOK /\ ExecutionsSound
  BY InvIs
<1>2. PICK k, t : k = Key(w) /\ t = Subject(w)
  OBVIOUS
<1>3. ExecutionSound(w) /\ k.t = t
  BY <1>1, <1>2 DEF ExecutionsSound, Key, Subject
<1>4. job'[w].key = k /\ job'[w].n = job[w].n /\ job'[w].pc = "finalize" /\ job'[w].res = r
  BY <1>2 DEF JobPut, Key
<1>5. SoundWork(job'[w], Tasks, task, dlv)
  BY <1>2, <1>3, <1>4 DEF SoundWork, ExecutionSound
<1>6. ASSUME k \in DOMAIN work, Covers(k), Owned(w) PROVE k \in DOMAIN work' /\ Covers(k)'
  <2>1. job[w].n = Len(dlv[k.t]) /\ LatestStatus(k.t) \in Unresolved
    BY <1>2, <1>6, CoverAsks
  <2>2. QED
    BY <1>2, <1>4, <1>6, <2>1, KeyAsking DEF Key
<1>7. QED
  BY <1>2, <1>3, <1>5, <1>6, StageKeeps

LEMMA LookupKeeps ==
    ASSUME CommunicationInv, NEW w \in Workers, ~At(w, "idle"), Lookup(w)
    PROVE  CommunicationInv'
<1>1. TypeOK
  BY InvIs
<1>2. PICK r \in IF dlv[Subject(w)][job[w].n].sent = 0 THEN {"ambiguous"} ELSE LookupResults :
             job' = [job EXCEPT ![w].pc = "finalize", ![w].res = r]
  BY DEF Lookup
<1>3. r \in Results /\ (dlv[Subject(w)][job[w].n].sent = 0 => r = "ambiguous")
  BY DeliveryAssumption DEF Results
<1>4. JobPut(job', w, "finalize", job[w].n, r)
  BY <1>1, <1>2, <1>3, AnswerPut DEF Stages
<1>5. r # "none" /\ job[w].pc = "lookup" /\ UNCHANGED <<now, faults, points, rows>>
  BY <1>3 DEF Results, Lookup, At
<1>6. QED
  BY <1>3, <1>4, <1>5, AnswerKeeps

LEMMA ProviderMissingKeeps ==
    ASSUME CommunicationInv, NEW w \in Workers, ~At(w, "idle"), ProviderMissing(w)
    PROVE  CommunicationInv'
<1>1. TypeOK
  BY InvIs
<1>2. JobPut(job', w, "finalize", job[w].n, "missing")
  BY <1>1, AnswerPut DEF ProviderMissing, Stages
<1>3. QED
  BY <1>2, AnswerKeeps DEF ProviderMissing

\* A handler transaction that decides: the rows of its task change and it ends.
LEMMA DecisionKeeps ==
    ASSUME CommunicationInv, UNCHANGED <<now, faults, points>>, NEW w \in Workers, ~At(w, "idle"),
           NEW p \in {"ok", "dead"}, JobPut(job', w, p, job[w].n, job[w].res),
           NEW t \in Tasks, t = Subject(w), RowStep(t), Settled(t)'
    PROVE  CommunicationInv'
<1>1. TypeOK /\ ExecutionsSound
  BY InvIs
<1>2. JobsTyped' /\ (\A v \in Workers \ {w} : job'[v] = job[v]) /\ job'[w].key = job[w].key
      /\ job'[w].pc = p
  BY DEF JobPut, JobsTyped
<1>3. RowsGrow /\ t \in Tasks' /\ \A v \in Workers : Spared(v)
  BY DEF RowStep, RowsGrow
<1>4. ExecutionSound(w)'
  <2>1. SoundWork(job'[w], Tasks', task', dlv')
    BY <1>2, <1>3 DEF SoundWork, Subject
  <2>2. QED
    BY <2>1, SoundWorkNext
<1>5. ~At(w, "send")'
  BY <1>2 DEF At
<1>6. ExecutionsSound'
  BY <1>1, <1>2, <1>3, <1>4, <1>5, ExecutionsKeep
<1>7. OthersStay(t)
  <2>1. \A v \in Workers : \A k : k # Key(w) /\ (Executing(v, k) \/ Executing(v, k)')
                                  => job'[v] = job[v]
    BY <1>2, ExecutorsStay
  <2>2. QED
    BY <2>1 DEF OthersStay, Key, Subject
<1>8. ClockTyped'
  BY SameClock
<1>9. QED
  BY <1>2, <1>6, <1>7, <1>8, RowStepKeeps

\* A transaction outside the handler.
LEMMA OutsideKeeps ==
    ASSUME CommunicationInv, UNCHANGED <<now, faults, points, job>>, NEW t \in Tasks, RowStep(t),
           Settled(t)'
    PROVE  CommunicationInv'
<1>1. TypeOK /\ ExecutionsSound /\ JobsTyped'
  BY InvIs, TypedParts DEF JobsTyped
<1>2. RowsGrow /\ \A v \in Workers : Spared(v)
  BY DEF RowStep
<1>3. ExecutionsSound'
  BY <1>1, <1>2, ExecutionsStay
<1>4. OthersStay(t) /\ ClockTyped'
  BY SameClock DEF OthersStay
<1>5. QED
  BY <1>1, <1>3, <1>4, RowStepKeeps

\* A task is closed and its actions are kept, or only waiting ones dropped.
LEMMA CloseIs ==
    ASSUME CommunicationInv, NEW t \in Tasks, NEW st \in Closed, NEW ff, NEW fs, now' = now,
           TaskPut(task', t, st, ff, fs), LawfulTask(t, st, ff, fs), dlv' = dlv,
           st # "cancelled" \/ NoSender(t),
           NEW K, ActionDrop(work', K), \A k \in K : k.t = t
    PROVE  RowStep(t) /\ Settled(t)'
<1>1. TypeOK /\ TasksSound /\ DeliveriesSound /\ ExecutionsSound /\ ActionsSound
  BY InvIs
<1>2. now' \in Nat /\ now <= now' /\ st # "pending"
  BY <1>1 DEF TypeOK, Closed
<1>3. DlvKept(dlv', t) /\ SoundDeliveries(task', dlv')
  BY <1>1, SameKept, DeliveriesStay
<1>4. RowsGrow => WorkTyped' /\ ActionsSound'
  BY <1>1, <1>2, ActionDropKeeps
<1>5. \A k \in DOMAIN work : k.t # t => k \in DOMAIN work' /\ work'[k] = work[k]
  BY DEF ActionDrop
<1>6. RowStep(t)
  BY <1>1, <1>2, <1>3, <1>4, <1>5, RowStepIs
<1>7. (~Live(t))'
  BY DEF TaskPut, Live
<1>8. QED
  BY <1>6, <1>7 DEF Settled

LEMMA CancelKeeps ==
    ASSUME CommunicationInv, NEW t \in Tasks, CancelPending(t) \/ CancelSlotOffer(t)
    PROVE  CommunicationInv'
<1>1. TypeOK /\ ExecutionsSound
  BY InvIs
<1>2. /\ task[t].st = "pending" /\ task' = [task EXCEPT ![t].st = "cancelled"] /\ dlv' = dlv
      /\ UNCHANGED <<now, faults, points, job>>
  BY DEF CancelPending, CancelSlotOffer
<1>3. TaskPut(task', t, "cancelled", task[t].failedFacts, task[t].facts)
  BY <1>1, <1>2, StatusPut DEF Statuses, Closed
<1>4. LawfulTask(t, "cancelled", task[t].failedFacts, task[t].facts) /\ "cancelled" \in Closed
  BY DEF LawfulTask, Closed
<1>5. NoSender(t)
  BY <1>1, <1>2, SenderTask
<1>6. PICK K : ActionDrop(work', K) /\ \A k \in K : k.t = t
  <2>1. CASE CancelPending(t)
    <3>1. PICK K : K = {k \in DOMAIN work : k.kind = "dispatch" /\ k.t = t /\ work[k].st = "pending"}
      OBVIOUS
    <3>2. ActionDrop(work', K)
      BY <2>1, <3>1, DropIs DEF CancelPending
    <3>3. QED
      BY <3>1, <3>2
  <2>2. CASE CancelSlotOffer(t)
    <3>1. work' = work
      BY <2>2 DEF CancelSlotOffer
    <3>2. ActionDrop(work', {})
      BY <3>1 DEF ActionDrop
    <3>3. QED
      BY <3>2
  <2>3. QED
    BY <2>1, <2>2
<1>7. RowStep(t) /\ Settled(t)'
  BY <1>2, <1>3, <1>4, <1>5, <1>6, CloseIs
<1>8. QED
  BY <1>2, <1>7, OutsideKeeps

LEMMA SubjectIs ==
    ASSUME CommunicationInv, NEW w \in Workers, ~At(w, "idle")
    PROVE  Subject(w) \in Tasks
BY InvIs DEF ExecutionsSound, ExecutionSound

LEMMA GotoIs ==
    ASSUME CommunicationInv, NEW w \in Workers, ~At(w, "idle"), NEW p \in Stages, Goto(w, p)
    PROVE  JobPut(job', w, p, job[w].n, job[w].res)
BY InvIs, GotoPut DEF Goto

LEMMA SkipClosedKeeps ==
    ASSUME CommunicationInv, NEW w \in Workers, ~At(w, "idle"), NEW kind, NEW n,
           SkipClosed(w, kind, n)
    PROVE  CommunicationInv'
<1>1. TypeOK /\ ExecutionsSound
  BY InvIs
<1>2. PICK t \in Tasks : t = Subject(w)
  BY SubjectIs
<1>3. /\ task' = IF Live(t) THEN [task EXCEPT ![t].st = "completed"] ELSE task
      /\ Goto(w, "ok") /\ UNCHANGED <<now, faults, points, dlv, work>>
  BY <1>2 DEF SkipClosed
<1>u. UNCHANGED <<now, faults, points, dlv, work>>
  BY <1>3
<1>4. JobPut(job', w, "ok", job[w].n, job[w].res)
  BY <1>3, GotoIs DEF Stages
<1>5. ActionDrop(work', {})
  BY <1>3 DEF ActionDrop
<1>6. RowStep(t) /\ Settled(t)'
  <2>1. CASE Live(t)
    <3>1. TaskPut(task', t, "completed", task[t].failedFacts, task[t].facts)
      BY <1>1, <1>3, <2>1, StatusPut DEF Statuses, Closed
    <3>2. LawfulTask(t, "completed", task[t].failedFacts, task[t].facts) /\ "completed" \in Closed
      BY DEF LawfulTask, Closed
    <3>3. QED
      BY <1>u, <1>5, <3>1, <3>2, CloseIs
  <2>2. CASE ~Live(t)
    <3>1. TaskPut(task', t, task[t].st, task[t].failedFacts, task[t].facts)
      BY <1>1, <1>3, <2>2, NothingPut
    <3>2. LawfulTask(t, task[t].st, task[t].failedFacts, task[t].facts) /\ task[t].st \in Closed
      BY <2>2 DEF LawfulTask, Live
    <3>3. task[t].st # "cancelled" \/ NoSender(t)
      BY <1>1, SenderTask
    <3>4. QED
      BY <1>u, <1>5, <3>1, <3>2, <3>3, CloseIs
  <2>3. QED
    BY <2>1, <2>2
<1>7. QED
  BY <1>2, <1>u, <1>4, <1>6, DecisionKeeps

\* The deadline gate and the lost pinned contact point close the task.
LEMMA CloseAndEscalateKeeps ==
    ASSUME CommunicationInv, NEW w \in Workers, ~At(w, "idle"),
           CloseTaskFailedAndEscalate(Subject(w), dlv), Goto(w, "ok"), UNCHANGED <<now, faults, points>>
    PROVE  CommunicationInv'
<1>1. TypeOK /\ TasksSound /\ DeliveriesSound /\ ExecutionsSound /\ ActionsSound
  BY InvIs
<1>2. PICK t \in Tasks : t = Subject(w)
  BY SubjectIs
<1>3. JobPut(job', w, "ok", job[w].n, job[w].res)
  BY GotoIs DEF Stages
<1>4. PICK ds : ds = dlv
  OBVIOUS
<1>5. DlvKept(ds, t) /\ CloseTaskFailedAndEscalate(t, ds)
  BY <1>1, <1>2, <1>4, SameKept
<1>6. ASSUME NEW zt, TaskPut(zt, t, "failed", task[t].failedFacts + 1, task[t].facts)
      PROVE  SoundDeliveries(zt, ds)
  BY <1>1, <1>4, <1>6, DeliveriesStay DEF Closed
<1>7. SoundDeliveries(task, ds)
  BY <1>1, <1>4, DeliveriesTable
<1>8. RowStep(t) /\ (~Live(t))'
  BY <1>1, <1>5, <1>6, <1>7, ClosingStep
<1>9. Settled(t)'
  BY <1>8 DEF Settled
<1>10. QED
  BY <1>2, <1>3, <1>8, <1>9, DecisionKeeps

LEMMA FailPoisonedTaskKeeps ==
    ASSUME CommunicationInv, NEW w \in Workers, ~At(w, "idle"), FailPoisonedTask(w)
    PROVE  CommunicationInv'
<1>1. TypeOK /\ ExecutionsSound
  BY InvIs
<1>2. PICK t \in Tasks : t = Subject(w)
  BY SubjectIs
<1>3. /\ \/ task' = FailedTask(t, {"poisoned"}) /\ Live(t)
         \/ task' = task
      /\ At(w, "poison") /\ Owned(w) /\ Goto(w, "dead") /\ UNCHANGED <<now, faults, points, dlv, work>>
  BY <1>2 DEF FailPoisonedTask
<1>4. JobPut(job', w, "dead", job[w].n, job[w].res)
  BY <1>3, GotoIs DEF Stages
<1>5. CASE task' = FailedTask(t, {"poisoned"}) /\ Live(t)
  <2>1. TaskPut(task', t, "failed", task[t].failedFacts + 1, task[t].facts \cup {"poisoned"})
    BY <1>1, <1>5, FailedPut DEF Facts
  <2>2. /\ LawfulTask(t, "failed", task[t].failedFacts + 1, task[t].facts \cup {"poisoned"})
        /\ "failed" \in Closed
    BY <1>5 DEF LawfulTask, Closed
  <2>3. ActionDrop(work', {})
    BY <1>3 DEF ActionDrop
  <2>4. RowStep(t) /\ Settled(t)'
    BY <1>3, <2>1, <2>2, <2>3, CloseIs
  <2>5. QED
    BY <1>2, <1>3, <1>4, <2>4, DecisionKeeps
<1>6. CASE task' = task
  <2>1. UNCHANGED <<now, faults, points, rows>>
    BY <1>3, <1>6 DEF rows
  <2>2. PICK k : k = Key(w)
    OBVIOUS
  <2>3. SoundWork(job'[w], Tasks, task, dlv)
    BY <1>2, <1>4 DEF SoundWork, JobPut, Subject
  <2>4. ASSUME k \in DOMAIN work, Covers(k) PROVE k \in DOMAIN work' /\ Covers(k)'
    <3>1. job'[w].pc \in {"prepare", "poison", "retry", "dead"}
      BY <1>4 DEF JobPut
    <3>2. QED
      BY <1>1, <1>3, <2>1, <2>2, <2>4, <3>1, KeyUndecided
  <2>5. k.t = t
    BY <1>2, <2>2 DEF Key, Subject
  <2>6. QED
    BY <1>2, <1>4, <2>1, <2>2, <2>3, <2>4, <2>5, StageKeeps
<1>7. QED
  BY <1>3, <1>5, <1>6

LEMMA FinalizeKeeps ==
    ASSUME CommunicationInv, NEW w \in Workers, ~At(w, "idle"), Finalize(w)
    PROVE  CommunicationInv'
<1>1. TypeOK /\ TasksSound /\ DeliveriesSound /\ ExecutionsSound /\ ActionsSound
  BY InvIs
<1>2. PICK t \in Tasks : t = Subject(w)
  BY SubjectIs
<1>3. PICK n, r, p : /\ n = job[w].n /\ r = IF job[w].res = "missing" THEN "final" ELSE job[w].res
                     /\ p = IF job[w].res = "missing" THEN "dead" ELSE "ok"
  OBVIOUS
<1>4. /\ At(w, "finalize") /\ Owned(w) /\ FinalizeProviderResult(t, n, r) /\ Goto(w, p)
      /\ UNCHANGED <<now, faults, points>>
  BY <1>2, <1>3 DEF Finalize
<1>5. ExecutionSound(w)
  BY <1>1 DEF ExecutionsSound
<1>6. /\ n \in DOMAIN dlv[t] /\ job[w].res # "none"
      /\ dlv[t][n].sent = 0 => job[w].res \in {"ambiguous", "missing"}
  BY <1>2, <1>3, <1>4, <1>5 DEF ExecutionSound, At
<1>7. r \in Results /\ Reportable(t, n, r)
  <2>1. job[w].res \in Results \cup {"none", "missing"}
    BY <1>1, JobAt
  <2>2. QED
    BY <1>3, <1>6, <2>1 DEF Results, Reportable
<1>8. JobPut(job', w, p, job[w].n, job[w].res) /\ p \in {"ok", "dead"}
  BY <1>3, <1>4, GotoIs DEF Stages
<1>9. CASE AcceptsResult(t, n, r)
  <2>1. RowStep(t) /\ Settled(t)'
    BY <1>1, <1>4, <1>6, <1>7, <1>9, FinalizingStep
  <2>2. QED
    BY <1>2, <1>4, <1>8, <2>1, DecisionKeeps
<1>10. CASE ~AcceptsResult(t, n, r)
  <2>1. UNCHANGED <<now, faults, points, rows>>
    BY <1>4, <1>10 DEF FinalizeProviderResult
  <2>2. PICK k : k = Key(w)
    OBVIOUS
  <2>3. k.t = t
    BY <1>2, <2>2 DEF Key, Subject
  <2>4. SoundWork(job'[w], Tasks, task, dlv)
    BY <1>2, <1>8 DEF SoundWork, JobPut, Subject
  <2>5. CASE Live(t)
    <3>1. dlv[t][n].st = "retryable"
      BY <1>1, <1>6, <1>10, <2>5 DEF AcceptsResult, DeliveriesSound
    <3>2. ASSUME k \in DOMAIN work, Covers(k) PROVE FALSE
      <4>1. job[w].pc \notin {"prepare", "poison", "retry", "dead"}
        BY <1>4 DEF At
      <4>2. n = Len(dlv[t]) /\ LatestStatus(t) \in Unresolved
        BY <1>3, <1>4, <2>2, <2>3, <3>2, <4>1, CoverAsks
      <4>3. LatestStatus(t) = "retryable"
        <5>1. Len(dlv[t]) > 0
          BY <1>1, <1>6, <4>2, DeliveryAt
        <5>2. QED
          BY <1>1, <3>1, <4>2, <5>1, LatestAt
      <4>4. QED
        BY <4>2, <4>3 DEF Unresolved
    <3>3. QED
      BY <1>2, <1>8, <2>1, <2>2, <2>4, <3>2, StageKeeps
  <2>6. CASE ~Live(t)
    <3>1. /\ TaskPut(task', t, task[t].st, task[t].failedFacts, task[t].facts)
          /\ dlv' = dlv /\ ActionDrop(work', {})
      BY <1>1, <2>1, NothingPut DEF rows, ActionDrop
    <3>2. LawfulTask(t, task[t].st, task[t].failedFacts, task[t].facts) /\ task[t].st \in Closed
      BY <2>6 DEF LawfulTask, Live
    <3>3. task[t].st # "cancelled" \/ NoSender(t)
      BY <1>1, SenderTask
    <3>4. RowStep(t) /\ Settled(t)'
      BY <2>1, <3>1, <3>2, <3>3, CloseIs
    <3>5. QED
      BY <1>2, <1>4, <1>8, <3>4, DecisionKeeps
  <2>7. QED
    BY <2>5, <2>6
<1>11. QED
  BY <1>9, <1>10

LEMMA OutcomeReportKeeps ==
    ASSUME CommunicationInv, NEW t \in Tasks, NEW n \in DOMAIN dlv[t], NEW r \in Reports,
           OutcomeReport(t, n, r)
    PROVE  CommunicationInv'
<1>1. TypeOK /\ TasksSound /\ DeliveriesSound /\ ExecutionsSound /\ ActionsSound
  BY InvIs
<1>2. r \in Results
  BY DeliveryAssumption
<1>3. Reportable(t, n, r) /\ FinalizeProviderResult(t, n, r) /\ UNCHANGED <<now, faults, points, job>>
  BY <1>1, DeliveryAt DEF OutcomeReport, Reportable
<1>4. CASE AcceptsResult(t, n, r)
  <2>1. RowStep(t) /\ Settled(t)'
    BY <1>1, <1>2, <1>3, <1>4, FinalizingStep
  <2>2. QED
    BY <1>3, <2>1, OutsideKeeps
<1>5. CASE ~AcceptsResult(t, n, r)
  <2>1. UNCHANGED rows /\ now' \in Nat /\ now <= now' /\ ClockTyped' /\ job' = job
    BY <1>1, <1>3, <1>5, SameClock DEF FinalizeProviderResult, TypeOK
  <2>2. QED
    BY <2>1, Unmoved
<1>6. QED
  BY <1>4, <1>5

LEMMA LosePointKeeps ==
    ASSUME CommunicationInv, NEW c \in 1..Channels, LosePoint(c)
    PROVE  CommunicationInv'
<1>1. now \in Nat /\ now' = now /\ points' \subseteq points /\ Fault /\ UNCHANGED rows /\ job' = job
  BY InvIs DEF LosePoint, TypeOK
<1>2. ClockTyped'
  BY <1>1, FaultClock
<1>3. QED
  BY <1>1, <1>2, Unmoved

LEMMA TickKeeps ==
    ASSUME CommunicationInv, Tick
    PROVE  CommunicationInv'
<1>1. now \in 0..MaxTime /\ faults \in 0..MaxFaults /\ points \subseteq 1..Channels
  BY InvIs DEF TypeOK
<1>2. now' \in 0..MaxTime /\ now' \in Nat /\ now <= now'
  BY <1>1, DeliveryAssumption DEF Tick
<1>3. ClockTyped' /\ UNCHANGED rows /\ job' = job
  BY <1>1, <1>2 DEF Tick, ClockTyped
<1>4. QED
  BY <1>2, <1>3, Unmoved

LEMMA CreateTaskKeeps ==
    ASSUME CommunicationInv, NEW exp \in Deadlines, CreateTask(exp)
    PROVE  CommunicationInv'
<1>1. TypeOK /\ TasksSound /\ DeliveriesSound /\ ExecutionsSound /\ ActionsSound
  BY InvIs
<1>2. PICK c, row, k : /\ c = Len(task) + 1
                       /\ row = NewTask(exp, NoChannel, NoTask, c, NoChannel)
                       /\ k = Dispatch(c, 0, now)
  OBVIOUS
<1>3. /\ task' = Append(task, row) /\ dlv' = Append(dlv, <<>>) /\ work' = Put(work, {k}, Fresh)
      /\ UNCHANGED <<now, faults, points, job>>
  BY <1>2 DEF CreateTask
<1>u. UNCHANGED <<now, faults, points, job>> /\ now' \in Nat /\ now <= now' /\ now \in Nat
  BY <1>1, <1>3 DEF TypeOK
<1>4. task \in Seq(Task) /\ dlv \in Seq(Seq(Delivery)) /\ Len(dlv) = Len(task) /\ c \in Nat
      /\ c = Len(task) + 1 /\ DOMAIN dlv = DOMAIN task
  BY <1>1, <1>2 DEF TypeOK
<1>5. row \in Task /\ row.st = "pending" /\ row.parent = NoTask /\ row.root = c /\ row.failedFacts = 0
  <2>1. exp \in Nat /\ NoChannel \in 0..Channels /\ NoTask \in Nat
    BY DeliveryAssumption DEF NoChannel, NoTask
  <2>2. row = NewTask(exp, NoChannel, NoTask, c, NoChannel)
    BY <1>2
  <2>3. QED
    BY SMTT(30), <1>4, <2>1, <2>2, NewTaskIs
<1>6. k \in ActionKey /\ k.kind = "dispatch" /\ k.t = c /\ k.n = 0
  BY <1>2, <1>4, <1>u, DispatchIs
<1>7. TasksSound'
  <2>1. SoundTable(task')
    BY <1>1, <1>3, <1>4, <1>5, RootKeeps
  <2>2. QED
    BY <2>1, TableIsTasksNext
<1>8. SoundDeliveries(task', dlv') /\ Tables(task', dlv') /\ NewRow(task, dlv, task', dlv')
  <2>1. PICK yt, yd : yt = task' /\ yd = dlv'
    OBVIOUS
  <2>2. PICK zt, zd : zt = task /\ zd = dlv
    OBVIOUS
  <2>3. Tables(zt, zd) /\ SoundDeliveries(zt, zd)
    BY <1>1, <1>4, <2>2, DeliveriesTable DEF Tables
  <2>4. Extended(zt, zd, row, yt, yd)
    BY <1>3, <2>1, <2>2 DEF Extended
  <2>5. SoundDeliveries(yt, yd) /\ Tables(yt, yd) /\ NewRow(zt, zd, yt, yd)
    BY <1>5, <2>3, <2>4, DeliveriesExtend
  <2>6. QED
    BY <2>1, <2>2, <2>5
<1>9. DeliveriesSound' /\ TablesTyped'
  BY <1>8, DeliveriesTableNext DEF Tables, TablesTyped
<1>10. dlv'[c] = <<>> /\ \A i \in Tasks : dlv'[i] = dlv[i]
  BY <1>4, <1>8 DEF NewRow, Tasks
<1>11. Tasks' = Tasks \cup {c} /\ c \notin Tasks /\ \A i \in Tasks : task'[i] = task[i]
  BY <1>3, <1>4, <1>5, SeqExtend DEF Tasks
<1>12. RowsGrow
  <2>1. ASSUME NEW t \in Tasks
        PROVE  /\ Len(dlv[t]) \in Nat /\ DOMAIN dlv[t] = 1..Len(dlv[t])
               /\ \A n \in DOMAIN dlv[t] : dlv[t][n].sent \in Nat
    BY <1>1, LatestAt, DeliveryAt
  <2>2. QED
    BY <1>10, <1>11, <2>1 DEF RowsGrow
<1>13. ASSUME NEW v \in Workers PROVE Spared(v)
  <2>1. SUFFICES ASSUME At(v, "send") PROVE Spared(v)
    BY DEF Spared
  <2>2. Subject(v) \in Tasks /\ task[Subject(v)].st \notin {"pending", "cancelled"}
    BY <1>1, <2>1 DEF ExecutionsSound, ExecutionSound, At
  <2>3. QED
    BY <1>10, <1>11, <2>2 DEF Spared
<1>14. ExecutionsSound'
  BY <1>1, <1>u, <1>12, <1>13, ExecutionsStay
<1>15. ActionPut(work', k, Fresh)
  BY <1>3, PutIs
<1>16. LawfulAction(k, Fresh, now') /\ Fresh.st = "pending"
  BY <1>6, FreshIs
<1>17. k.t \in Tasks' /\ k.n \in 0..Len(dlv'[k.t])
  BY <1>6, <1>10, <1>11
<1>18. WorkTyped' /\ ActionsSound'
  BY <1>1, <1>u, <1>12, <1>15, <1>16, <1>17, ActionPutKeeps
<1>19. TypeOK'
  BY <1>1, <1>u, <1>9, <1>18, SameClock, TypedParts, TypedPartsNext DEF JobsTyped
<1>20. ASSUME NEW i \in Tasks' PROVE Covered(i)'
  <2>1. CASE i = c
    <3>1. k \in DOMAIN work' /\ work'[k].st = "pending" /\ Apt(k)'
      BY <1>6, <1>15, <1>16 DEF ActionPut, Apt
    <3>2. Settled(c)'
      BY <1>6, <3>1 DEF Settled
    <3>3. QED
      BY <2>1, <3>2, SettledCovered
  <2>2. CASE i \in Tasks
    <3>1. OthersStay(c)
      BY <1>u DEF OthersStay
    <3>2. \A j \in DOMAIN work : j.t # c => j \in DOMAIN work' /\ work'[j] = work[j]
      BY <1>6, <1>15 DEF ActionPut
    <3>3. i # c /\ task'[i] = task[i] /\ dlv'[i] = dlv[i]
      BY <1>10, <1>11, <2>2
    <3>4. QED
      BY <1>u, <2>2, <3>1, <3>2, <3>3, OtherCovered
  <2>3. QED
    BY <1>11, <1>20, <2>1, <2>2
<1>21. AllCovered'
  BY <1>20 DEF AllCovered
<1>22. QED
  BY <1>7, <1>9, <1>14, <1>18, <1>19, <1>21, InvIsNext

\* The tables of tasks and deliveries are as they were.
LEMMA SameTables ==
    ASSUME CommunicationInv, task' = task, dlv' = dlv
    PROVE  /\ RowsGrow /\ TablesTyped' /\ TasksSound' /\ DeliveriesSound' /\ Tasks' = Tasks
           /\ \A v \in Workers : Spared(v)
<1>1. TypeOK /\ ExecutionsSound /\ TasksSound /\ DeliveriesSound
  BY InvIs
<1>2. Tasks' = Tasks
  BY DEF Tasks
<1>3. RowsGrow
  <2>1. ASSUME NEW t \in Tasks
        PROVE  /\ Len(dlv[t]) \in Nat /\ DOMAIN dlv[t] = 1..Len(dlv[t])
               /\ \A n \in DOMAIN dlv[t] : dlv[t][n].sent \in Nat
    BY <1>1, LatestAt, DeliveryAt
  <2>2. QED
    BY <1>2, <2>1 DEF RowsGrow
<1>4. TablesTyped'
  BY <1>1, TypedParts DEF TablesTyped
<1>5. TasksSound' /\ DeliveriesSound'
  BY <1>1, TableIsTasks, TableIsTasksNext, DeliveriesTable, DeliveriesTableNext
<1>6. ASSUME NEW v \in Workers PROVE Spared(v)
  BY <1>1 DEF Spared, ExecutionsSound, ExecutionSound, At
<1>7. QED
  BY <1>2, <1>3, <1>4, <1>5, <1>6

\* One scheduled action is written or dropped.
LEMMA ActionStepKeeps ==
    ASSUME CommunicationInv, task' = task, dlv' = dlv, now' = now, ClockTyped', JobsTyped',
           ExecutionsSound', NEW k \in DOMAIN work, work[k].st # "dead",
           \/ ActionDrop(work', {k})
           \/ \E v : ActionPut(work', k, v) /\ LawfulAction(k, v, now),
           \A v \in Workers : \A j \in DOMAIN work \ {k} :
              Executing(v, j) \/ Executing(v, j)' => job'[v] = job[v],
           Covers(k) => GivenUp(k.t)' \/ (k \in DOMAIN work' /\ Covers(k)')
    PROVE  CommunicationInv'
<1>1. TypeOK /\ ActionsSound /\ AllCovered /\ now' \in Nat /\ now <= now'
  BY InvIs DEF TypeOK
<1>2. RowsGrow /\ TablesTyped' /\ TasksSound' /\ DeliveriesSound' /\ Tasks' = Tasks
  BY SameTables
<1>3. WorkTyped' /\ ActionsSound'
  <2>1. CASE ActionDrop(work', {k})
    BY <1>1, <1>2, <2>1, ActionDropKeeps
  <2>2. CASE \E v : ActionPut(work', k, v) /\ LawfulAction(k, v, now)
    <3>1. PICK v : ActionPut(work', k, v) /\ LawfulAction(k, v, now')
      BY <2>2
    <3>2. k.t \in Tasks' /\ k.n \in 0..Len(dlv'[k.t])
      BY <1>1, <1>2, WorkRowsStay
    <3>3. QED
      BY <1>1, <1>2, <3>1, <3>2, ActionPutKeeps
  <2>3. QED
    BY <2>1, <2>2
<1>4. \A j \in DOMAIN work \ {k} : j \in DOMAIN work' /\ work'[j] = work[j]
  BY DEF ActionDrop, ActionPut
<1>5. ASSUME NEW i \in Tasks PROVE Covered(i)'
  <2>1. Around(i, k)
    <3>1. task'[i].exp = task[i].exp /\ (Live(i)' => Live(i)) /\ SameLatest(i)
      BY DEF Live, SameLatest, LatestStatus
    <3>2. QED
      BY <1>4, <3>1 DEF Around
  <2>2. Covered(i)
    BY <1>1 DEF AllCovered
  <2>3. QED
    BY <1>1, <2>1, <2>2, CoveredAround
<1>6. AllCovered'
  BY <1>2, <1>5 DEF AllCovered
<1>7. TypeOK'
  BY <1>2, <1>3, TypedPartsNext
<1>8. QED
  BY <1>2, <1>3, <1>6, <1>7, InvIsNext

\* An action keeps what it is apt for while the tables stay.
LEMMA AptStays ==
    ASSUME dlv' = dlv, NEW k, Apt(k)
    PROVE  Apt(k)'
BY DEF Apt, LatestStatus

LEMMA ClaimKeeps ==
    ASSUME CommunicationInv, NEW w \in Workers, NEW k \in DOMAIN work, Claim(w, k)
    PROVE  CommunicationInv'
<1>1. TypeOK /\ ExecutionsSound /\ ActionsSound
  BY InvIs
<1>2. PICK a, j : a = [st |-> "leased", tries |-> work[k].tries + 1, by |-> w]
                  /\ j = Job("prepare", k, 0, "none")
  OBVIOUS
<1>3. /\ At(w, "idle") /\ work[k].st = "pending" /\ k.at <= now
      /\ UNCHANGED <<now, faults, points, task, dlv>>
  BY DEF Claim
<1>4. ActionPut(work', k, a)
  BY <1>2, PutIs DEF Claim
<1>5. job' = [job EXCEPT ![w] = j]
  BY <1>2 DEF Claim
<1>6. k \in ActionKey /\ k.t \in Tasks /\ work[k].tries \in 0..MaxTries /\ work[k].tries < MaxTries
  BY <1>1, <1>3, ActionAt DEF ActionsSound
<1>7. a \in Action /\ a.st = "leased" /\ a.by = w
  <2>1. work[k].tries + 1 \in 0..MaxTries
    BY <1>6, DeliveryAssumption
  <2>2. QED
    BY <1>2, <2>1 DEF Action
<1>8. LawfulAction(k, a, now)
  BY <1>1, <1>3, <1>6, <1>7 DEF LawfulAction, ActionsSound
<1>9. j \in Execution /\ j.pc = "prepare" /\ j.key = k
  BY <1>2, <1>6 DEF Execution, Job
<1>10. JobsTyped' /\ job'[w] = j /\ \A v \in Workers \ {w} : job'[v] = job[v]
  BY <1>1, <1>5, <1>9 DEF TypeOK, JobsTyped
<1>11. RowsGrow /\ Tasks' = Tasks /\ \A v \in Workers : Spared(v)
  BY <1>3, SameTables
<1>12. ExecutionsSound'
  <2>1. SoundWork(job'[w], Tasks', task', dlv')
    BY <1>6, <1>9, <1>10, <1>11 DEF SoundWork
  <2>2. ExecutionSound(w)'
    BY <2>1, SoundWorkNext
  <2>3. ~At(w, "send")'
    BY <1>9, <1>10 DEF At
  <2>4. QED
    BY <1>1, <1>10, <1>11, <2>2, <2>3, ExecutionsKeep
<1>13. ASSUME NEW v \in Workers, NEW i \in DOMAIN work \ {k}, Executing(v, i) \/ Executing(v, i)'
       PROVE  job'[v] = job[v]
  BY <1>3, <1>9, <1>10, <1>13 DEF Executing, Key
<1>14. ASSUME Covers(k) PROVE k \in DOMAIN work' /\ Covers(k)'
  <2>1. Apt(k)'
    BY <1>1, <1>3, <1>14, CoverIsApt, AptStays
  <2>2. k \in DOMAIN work' /\ work'[k] = a
    BY <1>4 DEF ActionPut
  <2>3. Open(k)'
    BY <1>7, <2>2 DEF Open
  <2>4. \A v \in Workers : Executing(v, k)' => v = w
    BY <1>7, <2>2 DEF Executing, Owned
  <2>5. Undecided(k)'
    BY <1>9, <1>10, <2>4 DEF Undecided
  <2>6. QED
    BY <2>1, <2>2, <2>3, <2>5, UndecidedCovers
<1>15. ClockTyped'
  BY <1>3, SameClock
<1>16. QED
  BY <1>3, <1>4, <1>8, <1>10, <1>12, <1>13, <1>14, <1>15, ActionStepKeeps

\* An action goes back to the queue, or is given up.
LEMMA ReturnedKeeps ==
    ASSUME CommunicationInv, task' = task, dlv' = dlv, now' = now, ClockTyped', JobsTyped',
           ExecutionsSound', NEW k \in DOMAIN work, work[k].st = "leased",
           NEW st \in {"pending", "dead"}, st = "pending" => work[k].tries < MaxTries,
           NEW a, a = [work[k] EXCEPT !.by = NoWorker, !.st = st], ActionPut(work', k, a),
           \A v \in Workers : \A j \in DOMAIN work \ {k} :
              Executing(v, j) \/ Executing(v, j)' => job'[v] = job[v]
    PROVE  CommunicationInv'
<1>1. TypeOK /\ ExecutionsSound /\ ActionsSound
  BY InvIs
<1>2. k \in ActionKey /\ k.t \in Tasks /\ work[k] \in Action
  BY <1>1, ActionAt
<1>3. a \in Action /\ a.st = st /\ a.tries = work[k].tries
  BY <1>2 DEF Action
<1>4. LawfulAction(k, a, now)
  BY <1>1, <1>2, <1>3 DEF LawfulAction, ActionsSound
<1>5. k \in DOMAIN work' /\ work'[k] = a
  BY DEF ActionPut
<1>6. ASSUME Covers(k) PROVE GivenUp(k.t)' \/ (k \in DOMAIN work' /\ Covers(k)')
  <2>1. CASE st = "dead"
    BY <1>3, <1>5, <2>1 DEF GivenUp
  <2>2. CASE st = "pending"
    <3>1. Apt(k)'
      BY SMTT(30), <1>1, <1>6, CoverIsApt, AptStays
    <3>2. QED
      BY <1>3, <1>5, <2>2, <3>1, PendingCovers
  <2>3. QED
    BY <2>1, <2>2
<1>7. QED
  BY <1>4, <1>6, ActionStepKeeps

LEMMA LeaseExpiresKeeps ==
    ASSUME CommunicationInv, NEW k \in DOMAIN work, LeaseExpires(k)
    PROVE  CommunicationInv'
<1>1. TypeOK /\ ExecutionsSound /\ JobsTyped
  BY InvIs, TypedParts
<1>2. PICK st, a : /\ st = IF work[k].tries < MaxTries THEN "pending" ELSE "dead"
                   /\ a = [work[k] EXCEPT !.by = NoWorker, !.st = st]
  OBVIOUS
<1>3. work[k].st = "leased" /\ UNCHANGED <<now, points, task, dlv, job>> /\ Fault
  BY DEF LeaseExpires
<1>4. work' = [work EXCEPT ![k] = a]
  <2>1. work' = [work EXCEPT ![k].by = NoWorker, ![k].st = st]
    BY <1>2 DEF LeaseExpires
  <2>2. QED
    BY <1>2, <2>1
<1>5. ActionPut(work', k, a)
  BY <1>4 DEF ActionPut
<1>6. RowsGrow /\ \A v \in Workers : Spared(v)
  BY <1>3, SameTables
<1>7. ExecutionsSound' /\ JobsTyped' /\ ClockTyped'
  BY <1>1, <1>3, <1>6, ExecutionsStay, FaultClock DEF JobsTyped
<1>8. st \in {"pending", "dead"} /\ (st = "pending" => work[k].tries < MaxTries)
  BY <1>2
<1>9. a = [work[k] EXCEPT !.by = NoWorker, !.st = st]
  BY <1>2
<1>10. QED
  BY <1>3, <1>5, <1>7, <1>8, <1>9, ReturnedKeeps

LEMMA SettleKeeps ==
    ASSUME CommunicationInv, NEW w \in Workers, ~At(w, "idle"), Settle(w)
    PROVE  CommunicationInv'
<1>1. TypeOK /\ ExecutionsSound
  BY InvIs
<1>2. PICK k : k = Key(w)
  OBVIOUS
<1>3. job[w].pc \in {"ok", "retry", "dead"} /\ UNCHANGED <<now, faults, points, task, dlv>>
  BY DEF Settle
<1>4. JobEnd(job', w)
  BY <1>1, IdlePut DEF Settle
<1>5. ClockTyped'
  BY <1>3, SameClock
<1>6. CASE ~Owned(w)
  <2>1. UNCHANGED rows
    BY <1>3, <1>6 DEF Settle, rows
  <2>2. QED
    BY <1>3, <1>4, <1>5, <2>1, WithdrawalKeeps
<1>7. CASE Owned(w)
  <2>1. k \in DOMAIN work /\ work[k].st = "leased" /\ k.t = Subject(w)
    BY <1>2, <1>7 DEF Owned, Key, Subject
  <2>2. JobsTyped' /\ At(w, "idle")' /\ \A v \in Workers \ {w} : job'[v] = job[v]
    BY <1>4 DEF JobEnd, JobsTyped, At, Idle
  <2>3. RowsGrow /\ \A v \in Workers : Spared(v)
    BY <1>3, SameTables
  <2>4. ExecutionsSound'
    <3>1. ~At(w, "send")'
      BY <2>2 DEF At
    <3>2. QED
      BY <1>1, <2>2, <2>3, <3>1, ExecutionsKeep
  <2>5. \A v \in Workers : \A j \in DOMAIN work \ {k} :
          Executing(v, j) \/ Executing(v, j)' => job'[v] = job[v]
    BY <1>2, <2>2, ExecutorsStay
  <2>6. CASE At(w, "ok")
    <3>1. ActionDrop(work', {k})
      BY <1>2, <1>7, <2>6, DropIs DEF Settle
    <3>2. ~Covers(k)
      BY SMTT(30), <1>2, <1>7, <2>6, CoverAsks DEF At
    <3>3. QED
      BY <1>3, <1>5, <2>1, <2>2, <2>4, <2>5, <3>1, <3>2, ActionStepKeeps
  <2>7. CASE ~At(w, "ok")
    <3>1. PICK st, a : /\ st = IF At(w, "retry") /\ work[k].tries < MaxTries THEN "pending" ELSE "dead"
                       /\ a = [work[k] EXCEPT !.by = NoWorker, !.st = st]
      OBVIOUS
    <3>2. work' = Put(work, {k}, a)
      BY <1>2, <1>7, <2>7, <3>1 DEF Settle
    <3>3. ActionPut(work', k, a)
      BY <3>2, PutIs
    <3>4. st \in {"pending", "dead"} /\ (st = "pending" => work[k].tries < MaxTries)
      BY <3>1
    <3>5. a = [work[k] EXCEPT !.by = NoWorker, !.st = st]
      BY <3>1
    <3>6. QED
      BY <1>3, <1>5, <2>1, <2>2, <2>4, <2>5, <3>3, <3>4, <3>5, ReturnedKeeps
  <2>8. QED
    BY <2>6, <2>7
<1>8. QED
  BY <1>6, <1>7

\* The message is handed over: nobody else is about to hand it over, and the
\* execution that did knows that the provider has it.
LEMMA HandoverKeeps ==
    ASSUME CommunicationInv, NEW w \in Workers, At(w, "send"), NEW r \in Results,
           dlv' = [dlv EXCEPT ![Subject(w)][job[w].n].sent = dlv[Subject(w)][job[w].n].sent + 1],
           job' = [job EXCEPT ![w].pc = "finalize", ![w].res = r],
           UNCHANGED <<now, faults, points, task, work>>
    PROVE  CommunicationInv'
<1>1. TypeOK /\ DeliveriesSound /\ ExecutionsSound /\ TasksSound /\ ActionsSound /\ AllCovered
  BY InvIs
<1>2. PICK t, n, k : t = Subject(w) /\ n = job[w].n /\ k = Key(w)
  OBVIOUS
<1>i. ~At(w, "idle")
  BY SMTT(30) DEF At
<1>3. ExecutionSound(w) /\ k.t = t
  BY <1>1, <1>2, <1>i DEF ExecutionsSound, Key, Subject
<1>4. /\ t \in Tasks /\ n \in DOMAIN dlv[t] /\ n = Len(dlv[t]) /\ dlv[t][n].sent = 0
      /\ k.kind = "reconcile" => n = k.n
  BY <1>2, <1>3 DEF ExecutionSound, At
<1>5. DlvPut(dlv', t, n, dlv[t][n].st, 1)
  <2>1. dlv' = [dlv EXCEPT ![t][n].sent = dlv[t][n].sent + 1]
    BY <1>2
  <2>2. DlvPut(dlv', t, n, dlv[t][n].st, dlv[t][n].sent + 1)
    BY <1>1, <1>4, <2>1, SentPut
  <2>3. dlv[t][n].sent + 1 = 1
    BY <1>4
  <2>4. QED
    BY <2>2, <2>3
<1>6. JobPut(job', w, "finalize", n, r)
  BY <1>1, <1>2, <1>i, AnswerPut DEF Stages
<1>u. UNCHANGED <<now, faults, points, task, work>> /\ now' \in Nat /\ now <= now'
  BY <1>1 DEF TypeOK
<1>7. PICK zd : zd = dlv'
  OBVIOUS
<1>8. TaskPut(task, t, task[t].st, task[t].failedFacts, task[t].facts)
  BY <1>1, <1>4, NothingPut
<1>9. SoundDeliveries(task, zd)
  <2>1. DlvPut(zd, t, n, dlv[t][n].st, 1)
    BY <1>5, <1>7
  <2>2. /\ (~Live(t) => task[t].st \in Closed) /\ ~(n < Len(dlv[t]))
        /\ (dlv[t][n].st \in {"delivered", "final"} => task[t].st \in Closed)
    <3>1. n \in Nat
      BY <1>1, <1>4, DeliveryAt
    <3>2. QED
      BY <1>1, <1>4, <3>1 DEF Live, DeliveriesSound
  <2>3. PICK one \in Nat : one = 1
    OBVIOUS
  <2>4. one <= 1 /\ one # 0 /\ DlvPut(zd, t, n, dlv[t][n].st, one)
    BY <2>1, <2>3
  <2>5. QED
    BY <1>1, <1>4, <1>8, <2>2, <2>4, DeliveryKeeps
<1>10. DeliveriesSound'
  BY SMTT(30), <1>u, <1>7, <1>9, DeliveriesTableNext
<1>11. TablesTyped' /\ Tasks' = Tasks
  BY <1>1, <1>u, <1>5 DEF TablesTyped, TypeOK, DlvPut, Tasks
<1>12. TasksSound'
  BY SMTT(30), <1>1, <1>u, TableIsTasks, TableIsTasksNext
<1>13. \A i \in Tasks \ {t} : dlv'[i] = dlv[i]
  BY <1>1, <1>5, TaskAt DEF DlvPut
<1>14. RowsGrow
  <2>1. ASSUME NEW i \in Tasks
        PROVE  /\ Len(dlv'[i]) \in Nat /\ DOMAIN dlv'[i] = 1..Len(dlv'[i]) /\ Len(dlv[i]) <= Len(dlv'[i])
               /\ \A m \in DOMAIN dlv[i] : dlv'[i][m].sent \in Nat /\ dlv[i][m].sent <= dlv'[i][m].sent
    <3>1. /\ Len(dlv[i]) \in Nat /\ DOMAIN dlv[i] = 1..Len(dlv[i])
          /\ \A m \in DOMAIN dlv[i] : dlv[i][m].sent \in Nat
      BY <1>1, LatestAt, DeliveryAt
    <3>2. CASE i # t
      BY SMTT(30), <1>13, <3>1, <3>2
    <3>3. CASE i = t
      BY SMTT(30), <1>4, <1>5, <3>1, <3>3 DEF DlvPut
    <3>4. QED
      BY <3>2, <3>3
  <2>2. QED
    BY <1>11, <2>1 DEF RowsGrow
<1>15. WorkTyped' /\ ActionsSound'
  BY <1>1, <1>u, <1>14, ActionsStay
<1>16. /\ \A v \in Workers \ {w} : job'[v] = job[v]
       /\ job'[w].key = job[w].key /\ job'[w].pc = "finalize" /\ job'[w].n = n /\ job'[w].res = r
       /\ JobsTyped'
  BY <1>6 DEF JobPut, JobsTyped
<1>17. ASSUME NEW v \in Workers \ {w} PROVE Spared(v)
  <2>1. SUFFICES ASSUME At(v, "send") PROVE Spared(v)
    BY DEF Spared
  <2>2. Subject(v) # t
    BY <1>1, <1>2, <2>1 DEF ExecutionsSound
  <2>3. Subject(v) \in Tasks /\ task[Subject(v)].st \notin {"pending", "cancelled"}
    BY <1>1, <2>1 DEF ExecutionsSound, ExecutionSound, At
  <2>4. QED
    BY <1>u, <1>13, <2>2, <2>3 DEF Spared
<1>18. ExecutionsSound'
  <2>1. n \in DOMAIN dlv'[t] /\ dlv'[t][n].sent = 1
    BY <1>4, <1>5 DEF DlvPut
  <2>2. job'[w].key = k
    BY SMTT(30), <1>2, <1>16 DEF Key
  <2>3. SoundWork(job'[w], Tasks', task', dlv')
    BY <1>3, <1>4, <1>11, <1>16, <2>1, <2>2 DEF SoundWork, Results
  <2>4. ExecutionSound(w)'
    BY <2>3, SoundWorkNext
  <2>5. ~At(w, "send")'
    BY <1>16 DEF At
  <2>6. QED
    BY <1>1, <1>14, <1>16, <1>17, <2>4, <2>5, ExecutionsKeep
<1>19. SameLatest(t)
  <2>1. LatestStatus(t)' = dlv[t][n].st /\ Len(dlv'[t]) = n
    BY <1>1, <1>4, <1>5, LatestNext
  <2>2. LatestStatus(t) = dlv[t][n].st
    BY <1>1, <1>4, DeliveryAt, LatestAt
  <2>3. QED
    BY <1>4, <2>1, <2>2 DEF SameLatest
<1>20. \A v \in Workers : \A j : j # k /\ (Executing(v, j) \/ Executing(v, j)') => job'[v] = job[v]
  BY <1>2, <1>i, <1>16, ExecutorsStay
<1>21. ASSUME k \in DOMAIN work, Covers(k) PROVE k \in DOMAIN work' /\ Covers(k)'
  <2>0. k \in DOMAIN work' /\ work'[k] = work[k] /\ SameLatest(k.t)
    BY <1>u, <1>3, <1>19, <1>21
  <2>1. CASE ~Owned(w)
    <3>1. ~Executing(w, k) /\ ~Executing(w, k)'
      BY <1>u, <1>2, <1>16, <2>1 DEF Executing, Owned, Key
    <3>2. \A v \in Workers : Executing(v, k) \/ Executing(v, k)' => job'[v] = job[v]
      BY <1>16, <3>1
    <3>3. QED
      BY <1>21, <2>0, <3>2, CoverStays
  <2>2. CASE Owned(w)
    <3>1. LatestStatus(k.t) \in Unresolved
      BY <1>2, <1>i, <1>21, <2>2, CoverAsks DEF At
    <3>2. Executing(w, k)'
      BY <1>u, <1>2, <1>16, <2>2 DEF Executing, Owned, Key, At
    <3>3. Asking(k)'
      BY <1>3, <1>4, <1>16, <2>0, <3>2 DEF Asking, SameLatest
    <3>4. Open(k)'
      BY <1>21, <2>0 DEF Open, Covers
    <3>5. QED
      BY <2>0, <3>1, <3>3, <3>4 DEF Covers, SameLatest
  <2>3. QED
    BY <2>1, <2>2
<1>22. ASSUME NEW i \in Tasks PROVE Covered(i)'
  <2>1. CASE i # t
    <3>1. OthersStay(t)
      BY <1>3, <1>20 DEF OthersStay
    <3>2. QED
      BY <1>u, <1>13, <2>1, <3>1, OtherCovered
  <2>2. CASE i = t
    <3>1. Covered(t)
      BY <1>1, <1>4 DEF AllCovered
    <3>2. Around(t, k)
      <4>1. task'[t].exp = task[t].exp /\ (Live(t)' => Live(t))
        BY <1>u DEF Live
      <4>2. QED
        BY <1>u, <1>19, <1>20, <4>1 DEF Around
    <3>3. QED
      BY <1>1, <1>u, <1>4, <1>21, <2>2, <3>1, <3>2, CoveredAround
  <2>3. QED
    BY <2>1, <2>2
<1>23. AllCovered'
  BY <1>11, <1>22 DEF AllCovered
<1>24. TypeOK'
  BY <1>u, <1>11, <1>15, <1>16, SameClock, TypedPartsNext
<1>25. QED
  BY <1>10, <1>12, <1>15, <1>18, <1>23, <1>24, InvIsNext

LEMMA SendKeeps ==
    ASSUME CommunicationInv, NEW w \in Workers, ~At(w, "idle"), Send(w)
    PROVE  CommunicationInv'
<1>1. CASE \E r \in SendResults \cup {"ambiguous"} :
             /\ dlv' = [dlv EXCEPT ![Subject(w)][job[w].n].sent =
                                         dlv[Subject(w)][job[w].n].sent + 1]
             /\ job' = [job EXCEPT ![w].pc = "finalize", ![w].res = r]
  <2>1. PICK r \in SendResults \cup {"ambiguous"} :
             /\ dlv' = [dlv EXCEPT ![Subject(w)][job[w].n].sent =
                                         dlv[Subject(w)][job[w].n].sent + 1]
             /\ job' = [job EXCEPT ![w].pc = "finalize", ![w].res = r]
    BY <1>1
  <2>2. r \in Results
    BY DeliveryAssumption DEF Results
  <2>3. At(w, "send") /\ UNCHANGED <<now, faults, points, task, work>>
    BY DEF Send
  <2>4. QED
    BY <2>1, <2>2, <2>3, HandoverKeeps
<1>2. CASE job' = [job EXCEPT ![w].pc = "finalize", ![w].res = "ambiguous"] /\ dlv' = dlv
  <2>1. TypeOK
    BY InvIs
  <2>2. JobPut(job', w, "finalize", job[w].n, "ambiguous")
    BY <1>2, <2>1, AnswerPut DEF Stages, Results
  <2>3. job[w].pc = "send" /\ UNCHANGED <<now, faults, points, rows>>
    BY <1>2 DEF Send, At, rows
  <2>4. QED
    BY SMTT(30), <2>2, <2>3, AnswerKeeps
<1>3. QED
  BY SMTT(30), <1>1, <1>2 DEF Send

\* A new attempt is recorded: its predecessor is resolved, so nobody is about to
\* send, and the execution asks about the new one.
LEMMA PrepareSendKeeps ==
    ASSUME CommunicationInv, NEW w \in Workers, ~At(w, "idle"), PrepareSend(w)
    PROVE  CommunicationInv'
<1>1. TypeOK /\ DeliveriesSound /\ ExecutionsSound /\ TasksSound /\ ActionsSound /\ AllCovered
  BY InvIs
<1>2. PICK t, k : t = Subject(w) /\ k = Key(w)
  OBVIOUS
<1>c. PICK c : c = FirstOf(Routes(t))
  OBVIOUS
<1>m. PICK m : m = Len(dlv[t])
  OBVIOUS
<1>d. PICK d : d = [st |-> "attempting", ch |-> c, sent |-> 0]
  OBVIOUS
<1>3. /\ Owned(w) /\ k.kind = "dispatch" /\ Live(t)
      /\ LatestStatus(t) \notin Unresolved \cup {"delivered"} /\ Routes(t) # {}
      /\ UNCHANGED <<now, faults, points, work>>
  BY <1>2 DEF PrepareSend, Resolves, Preparing
<1>u. UNCHANGED <<now, faults, points, work>> /\ now' \in Nat /\ now <= now'
  BY <1>1, <1>3 DEF TypeOK
<1>4. k \in DOMAIN work /\ k.t = t /\ t \in Tasks /\ work[k].st = "leased" /\ work[k].by = w
  BY <1>1, <1>2, <1>3, ActionAt DEF Owned, Key, Subject
<1>5. m \in Nat /\ DOMAIN dlv[t] = 1..m /\ dlv[t] \in Seq(Delivery)
      /\ (m > 0 => LatestStatus(t) = dlv[t][m].st /\ m \in DOMAIN dlv[t])
  BY <1>1, <1>4, <1>m, LatestAt, TaskAt
<1>6. c \in 1..Channels
  <2>1. Routes(t) \subseteq 1..Channels
    BY <1>1 DEF Routes, TypeOK
  <2>2. Routes(t) \subseteq Nat
    BY <2>1
  <2>3. QED
    BY <1>c, <1>3, <2>1, <2>2, FirstIsLeast
<1>7. TaskPut(task', t, "delivering", task[t].failedFacts, task[t].facts)
  <2>1. task' = [task EXCEPT ![t].pin = c, ![t].st = "delivering"]
    BY <1>2, <1>c DEF PrepareSend
  <2>2. c \in 0..Channels
    BY <1>6
  <2>3. QED
    BY <1>1, <1>4, <2>1, <2>2, RoutePut
<1>8. d \in Delivery /\ d.st = "attempting" /\ d.sent = 0
  BY <1>d, <1>6 DEF Delivery
<1>9. PICK s : s = Append(dlv[t], d)
  OBVIOUS
<1>10. dlv' = [dlv EXCEPT ![t] = s]
  BY <1>2, <1>c, <1>d, <1>9 DEF PrepareSend
<1>11. /\ s \in Seq(Delivery) /\ Len(s) = m + 1 /\ DOMAIN s = DOMAIN dlv[t] \cup {m + 1}
       /\ s[m + 1] = d /\ \A j \in DOMAIN dlv[t] : s[j] = dlv[t][j]
  BY <1>m, <1>5, <1>8, <1>9, SeqExtend
<1>12. /\ dlv' \in Seq(Seq(Delivery)) /\ Len(dlv') = Len(dlv) /\ dlv'[t] = s
       /\ \A i \in DOMAIN dlv \ {t} : dlv'[i] = dlv[i]
  <2>1. dlv \in Seq(Seq(Delivery)) /\ t \in DOMAIN dlv
    BY <1>1, <1>4, TaskAt DEF TypeOK
  <2>2. QED
    BY SMTT(30), <1>10, <1>11, <2>1, SeqReplace
<1>13. JobPut(job', w, "send", m + 1, "none")
  <2>1. job' = [job EXCEPT ![w] = Job("send", Key(w), m + 1, "none")] /\ m + 1 \in Nat
    BY <1>2, <1>m, <1>5 DEF PrepareSend
  <2>2. PICK n \in Nat : n = m + 1
    BY <2>1
  <2>3. JobPut(job', w, "send", n, "none")
    BY <1>1, <2>1, <2>2, NewJobPut DEF Stages
  <2>4. QED
    BY <2>2, <2>3
<1>14. LawfulTask(t, "delivering", task[t].failedFacts, task[t].facts)
  BY <1>3 DEF LawfulTask, Closed
<1>15. TasksSound' /\ Tasks' = Tasks
  BY <1>1, <1>4, <1>7, <1>14, TaskChangeKeeps
<1>16. TablesTyped'
  BY <1>1, <1>7, <1>12 DEF TablesTyped, TaskPut, TypeOK
<1>17. \A i \in Tasks \ {t} : task'[i] = task[i] /\ dlv'[i] = dlv[i]
  BY <1>1, <1>7, <1>12, TaskAt DEF TaskPut
<1>18. DeliveriesSound'
  <2>1. SUFFICES ASSUME NEW i \in Tasks, NEW n \in DOMAIN dlv'[i]
        PROVE  /\ dlv'[i][n].sent <= 1
               /\ n < Len(dlv'[i]) => dlv'[i][n].st \notin Unresolved
               /\ dlv'[i][n].sent = 0 => dlv'[i][n].st \in {"attempting", "ambiguous", "final"}
               /\ dlv'[i][n].st \in {"delivered", "final"} => ~Live(i)'
    BY <1>15 DEF DeliveriesSound
  <2>2. CASE i # t
    <3>1. dlv'[i] = dlv[i] /\ (Live(i)' => Live(i))
      BY <1>17, <2>2 DEF Live
    <3>2. QED
      BY <1>1, <2>1, <3>1 DEF DeliveriesSound
  <2>3. CASE i = t /\ n = m + 1
    BY <1>5, <1>8, <1>11, <1>12, <2>3 DEF Unresolved
  <2>4. CASE i = t /\ n # m + 1
    <3>1. n \in DOMAIN dlv[t] /\ dlv'[t][n] = dlv[t][n]
      BY <1>11, <1>12, <2>1, <2>4
    <3>2. n < m => dlv[t][n].st \notin Unresolved
      BY <1>1, <1>4, <1>m, <3>1 DEF DeliveriesSound
    <3>3. n = m => dlv[t][n].st \notin Unresolved
      BY <1>3, <1>5, <3>1
    <3>4. dlv[t][n].st \notin Unresolved
      BY <1>5, <3>1, <3>2, <3>3
    <3>5. /\ dlv[t][n].sent <= 1
          /\ dlv[t][n].sent = 0 => dlv[t][n].st \in {"attempting", "ambiguous", "final"}
          /\ dlv[t][n].st \notin {"delivered", "final"}
      BY <1>1, <1>3, <1>4, <3>1 DEF DeliveriesSound
    <3>6. QED
      BY <2>4, <3>1, <3>4, <3>5
  <2>5. QED
    BY <2>2, <2>3, <2>4
<1>19. RowsGrow
  <2>1. ASSUME NEW i \in Tasks
        PROVE  /\ Len(dlv'[i]) \in Nat /\ DOMAIN dlv'[i] = 1..Len(dlv'[i]) /\ Len(dlv[i]) <= Len(dlv'[i])
               /\ \A n \in DOMAIN dlv[i] : dlv'[i][n].sent \in Nat /\ dlv[i][n].sent <= dlv'[i][n].sent
    <3>1. /\ Len(dlv[i]) \in Nat /\ DOMAIN dlv[i] = 1..Len(dlv[i])
          /\ \A n \in DOMAIN dlv[i] : dlv[i][n].sent \in Nat
      BY <1>1, LatestAt, DeliveryAt
    <3>2. CASE i # t
      BY <1>17, <3>1, <3>2
    <3>3. CASE i = t
      <4>1. DOMAIN s = 1..Len(s) /\ Len(s) \in Nat
        BY SMTT(30), <1>11
      <4>2. QED
        BY SMTT(30), <1>m, <1>5, <1>11, <1>12, <3>1, <3>3, <4>1
    <3>4. QED
      BY <3>2, <3>3
  <2>2. QED
    BY <1>15, <2>1 DEF RowsGrow
<1>20. WorkTyped' /\ ActionsSound'
  BY <1>1, <1>u, <1>19, ActionsStay
<1>21. NoSender(t)
  <2>1. SUFFICES ASSUME NEW v \in Workers, At(v, "send"), Subject(v) = t PROVE FALSE
    BY DEF NoSender
  <2>2. m \in DOMAIN dlv[t] /\ dlv[t][m].sent = 0
    BY <1>1, <1>m, <2>1 DEF ExecutionsSound, ExecutionSound, At
  <2>3. dlv[t][m].st \in {"attempting", "ambiguous", "final"}
    BY <1>1, <1>4, <2>2 DEF DeliveriesSound
  <2>4. dlv[t][m].st # "final"
    BY <1>1, <1>3, <1>4, <2>2 DEF DeliveriesSound
  <2>5. LatestStatus(t) = dlv[t][m].st
    BY <1>5, <2>2
  <2>6. QED
    BY <1>3, <2>3, <2>4, <2>5 DEF Unresolved
<1>22. /\ \A v \in Workers \ {w} : job'[v] = job[v]
       /\ job'[w].key = k /\ job'[w].pc = "send" /\ job'[w].n = m + 1
       /\ JobsTyped'
  BY <1>2, <1>13 DEF JobPut, JobsTyped, Key
<1>23. ASSUME NEW v \in Workers \ {w} PROVE Spared(v)
  <2>1. SUFFICES ASSUME At(v, "send") PROVE Spared(v)
    BY DEF Spared
  <2>2. Subject(v) \in Tasks \ {t} /\ task[Subject(v)].st \notin {"pending", "cancelled"}
    BY <1>1, <1>21, <2>1 DEF NoSender, ExecutionsSound, ExecutionSound, At
  <2>3. QED
    BY <1>17, <2>2 DEF Spared
<1>24. ExecutionsSound'
  <2>1. dlv'[t][m + 1].sent = 0 /\ Len(dlv'[t]) = m + 1 /\ m + 1 \in DOMAIN dlv'[t]
    BY <1>8, <1>11, <1>12
  <2>2. task'[t].st = "delivering"
    BY <1>7 DEF TaskPut
  <2>3. SoundWork(job'[w], Tasks', task', dlv')
    BY <1>3, <1>4, <1>15, <1>22, <2>1, <2>2 DEF SoundWork
  <2>4. ExecutionSound(w)'
    BY <2>3, SoundWorkNext
  <2>5. Subject(w)' = t
    BY <1>4, <1>22 DEF Subject
  <2>6. \A v \in Workers \ {w} : At(v, "send") => Subject(v) # Subject(w)'
    BY <1>21, <2>5 DEF NoSender
  <2>7. QED
    BY <1>1, <1>19, <1>22, <1>23, <2>4, <2>6, ExecutionsKeep
<1>25. Covers(k)'
  <2>1. dlv'[t] # <<>> /\ Len(dlv'[t]) = m + 1 /\ dlv'[t][m + 1].st = "attempting"
    BY <1>5, <1>8, <1>11, <1>12
  <2>2. LatestStatus(k.t)' \in Unresolved
    BY <1>4, <2>1 DEF LatestStatus, Unresolved
  <2>3. Executing(w, k)'
    BY <1>u, <1>4, <1>22 DEF Executing, Owned, Key, At
  <2>4. Asking(k)'
    BY <1>4, <1>22, <2>1, <2>3 DEF Asking
  <2>5. Open(k)'
    BY <1>u, <1>4 DEF Open
  <2>6. QED
    BY <2>2, <2>4, <2>5 DEF Covers
<1>26. ASSUME NEW i \in Tasks PROVE Covered(i)'
  <2>1. CASE i # t
    <3>1. \A v \in Workers : \A j : j # k /\ (Executing(v, j) \/ Executing(v, j)') => job'[v] = job[v]
      BY <1>2, <1>22, ExecutorsStay DEF Key
    <3>2. OthersStay(t)
      BY <1>4, <3>1 DEF OthersStay
    <3>3. QED
      BY <1>u, <1>17, <2>1, <3>2, OtherCovered
  <2>2. CASE i = t
    BY <1>u, <1>4, <1>25, <2>2 DEF Covered
  <2>3. QED
    BY <2>1, <2>2
<1>27. AllCovered'
  BY <1>15, <1>26 DEF AllCovered
<1>28. TypeOK'
  BY <1>u, <1>16, <1>20, <1>22, SameClock, TypedPartsNext
<1>29. QED
  BY <1>15, <1>18, <1>20, <1>24, <1>27, <1>28, InvIsNext

-----------------------------------------------------------------------------
(* The theorems *)

LEMMA InitHolds == Init => CommunicationInv
<1>1. SUFFICES ASSUME Init PROVE CommunicationInv
  OBVIOUS
<1>2. Tasks = {} /\ task = <<>> /\ dlv = <<>> /\ DOMAIN work = {} /\ now = 0 /\ faults = 0
  BY <1>1 DEF Init, Tasks
<1>3. job \in [Workers -> Execution \cup {Idle}] /\ \A w \in Workers : At(w, "idle")
  BY <1>1 DEF Init, At, Idle
<1>4. points \subseteq 1..Channels
  BY <1>1, DeliveryAssumption DEF Init
<1>5. TypeOK
  BY <1>2, <1>3, <1>4, DeliveryAssumption DEF TypeOK
<1>6. DeliveriesSound /\ TasksSound /\ ActionsSound /\ AllCovered
  BY <1>2 DEF DeliveriesSound, TasksSound, LineageSound, SequentialEscalation, ReportsSound,
              FailureIsReported, ActionsSound, AllCovered
<1>7. ExecutionsSound
  BY <1>3 DEF ExecutionsSound, At
<1>8. QED
  BY <1>5, <1>6, <1>7, InvIs

LEMMA HandlerStepKeeps ==
    ASSUME CommunicationInv, NEW w \in Workers, ~At(w, "idle"), HandlerStep(w)
    PROVE  CommunicationInv'
<1>1. CASE FenceLost(w)
  BY <1>1, FenceLostKeeps
<1>2. CASE SkipClosed(w, "dispatch", Latest(Subject(w))) \/ SkipClosed(w, "reconcile", Key(w).n)
  <2>1. PICK kind, n : SkipClosed(w, kind, n)
    BY <1>2
  <2>2. QED
    BY <2>1, SkipClosedKeeps
<1>3. CASE DeadlineMissed(w) \/ PinnedUnreachable(w)
  BY <1>3, CloseAndEscalateKeeps DEF DeadlineMissed, PinnedUnreachable
<1>4. CASE \/ PrepareLookup(w, "dispatch", Latest(Subject(w)))
           \/ PrepareLookup(w, "reconcile", Key(w).n)
  <2>1. PICK kind, n : /\ \/ kind = "dispatch" /\ n = Len(dlv[Subject(w)])
                          \/ kind = "reconcile" /\ n = Key(w).n
                       /\ PrepareLookup(w, kind, n)
    BY <1>4 DEF Latest
  <2>2. QED
    BY <2>1, PrepareLookupKeeps
<1>5. CASE SkipFailed(w, "dispatch", Latest(Subject(w))) \/ SkipFailed(w, "reconcile", Key(w).n)
  <2>1. PICK kind, n : /\ \/ kind = "dispatch" /\ n = Len(dlv[Subject(w)])
                          \/ kind = "reconcile" /\ n = Key(w).n
                       /\ SkipFailed(w, kind, n)
    BY <1>5 DEF Latest
  <2>2. QED
    BY <2>1, SkipFailedKeeps
<1>6. CASE PrepareSend(w)
  BY <1>6, PrepareSendKeeps
<1>7. CASE PoisonFound(w)
  BY <1>7, PoisonFoundKeeps
<1>8. CASE FailPoisonedTask(w)
  BY <1>8, FailPoisonedTaskKeeps
<1>9. CASE Send(w)
  BY <1>9, SendKeeps
<1>10. CASE Lookup(w)
  BY <1>10, LookupKeeps
<1>11. CASE ProviderMissing(w)
  BY <1>11, ProviderMissingKeeps
<1>12. CASE Finalize(w)
  BY <1>12, FinalizeKeeps
<1>13. CASE HandlerFails(w)
  BY <1>13, HandlerFailsKeeps
<1>14. CASE Settle(w)
  BY <1>14, SettleKeeps
<1>15. QED
  BY <1>1, <1>2, <1>3, <1>4, <1>5, <1>6, <1>7, <1>8, <1>9, <1>10, <1>11, <1>12, <1>13, <1>14
     DEF HandlerStep

LEMMA NextKeeps ==
    ASSUME CommunicationInv, [Next]_vars
    PROVE  CommunicationInv'
<1>1. ASSUME NEW exp \in Deadlines, CreateTask(exp) PROVE CommunicationInv'
  BY <1>1, CreateTaskKeeps
<1>2. ASSUME NEW t \in Tasks, CancelPending(t) \/ CancelSlotOffer(t) PROVE CommunicationInv'
  BY <1>2, CancelKeeps
<1>3. ASSUME NEW c \in 1..Channels, LosePoint(c) PROVE CommunicationInv'
  BY <1>3, LosePointKeeps
<1>4. ASSUME NEW w \in Workers, NEW k \in DOMAIN work, Claim(w, k) PROVE CommunicationInv'
  BY <1>4, ClaimKeeps
<1>5. ASSUME NEW w \in Workers, ~At(w, "idle"), HandlerStep(w) PROVE CommunicationInv'
  BY <1>5, HandlerStepKeeps
<1>6. ASSUME NEW w \in Workers, Crash(w) PROVE CommunicationInv'
  BY <1>6, CrashKeeps
<1>7. ASSUME NEW k \in DOMAIN work, LeaseExpires(k) PROVE CommunicationInv'
  BY <1>7, LeaseExpiresKeeps
<1>8. ASSUME NEW t \in Tasks, NEW n \in DOMAIN dlv[t], NEW r \in Reports, OutcomeReport(t, n, r)
      PROVE  CommunicationInv'
  BY <1>8, OutcomeReportKeeps
<1>9. CASE Tick
  BY <1>9, TickKeeps
<1>10. CASE UNCHANGED vars
  <2>1. now \in Nat
    BY InvIs DEF TypeOK
  <2>2. UNCHANGED rows /\ job' = job /\ now' \in Nat /\ now <= now' /\ ClockTyped'
    BY <1>10, <2>1, SameClock DEF vars, rows
  <2>3. QED
    BY <2>2, Unmoved
<1>11. QED
  BY <1>1, <1>2, <1>3, <1>4, <1>5, <1>6, <1>7, <1>8, <1>9, <1>10 DEF Next

\* The delivery protocol keeps its books: an unresolved delivery is the latest
\* one, a sender works on the latest attempt that nobody else sends, a lineage is
\* closed before it gets a child, and every live task has an action that will act
\* on its latest delivery unless it is known to be given up.
THEOREM CommunicationInvariant == Spec => []CommunicationInv
<1>1. CommunicationInv /\ [Next]_vars => CommunicationInv'
  BY NextKeeps
<1>2. QED
  BY InitHolds, <1>1, PTL DEF Spec

\* A message is handed over at most once per attempt, and a further attempt
\* follows only a resolved one.
THEOREM OneHandover == Spec => []NoBlindResend
<1>1. CommunicationInv => NoBlindResend
  BY DEF CommunicationInv, NoBlindResend, DeliveriesSound, Unresolved
<1>2. QED
  BY CommunicationInvariant, <1>1, PTL

\* A lineage never has two live tasks.
THEOREM OneLiveTask == Spec => []SequentialEscalation
<1>1. CommunicationInv => SequentialEscalation
  BY DEF CommunicationInv
<1>2. QED
  BY CommunicationInvariant, <1>1, PTL

\* A failed task is reported once and explained.
THEOREM ReportedOnce == Spec => []FailureIsReported
<1>1. CommunicationInv => FailureIsReported
  BY DEF CommunicationInv
<1>2. QED
  BY CommunicationInvariant, <1>1, PTL

\* A live task without an open action is one the schedule gave up.
THEOREM NobodyForgotten == Spec => []StrandedOnlyWhenExpected
<1>1. CommunicationInv => StrandedOnlyWhenExpected
  <2>1. SUFFICES ASSUME CommunicationInv, NEW t \in Tasks, Live(t), ~HasWork(t)
        PROVE  \/ \E k \in DOMAIN work : k.t = t /\ work[k].st = "dead"
               \/ Expired(t) /\ LatestStatus(t) = "retryable"
    BY DEF StrandedOnlyWhenExpected
  <2>2. GivenUp(t) \/ \E k \in DOMAIN work : k.t = t /\ Covers(k)
    BY <2>1 DEF CommunicationInv, Covered
  <2>3. ~\E k \in DOMAIN work : k.t = t /\ Covers(k)
    BY <2>1 DEF HasWork, Covers
  <2>4. QED
    BY <2>2, <2>3 DEF GivenUp
<1>2. QED
  BY CommunicationInvariant, <1>1, PTL

\* What a step does to results that are in.
Lawful(t) ==
    /\ task[t].st \in Closed => task'[t].st \in {task[t].st, "completed"}
    /\ \A n \in DOMAIN dlv[t] :
          /\ dlv[t][n].st \in {"delivered", "final"} => dlv'[t][n].st = dlv[t][n].st
          /\ dlv[t][n].st = "retryable" => dlv'[t][n].st \in {"retryable", "delivered"}
          /\ dlv'[t][n].sent > dlv[t][n].sent => task[t].st # "cancelled"

\* The row of task i and its deliveries seen in two tables.
LEMMA LawfulSame ==
    ASSUME TypeOK, NEW i \in Tasks, dlv'[i] = dlv[i],
           task[i].st \in Closed => task'[i].st \in {task[i].st, "completed"}
    PROVE  Lawful(i)
<1>1. \A n \in DOMAIN dlv[i] : dlv[i][n].sent \in Nat
  BY DeliveryAt
<1>2. QED
  BY <1>1 DEF Lawful

\* The escalation step appends a task or adds a fact.
LEMMA EscalationLawful ==
    ASSUME TypeOK, NEW t \in Tasks, NEW ts \in Seq(Task), Len(ts) = Len(task), NEW ds,
           ds \in Seq(Seq(Delivery)), Len(ds) = Len(task), EscalateChannel(ts, ds, t), NEW i \in Tasks
    PROVE  task'[i].st = ts[i].st /\ dlv'[i] = ds[i]
<1>1. DOMAIN ts = Tasks /\ Tasks = DOMAIN ds /\ ts[t] \in Task /\ ts[i] \in Task
  BY SMTT(30) DEF TypeOK, Tasks
<1>2. CASE task' = ts /\ dlv' = ds
  BY <1>2
<1>3. CASE task' = LineageUnreachable(ts, t) /\ dlv' = ds
  <2>1. task'[i].st = ts[i].st
    <3>1. CASE i = t
      BY <1>1, <1>3, <3>1 DEF LineageUnreachable, Task
    <3>2. CASE i # t
      BY <1>1, <1>3, <3>2 DEF LineageUnreachable
    <3>3. QED
      BY <3>1, <3>2
  <2>2. QED
    BY <1>3, <2>1
<1>4. CASE \E row, e : task' = Append(ts, row) /\ dlv' = Append(ds, e)
  <2>1. PICK row, e : task' = Append(ts, row) /\ dlv' = Append(ds, e)
    BY <1>4
  <2>2. i \in 1..Len(ts) /\ i \in 1..Len(ds)
    BY <1>1
  <2>3. task'[i] = ts[i]
    BY <2>1, <2>2
  <2>4. dlv'[i] = ds[i]
    BY <2>1, <2>2
  <2>5. QED
    BY <2>3, <2>4
<1>5. QED
  BY <1>2, <1>3, <1>4 DEF EscalateChannel

LEMMA ClosingLawful ==
    ASSUME TypeOK, NEW t \in Tasks, NEW ds, ds \in Seq(Seq(Delivery)), Len(ds) = Len(task),
           CloseTaskFailedAndEscalate(t, ds), NEW i \in Tasks
    PROVE  /\ task[i].st \in Closed => task'[i].st = task[i].st
           /\ dlv'[i] = ds[i]
<1>1. PICK ts : ts = IF Live(t) THEN FailedTask(t, {}) ELSE task
  OBVIOUS
<1>2. EscalateChannel(ts, ds, t)
  BY <1>1 DEF CloseTaskFailedAndEscalate
<1>3. /\ ts \in Seq(Task) /\ Len(ts) = Len(task)
      /\ task[i].st \in Closed => ts[i].st = task[i].st
  <2>1. CASE Live(t)
    <3>1. TaskPut(ts, t, "failed", task[t].failedFacts + 1, task[t].facts \cup {})
      BY <1>1, <2>1, FailedPut DEF Facts
    <3>2. QED
      BY <2>1, <3>1 DEF TaskPut, Live
  <2>2. CASE ~Live(t)
    BY <1>1, <2>2 DEF TypeOK
  <2>3. QED
    BY <2>1, <2>2
<1>4. task'[i].st = ts[i].st /\ dlv'[i] = ds[i]
  BY <1>2, <1>3, EscalationLawful
<1>5. QED
  BY <1>3, <1>4

LEMMA FinalizingLawful ==
    ASSUME TypeOK, NEW t \in Tasks, NEW n \in DOMAIN dlv[t], NEW r \in Results,
           FinalizeProviderResult(t, n, r), NEW i \in Tasks
    PROVE  Lawful(i)
<1>1. CASE ~AcceptsResult(t, n, r)
  <2>1. task' = task /\ dlv' = dlv
    BY <1>1 DEF FinalizeProviderResult, rows
  <2>2. QED
    BY <2>1, LawfulSame
<1>2. CASE AcceptsResult(t, n, r)
  <2>1. PICK ds : ds = [dlv EXCEPT ![t][n].st = r]
    OBVIOUS
  <2>2. DlvPut(ds, t, n, r, dlv[t][n].sent)
    BY <2>1, ResultPut
  <2>3. ds \in Seq(Seq(Delivery)) /\ Len(ds) = Len(task)
    BY <2>2 DEF DlvPut, TypeOK
  <2>4. dlv'[i] = ds[i] /\ (task[i].st \in Closed => task'[i].st \in {task[i].st, "completed"})
    <3>1. CASE r = "delivered"
      <4>1. task' = [task EXCEPT ![t].st = "completed"] /\ dlv' = ds
        BY <1>2, <2>1, <3>1 DEF FinalizeProviderResult
      <4>2. TaskPut(task', t, "completed", task[t].failedFacts, task[t].facts)
        BY <4>1, StatusPut DEF Statuses, Closed
      <4>3. QED
        BY <4>1, <4>2 DEF TaskPut
    <3>2. CASE r = "retryable"
      <4>1. dlv' = ds /\ (~MayRearm(t) => task' = task)
            /\ (MayRearm(t) => task' = [task EXCEPT ![t].st = "pending"])
        BY <1>2, <2>1, <3>2 DEF FinalizeProviderResult
      <4>2. CASE MayRearm(t)
        <5>1. TaskPut(task', t, "pending", task[t].failedFacts, task[t].facts)
          BY <4>1, <4>2, StatusPut DEF Statuses
        <5>2. QED
          BY <4>1, <4>2, <5>1 DEF TaskPut, MayRearm, Live
      <4>3. CASE ~MayRearm(t)
        BY <4>1, <4>3
      <4>4. QED
        BY <4>2, <4>3
    <3>3. CASE r = "final"
      <4>1. CloseTaskFailedAndEscalate(t, ds)
        BY <1>2, <2>1, <3>3 DEF FinalizeProviderResult
      <4>2. QED
        BY <2>3, <4>1, ClosingLawful
    <3>4. CASE r \notin {"delivered", "retryable", "final"}
      <4>1. dlv' = ds /\ task' = task
        BY <1>2, <2>1, <3>4 DEF FinalizeProviderResult
      <4>2. QED
        BY <4>1
    <3>5. QED
      BY <3>1, <3>2, <3>3, <3>4
  <2>5. ASSUME NEW m \in DOMAIN dlv[i]
        PROVE  /\ dlv[i][m].st \in {"delivered", "final"} => ds[i][m].st = dlv[i][m].st
               /\ dlv[i][m].st = "retryable" => ds[i][m].st \in {"retryable", "delivered"}
               /\ ds[i][m].sent = dlv[i][m].sent /\ dlv[i][m].sent \in Nat
    <3>1. dlv[i][m].sent \in Nat /\ i \in DOMAIN dlv
      BY <2>5, DeliveryAt, TaskAt
    <3>2. CASE i # t
      BY <2>2, <2>5, <3>1, <3>2 DEF DlvPut
    <3>3. CASE i = t /\ m # n
      BY <2>2, <2>5, <3>1, <3>3 DEF DlvPut
    <3>4. CASE i = t /\ m = n
      BY <1>2, <2>2, <3>1, <3>4 DEF DlvPut, AcceptsResult
    <3>5. QED
      BY <3>2, <3>3, <3>4
  <2>6. QED
    BY <2>4, <2>5 DEF Lawful
<1>3. QED
  BY <1>1, <1>2

LEMMA HandlerLawful ==
    ASSUME CommunicationInv, NEW w \in Workers, ~At(w, "idle"), HandlerStep(w), NEW i \in Tasks
    PROVE  Lawful(i)
<1>1. TypeOK /\ ExecutionsSound
  BY InvIs
<1>2. PICK t \in Tasks : t = Subject(w)
  BY SubjectIs
<1>3. ExecutionSound(w)
  BY <1>1 DEF ExecutionsSound
<1>4. CASE task' = task /\ dlv' = dlv
  BY <1>1, <1>4, LawfulSame
<1>5. CASE SkipClosed(w, "dispatch", Latest(Subject(w))) \/ SkipClosed(w, "reconcile", Key(w).n)
  <2>1. dlv' = dlv /\ task' = IF Live(t) THEN [task EXCEPT ![t].st = "completed"] ELSE task
    BY <1>2, <1>5 DEF SkipClosed
  <2>2. CASE Live(t)
    <3>1. TaskPut(task', t, "completed", task[t].failedFacts, task[t].facts) /\ dlv' = dlv
      BY <1>1, <2>1, <2>2, StatusPut DEF Statuses, Closed
    <3>2. task[i].st \in Closed => task'[i].st \in {task[i].st, "completed"}
      BY <3>1 DEF TaskPut
    <3>3. QED
      BY <1>1, <3>1, <3>2, LawfulSame
  <2>3. CASE ~Live(t)
    BY <1>4, <2>1, <2>3
  <2>4. QED
    BY <2>2, <2>3
<1>6. CASE DeadlineMissed(w) \/ PinnedUnreachable(w)
  <2>1. CloseTaskFailedAndEscalate(t, dlv)
    BY <1>2, <1>6 DEF DeadlineMissed, PinnedUnreachable
  <2>2. dlv \in Seq(Seq(Delivery)) /\ Len(dlv) = Len(task)
    BY <1>1 DEF TypeOK
  <2>3. (task[i].st \in Closed => task'[i].st = task[i].st) /\ dlv'[i] = dlv[i]
    BY <1>1, <2>1, <2>2, ClosingLawful
  <2>4. QED
    BY <1>1, <2>3, LawfulSame
<1>7. CASE FailPoisonedTask(w)
  <2>1. dlv' = dlv /\ (task' = task \/ (Live(t) /\ task' = FailedTask(t, {"poisoned"})))
    BY <1>2, <1>7 DEF FailPoisonedTask
  <2>2. CASE Live(t) /\ task' = FailedTask(t, {"poisoned"})
    <3>1. TaskPut(task', t, "failed", task[t].failedFacts + 1, task[t].facts \cup {"poisoned"})
      BY <1>1, <2>2, FailedPut DEF Facts
    <3>2. task[i].st \in Closed => task'[i].st = task[i].st
      BY <2>2, <3>1 DEF TaskPut, Live
    <3>3. QED
      BY <1>1, <2>1, <3>2, LawfulSame
  <2>3. QED
    BY <1>4, <2>1, <2>2
<1>8. CASE PrepareSend(w)
  <2>1. Live(t)
    BY <1>2, <1>8 DEF PrepareSend, Resolves
  <2>2. PICK c, d : /\ task' = [task EXCEPT ![t].pin = c, ![t].st = "delivering"]
                    /\ dlv' = [dlv EXCEPT ![t] = Append(dlv[t], d)]
    BY <1>2, <1>8 DEF PrepareSend
  <2>3. task \in Seq(Task) /\ dlv \in Seq(Seq(Delivery)) /\ Len(dlv) = Len(task) /\ i \in DOMAIN dlv
        /\ t \in DOMAIN dlv /\ i \in DOMAIN task /\ dlv[i] \in Seq(Delivery)
    BY <1>1, TaskAt DEF TypeOK, Tasks
  <2>4. CASE i # t
    <3>1. task'[i] = task[i] /\ dlv'[i] = dlv[i]
      BY <2>2, <2>3, <2>4
    <3>2. QED
      BY <1>1, <3>1, LawfulSame
  <2>5. CASE i = t
    <3>1. dlv'[t] = Append(dlv[t], d)
      BY <2>2, <2>3
    <3>2. ASSUME NEW n \in DOMAIN dlv[t] PROVE dlv'[t][n] = dlv[t][n] /\ dlv[t][n].sent \in Nat
      <4>1. dlv[t][n].sent \in Nat
        BY <1>1, <3>2, DeliveryAt
      <4>2. n \in 1..Len(dlv[t])
        BY <2>3, <2>5, <3>2
      <4>3. dlv'[t][n] = dlv[t][n]
        BY <2>3, <2>5, <3>1, <4>2
      <4>4. QED
        BY <4>1, <4>3
    <3>3. QED
      BY <2>1, <2>5, <3>2 DEF Lawful, Live
  <2>6. QED
    BY <2>4, <2>5
<1>9. CASE Send(w)
  <2>1. PICK n : n = job[w].n
    OBVIOUS
  <2>2. n \in DOMAIN dlv[t] /\ task[t].st # "cancelled" /\ task' = task
    BY <1>2, <1>3, <1>9, <2>1 DEF ExecutionSound, Send, At
  <2>3. CASE dlv' = [dlv EXCEPT ![t][n].sent = dlv[t][n].sent + 1]
    <3>1. DlvPut(dlv', t, n, dlv[t][n].st, dlv[t][n].sent + 1)
      BY <1>1, <2>2, <2>3, SentPut
    <3>2. CASE i # t
      <4>1. dlv'[i] = dlv[i]
        BY <1>1, <3>1, <3>2, TaskAt DEF DlvPut
      <4>2. QED
        BY <1>1, <2>2, <4>1, LawfulSame
    <3>3. CASE i = t
      <4>1. \A m \in DOMAIN dlv[t] : dlv'[t][m].st = dlv[t][m].st
        BY <3>1 DEF DlvPut
      <4>2. QED
        BY <2>2, <3>3, <4>1 DEF Lawful
    <3>4. QED
      BY <3>2, <3>3
  <2>4. QED
    BY <1>2, <1>4, <1>9, <2>1, <2>2, <2>3 DEF Send
<1>10. CASE Finalize(w)
  <2>1. PICK n, r : n = job[w].n /\ r = IF job[w].res = "missing" THEN "final" ELSE job[w].res
    OBVIOUS
  <2>2. At(w, "finalize") /\ FinalizeProviderResult(t, n, r)
    BY <1>2, <1>10, <2>1 DEF Finalize
  <2>3. n \in DOMAIN dlv[t] /\ job[w].res # "none"
    BY <1>2, <1>3, <2>1, <2>2 DEF ExecutionSound, At
  <2>4. job[w].res \in Results \cup {"none", "missing"}
    BY <1>1, JobAt
  <2>5. r \in Results
    BY <2>1, <2>3, <2>4 DEF Results
  <2>6. QED
    BY <1>1, <2>2, <2>3, <2>5, FinalizingLawful
<1>11. CASE \/ FenceLost(w) \/ PoisonFound(w) \/ Lookup(w) \/ ProviderMissing(w)
            \/ HandlerFails(w) \/ Settle(w)
            \/ PrepareLookup(w, "dispatch", Latest(Subject(w)))
            \/ PrepareLookup(w, "reconcile", Key(w).n)
            \/ SkipFailed(w, "dispatch", Latest(Subject(w)))
            \/ SkipFailed(w, "reconcile", Key(w).n)
  <2>1. task' = task /\ dlv' = dlv
    BY <1>11 DEF FenceLost, PoisonFound, Lookup, ProviderMissing, HandlerFails, Settle,
                 PrepareLookup, SkipFailed, rows
  <2>2. QED
    BY <1>4, <2>1
<1>12. QED
  BY <1>5, <1>6, <1>7, <1>8, <1>9, <1>10, <1>11 DEF HandlerStep

LEMMA NextLawful ==
    ASSUME CommunicationInv, [Next]_vars, NEW i \in Tasks
    PROVE  Lawful(i)
<1>1. TypeOK
  BY InvIs
<1>2. ASSUME NEW exp \in Deadlines, CreateTask(exp) PROVE Lawful(i)
  <2>1. PICK row, e : task' = Append(task, row) /\ dlv' = Append(dlv, e)
    BY <1>2 DEF CreateTask
  <2>2. task \in Seq(Task) /\ dlv \in Seq(Seq(Delivery)) /\ i \in 1..Len(task) /\ i \in 1..Len(dlv)
    BY <1>1 DEF TypeOK, Tasks
  <2>3. task'[i] = task[i]
    BY <2>1, <2>2
  <2>4. dlv'[i] = dlv[i]
    BY <2>1, <2>2
  <2>5. QED
    BY <1>1, <2>3, <2>4, LawfulSame
<1>3. ASSUME NEW t \in Tasks, CancelPending(t) \/ CancelSlotOffer(t) PROVE Lawful(i)
  <2>1. task[t].st = "pending" /\ task' = [task EXCEPT ![t].st = "cancelled"] /\ dlv' = dlv
    BY <1>3 DEF CancelPending, CancelSlotOffer
  <2>2. TaskPut(task', t, "cancelled", task[t].failedFacts, task[t].facts)
    BY <1>1, <2>1, StatusPut DEF Statuses, Closed
  <2>3. task[i].st \in Closed => task'[i].st = task[i].st
    BY <2>1, <2>2 DEF TaskPut, Closed
  <2>4. dlv'[i] = dlv[i]
    BY <2>1
  <2>5. QED
    BY <1>1, <2>3, <2>4, LawfulSame
<1>4. ASSUME NEW w \in Workers, ~At(w, "idle"), HandlerStep(w) PROVE Lawful(i)
  BY <1>4, HandlerLawful
<1>5. ASSUME NEW t \in Tasks, NEW n \in DOMAIN dlv[t], NEW r \in Reports, OutcomeReport(t, n, r)
      PROVE  Lawful(i)
  <2>1. r \in Results /\ FinalizeProviderResult(t, n, r)
    BY <1>5, DeliveryAssumption DEF OutcomeReport
  <2>2. QED
    BY <1>1, <1>5, <2>1, FinalizingLawful
<1>6. CASE task' = task /\ dlv' = dlv
  BY <1>1, <1>6, LawfulSame
<1>7. CASE \/ \E c \in 1..Channels : LosePoint(c)
           \/ \E w \in Workers : \E k \in DOMAIN work : Claim(w, k)
           \/ \E w \in Workers : Crash(w)
           \/ \E k \in DOMAIN work : LeaseExpires(k)
           \/ Tick
           \/ UNCHANGED vars
  <2>1. task' = task /\ dlv' = dlv
    BY <1>7 DEF LosePoint, Claim, Crash, LeaseExpires, Tick, vars, rows
  <2>2. QED
    BY <1>6, <2>1
<1>8. QED
  BY <1>2, <1>3, <1>4, <1>5, <1>7 DEF Next

\* A late result completes a closed task at most, and a resolved delivery keeps
\* its status or is corrected to delivered.
THEOREM ResultsStand == Spec => OutcomesAreFinal
<1>1. CommunicationInv /\ [Next]_vars
         => [\A t \in Tasks :
              /\ task[t].st \in Closed => task'[t].st \in {task[t].st, "completed"}
              /\ \A n \in DOMAIN dlv[t] :
                    /\ dlv[t][n].st \in {"delivered", "final"} => dlv'[t][n].st = dlv[t][n].st
                    /\ dlv[t][n].st = "retryable" => dlv'[t][n].st \in {"retryable", "delivered"}]_vars
  BY NextLawful DEF Lawful
<1>2. QED
  BY CommunicationInvariant, <1>1, PTL DEF Spec, OutcomesAreFinal

\* Nothing is handed to a provider for a cancelled task.
THEOREM CancelledIsSilent == Spec => NoSendAfterCancel
<1>1. CommunicationInv /\ [Next]_vars
         => [\A t \in Tasks : \A n \in DOMAIN dlv[t] :
               dlv'[t][n].sent > dlv[t][n].sent => task[t].st # "cancelled"]_vars
  BY NextLawful DEF Lawful
<1>2. QED
  BY CommunicationInvariant, <1>1, PTL DEF Spec, NoSendAfterCancel

=============================================================================
