-------------------------- MODULE LiveQueueProofs --------------------------
(***************************************************************************)
(* Proofs about LiveQueue for any parties, operators, callers, resources,  *)
(* holds and bounds.                                                       *)
(***************************************************************************)
EXTENDS LiveQueue, FiniteSetTheorems, SequenceTheorems, WellFoundedInduction, TLAPS

-----------------------------------------------------------------------------
(* Rows *)

Sts == Active \cup Done

\* An entry from its fields.
LEMMA EntryRow ==
    ASSUME NEW x \in Entry, NEW st \in Sts, NEW h \in 0..Forever, NEW b \in BOOLEAN,
           NEW k \in -1..1, NEW y,
           y = [party |-> x.party, st |-> st, hold |-> h, skip |-> b, passes |-> k]
    PROVE  y \in Entry /\ y.st = st /\ y.hold = h /\ y.skip = b /\ y.passes = k
<1>1. x.party \in Parties
  BY DEF Entry
<1>2. [party |-> x.party, st |-> st, hold |-> h, skip |-> b, passes |-> k] \in Entry
  BY <1>1, Zenon DEF Entry, Sts
<1>3. QED
  BY <1>2

\* The fields of an entry.
LEMMA EntryFields ==
    ASSUME NEW x \in Entry
    PROVE  /\ x.st \in Sts /\ x.hold \in 0..Forever /\ x.passes \in -1..1 /\ x.skip \in BOOLEAN
           /\ x = [party |-> x.party, st |-> x.st, hold |-> x.hold, skip |-> x.skip,
                   passes |-> x.passes]
BY DEF Entry, Sts

\* The bounds.
LEMMA Bounds ==
    ASSUME TypeOK
    PROVE  /\ now \in Nat /\ Forever \in Nat /\ 0 \in 0..Forever
           /\ \A until \in Instants : until \in 0..Forever /\ until > now
BY LiveQueueAssumption DEF TypeOK, Forever, Instants

\* A time hold that ran out is taken off.
LEMMA ExpireRow ==
    ASSUME NEW x \in Entry, NEW y, y = ExpireTimeHold(x), 0 \in 0..Forever
    PROVE  /\ y \in Entry /\ y.st = x.st /\ y.skip = x.skip /\ y.passes = x.passes
           /\ y.hold = IF x.hold <= now THEN 0 ELSE x.hold
<1>1. CASE x.hold <= now
  <2>1. y = [party |-> x.party, st |-> x.st, hold |-> 0, skip |-> x.skip, passes |-> x.passes]
    BY <1>1 DEF ExpireTimeHold, NoHold, Entry
  <2>2. x.st \in Sts /\ x.passes \in -1..1
    BY EntryFields
  <2>3. x.skip \in BOOLEAN
    BY EntryFields
  <2>4. QED
    BY <1>1, <2>1, <2>2, <2>3, EntryRow
<1>2. CASE ~(x.hold <= now)
  BY <1>2 DEF ExpireTimeHold
<1>3. QED
  BY <1>1, <1>2

\* An entry leaves the line.
LEMMA LeaveRow ==
    ASSUME NEW x \in Entry, NEW st \in Sts, NEW y, y = LeaveLine(x, st), 0 \in 0..Forever
    PROVE  y \in Entry /\ y.st = st /\ y.hold = 0 /\ ~y.skip /\ y.passes = 0
<1>1. y = [party |-> x.party, st |-> st, hold |-> 0, skip |-> FALSE, passes |-> 0]
  BY DEF LeaveLine, NoHold, Entry
<1>2. x.party \in Parties /\ 0 \in -1..1
  BY DEF Entry
<1>3. [party |-> x.party, st |-> st, hold |-> 0, skip |-> FALSE, passes |-> 0] \in Entry
  BY <1>2, Zenon DEF Entry, Sts
<1>4. QED
  BY <1>1, <1>3

\* A skip is consumed.
LEMMA ConsumeRow ==
    ASSUME NEW x \in Entry, NEW y, y = ConsumeSkip(x)
    PROVE  y \in Entry /\ y.st = x.st /\ y.hold = x.hold /\ ~y.skip /\ y.passes = x.passes
<1>1. y = [party |-> x.party, st |-> x.st, hold |-> x.hold, skip |-> FALSE, passes |-> x.passes]
  BY DEF ConsumeSkip, Entry
<1>2. /\ x.party \in Parties /\ x.st \in Sts /\ x.passes \in -1..1 /\ x.hold \in 0..Forever
  BY DEF Entry, Sts
<1>3. [party |-> x.party, st |-> x.st, hold |-> x.hold, skip |-> FALSE, passes |-> x.passes]
        \in Entry
  BY <1>2, Zenon DEF Entry, Sts
<1>4. QED
  BY <1>1, <1>3

\* A pass is counted.
LEMMA CountRow ==
    ASSUME NEW x \in Entry, NEW e, NEW head, NEW y, y = CountPass(x, e, head)
    PROVE  /\ y \in Entry /\ y.st = x.st /\ y.hold = x.hold /\ y.skip = x.skip
           /\ y.passes = IF (e < head /\ x.st = "waiting" /\ ~Held(e)) /\ x.passes < 1 THEN -1
                         ELSE IF x.passes > 0 THEN 0 ELSE x.passes
<1> DEFINE k == IF (e < head /\ x.st = "waiting" /\ ~Held(e)) /\ x.passes < 1 THEN -1
                ELSE IF x.passes > 0 THEN 0 ELSE x.passes
<1>1. y = [party |-> x.party, st |-> x.st, hold |-> x.hold, skip |-> x.skip, passes |-> k]
  BY DEF CountPass, Entry
<1>2. x.st \in Sts /\ x.passes \in -1..1 /\ x.hold \in 0..Forever
  BY EntryFields
<1>3. x.skip \in BOOLEAN
  BY EntryFields
<1>4. k \in -1..1
  BY <1>2
<1> HIDE DEF k
<1>5. QED
  BY <1>1, <1>2, <1>3, <1>4, EntryRow DEF k

WithHold(x, h) == [x EXCEPT !.hold = h]

\* A hold is placed or released.
LEMMA HoldRow ==
    ASSUME NEW x \in Entry, NEW h \in 0..Forever, NEW y, y = WithHold(x, h)
    PROVE  y \in Entry /\ y.st = x.st /\ y.hold = h /\ y.skip = x.skip /\ y.passes = x.passes
<1>1. y = [party |-> x.party, st |-> x.st, hold |-> h, skip |-> x.skip, passes |-> x.passes]
  BY DEF WithHold, Entry
<1>2. x.st \in Sts /\ x.passes \in -1..1
  BY EntryFields
<1>3. x.skip \in BOOLEAN
  BY EntryFields
<1>4. QED
  BY <1>1, <1>2, <1>3, EntryRow

WithSkip(x) == [x EXCEPT !.skip = TRUE, !.passes = 1]

\* A skip is recorded.
LEMMA SkipRow ==
    ASSUME NEW x \in Entry, NEW y, y = WithSkip(x)
    PROVE  y \in Entry /\ y.st = x.st /\ y.hold = x.hold /\ y.skip /\ y.passes = 1
<1>1. y = [party |-> x.party, st |-> x.st, hold |-> x.hold, skip |-> TRUE, passes |-> 1]
  BY DEF WithSkip, Entry
<1>2. x.party \in Parties /\ x.st \in Sts /\ x.hold \in 0..Forever /\ 1 \in -1..1
  BY DEF Entry, Sts
<1>3. [party |-> x.party, st |-> x.st, hold |-> x.hold, skip |-> TRUE, passes |-> 1] \in Entry
  BY <1>2, Zenon DEF Entry, Sts
<1>4. QED
  BY <1>1, <1>3

WithStatus(x, st) == [x EXCEPT !.st = st]

\* A status is set.
LEMMA StatusRow ==
    ASSUME NEW x \in Entry, NEW st \in Sts, NEW y, y = WithStatus(x, st)
    PROVE  y \in Entry /\ y.st = st /\ y.hold = x.hold /\ y.skip = x.skip /\ y.passes = x.passes
<1>1. y = [party |-> x.party, st |-> st, hold |-> x.hold, skip |-> x.skip, passes |-> x.passes]
  BY DEF WithStatus, Entry
<1>2. x.hold \in 0..Forever /\ x.passes \in -1..1
  BY EntryFields
<1>3. x.skip \in BOOLEAN
  BY EntryFields
<1>4. QED
  BY <1>1, <1>2, <1>3, EntryRow

\* A nonempty set of numbers has a least element.
LEMMA Least ==
    ASSUME NEW S \in SUBSET Nat, S # {}
    PROVE  HeadOf(S) \in S /\ \A q \in S : HeadOf(S) <= q
<1>1. PICK p \in S : \A q \in S : ~(<<q, p>> \in OpToRel(<, Nat))
  BY NatLessThanWellFounded, WFMin
<1>2. \A q \in S : ~(q < p)
  BY <1>1 DEF OpToRel
<1>3. \E e \in S : \A f \in S : e <= f
  BY <1>2
<1>4. QED
  BY <1>3 DEF HeadOf

\* A table is as long as its last index.
LEMMA TableOf ==
    ASSUME NEW S, NEW n \in Nat, NEW t, t = [i \in 1..n |-> t[i]], \A i \in 1..n : t[i] \in S
    PROVE  t \in Seq(S) /\ Len(t) = n /\ DOMAIN t = 1..n
<1>1. t \in [1..n -> S]
  OBVIOUS
<1>2. t \in Seq(S)
  BY <1>1, SeqDef
<1>3. DOMAIN t = 1..n
  BY <1>1
<1>4. Len(t) \in Nat /\ DOMAIN t = 1..Len(t)
  BY <1>2, LenProperties
<1>5. QED
  BY <1>2, <1>3, <1>4

\* The rows of the queue.
LEMMA QueueRows ==
    ASSUME TypeOK
    PROVE  /\ Len(entry) \in Nat /\ Entries = 1..Len(entry) /\ DOMAIN session = Entries
           /\ \A e \in Entries : entry[e] \in Entry /\ session[e] \in Session
<1>1. entry \in Seq(Entry) /\ session \in Seq(Session) /\ Len(session) = Len(entry)
  BY DEF TypeOK
<1>2. Len(entry) \in Nat /\ DOMAIN entry = 1..Len(entry) /\ DOMAIN session = 1..Len(session)
  BY <1>1, LenProperties
<1>3. \A e \in 1..Len(entry) : entry[e] \in Entry /\ session[e] \in Session
  BY <1>1, ElementOfSeq
<1>4. QED
  BY <1>1, <1>2, <1>3 DEF Entries

-----------------------------------------------------------------------------
(* What a step does *)

\* The screens of the entries in B are dropped.
Advances(B) ==
    /\ screen' \in [Operators -> Screen \cup {NoScreen}]
    /\ \A o \in Operators : /\ screen[o].e \in B => screen'[o].e = 0
                            /\ screen[o].e \notin B => screen'[o] = screen[o]

\* Screens are dropped, or kept.
LEMMA AdvanceEffect ==
    ASSUME TypeOK, NEW B, Advance(B)
    PROVE  Advances(B)
BY DEF TypeOK, Advance, Advances, NoScreen

\* No screen is dropped.
LEMMA NoAdvance ==
    ASSUME TypeOK, screen' = screen
    PROVE  Advances({})
BY DEF TypeOK, Advances

\* A row that accounts for its passes.
RowOk(x) ==
    /\ x \in Entry /\ x.passes >= 0
    /\ x.skip => x.st = "waiting" /\ x.passes = 1

RowsOk == \A e \in Entries : RowOk(entry[e])

Turn(s, t) == s = t \/ (s \in {"waiting", "called"} /\ t \in {"called", "cancelled", "no_show"})

\* A screen that showed the row before the step shows it afterwards.
Shows(f) ==
    /\ entry'[f].st = entry[f].st /\ entry'[f].skip = entry[f].skip
    /\ entry'[f].hold = entry[f].hold \/ entry'[f].hold <= now

\* A step of the entries only.
EntryStep(B) ==
    /\ now' = now /\ session' = session /\ activity' = activity /\ intake' = intake
    /\ entry' \in Seq(Entry) /\ Len(entry') = Len(entry) /\ Entries' = Entries
    /\ Advances(B)
    /\ \A f \in Entries : RowOk(entry'[f]) /\ Turn(entry[f].st, entry'[f].st)
    /\ \A f \in Entries \ B : Shows(f)

\* A command that writes one entry.
LEMMA CommitStep ==
    ASSUME TypeOK, RowsOk, NEW e \in Entries, NEW x, RowOk(x), Turn(entry[e].st, x.st),
           Commit(e, x), UNCHANGED <<now, session, activity, intake>>
    PROVE  EntryStep({e})
<1>1. Len(entry) \in Nat /\ Entries = 1..Len(entry) /\ entry \in Seq(Entry)
  BY QueueRows DEF TypeOK
<1>2. entry' = [entry EXCEPT ![e] = x] /\ Advances({e})
  BY AdvanceEffect DEF Commit
<1>3. entry' = [f \in Entries |-> entry'[f]]
  BY <1>1, <1>2 DEF Entries
<1>4. entry'[e] = x /\ \A f \in Entries \ {e} : entry'[f] = entry[f]
  BY <1>1, <1>2 DEF Entries
<1>5. \A f \in Entries : RowOk(entry'[f]) /\ Turn(entry[f].st, entry'[f].st)
  BY <1>4 DEF RowsOk, Turn
<1>6. \A f \in Entries : entry'[f] \in Entry
  BY <1>5 DEF RowOk
<1>7. entry' \in Seq(Entry) /\ Len(entry') = Len(entry) /\ DOMAIN entry' = 1..Len(entry)
  BY <1>1, <1>3, <1>6, TableOf
<1>8. Entries' = Entries
  BY <1>1, <1>7 DEF Entries
<1>9. \A f \in Entries \ {e} : Shows(f)
  BY <1>4 DEF Shows
<1>10. QED
  BY <1>2, <1>5, <1>7, <1>8, <1>9 DEF EntryStep

\* An entry leaves the line: it is called around FIFO, or cancelled.
LEMMA LeaveStep ==
    ASSUME TypeOK, RowsOk, NEW o \in Operators, NEW e \in Entries,
           OperatorSelect(o, e) \/ LeaveQueue(o, e)
    PROVE  EntryStep({e}) /\ request' = request
<1>1. PICK st \in {"called", "cancelled"} :
         /\ entry[e].st \in {"waiting", "called"}
         /\ Commit(e, LeaveLine(entry[e], st))
         /\ UNCHANGED <<now, session, activity, intake, request>>
  BY DEF OperatorSelect, LeaveQueue, Waiting
<1>2. entry[e] \in Entry /\ 0 \in 0..Forever /\ st \in Sts
  BY QueueRows, Bounds DEF Sts, Active, Done
<1> DEFINE y == LeaveLine(entry[e], st)
<1> HIDE DEF y
<1>3. y \in Entry /\ y.st = st /\ y.hold = 0 /\ ~y.skip /\ y.passes = 0
  BY <1>2, LeaveRow DEF y
<1>4. RowOk(y) /\ Turn(entry[e].st, y.st)
  BY <1>1, <1>3 DEF RowOk, Turn
<1>5. QED
  BY <1>1, <1>4, CommitStep DEF y

\* A hold is placed or released.
LEMMA HoldStep ==
    ASSUME TypeOK, RowsOk, NEW o \in Operators, NEW e \in Entries,
           (\E until \in Instants : RecallHold(o, e, until)) \/ ReleaseRecallHold(o, e)
    PROVE  EntryStep({e}) /\ request' = request
<1>1. PICK h \in Instants \cup {0} :
         /\ Commit(e, WithHold(ExpireTimeHold(entry[e]), h))
         /\ UNCHANGED <<now, session, activity, intake, request>>
  BY DEF RecallHold, ReleaseRecallHold, WithHold, NoHold
<1>2. entry[e] \in Entry /\ 0 \in 0..Forever /\ h \in 0..Forever /\ RowOk(entry[e])
  BY QueueRows, Bounds DEF RowsOk
<1> DEFINE x == ExpireTimeHold(entry[e])
           y == WithHold(x, h)
<1> HIDE DEF x, y
<1>3. x \in Entry /\ x.st = entry[e].st /\ x.skip = entry[e].skip /\ x.passes = entry[e].passes
  BY <1>2, ExpireRow DEF x
<1>4. y \in Entry /\ y.st = x.st /\ y.skip = x.skip /\ y.passes = x.passes
  BY <1>2, <1>3, HoldRow DEF y
<1>5. RowOk(y) /\ Turn(entry[e].st, y.st)
  BY <1>2, <1>3, <1>4 DEF RowOk, Turn
<1>6. QED
  BY <1>1, <1>5, CommitStep DEF x, y

\* A called entry did not show up, or an entry is classified.
LEMMA MarkStep ==
    ASSUME TypeOK, RowsOk, NEW o \in Operators, NEW e \in Entries,
           MarkNoShow(o, e) \/ ClassifyExpectedWorkload(o, e)
    PROVE  EntryStep({e}) /\ request' = request
<1>1. entry[e] \in Entry /\ RowOk(entry[e])
  BY QueueRows DEF RowsOk
<1>2. CASE ClassifyExpectedWorkload(o, e)
  BY <1>1, <1>2, CommitStep DEF ClassifyExpectedWorkload, Turn
<1>3. CASE MarkNoShow(o, e)
  <2> DEFINE y == WithStatus(entry[e], "no_show")
  <2>1. /\ entry[e].st = "called" /\ Commit(e, y)
        /\ UNCHANGED <<now, session, activity, intake, request>>
    BY <1>3 DEF MarkNoShow, WithStatus
  <2> HIDE DEF y
  <2>2. "no_show" \in Sts
    BY DEF Sts, Done
  <2>3. /\ y \in Entry /\ y.st = "no_show" /\ y.skip = entry[e].skip
        /\ y.passes = entry[e].passes
    BY <1>1, <2>2, StatusRow DEF y
  <2>4. RowOk(y) /\ Turn(entry[e].st, y.st)
    BY <1>1, <2>1, <2>3 DEF RowOk, Turn
  <2>5. QED
    BY <2>1, <2>4, CommitStep
<1>4. QED
  BY <1>2, <1>3

Expired == [f \in Entries |-> ExpireTimeHold(entry[f])]

\* The queue after its time holds were expired.
LEMMA ExpiredRows ==
    ASSUME TypeOK, RowsOk
    PROVE  /\ DOMAIN Expired = Entries
           /\ \A f \in Entries :
                /\ Expired[f] \in Entry /\ RowOk(Expired[f])
                /\ Expired[f].st = entry[f].st /\ Expired[f].skip = entry[f].skip
                /\ Expired[f].passes = entry[f].passes
                /\ Expired[f].hold = IF entry[f].hold <= now THEN 0 ELSE entry[f].hold
           /\ Selectable(Expired) \in SUBSET Nat /\ Selectable(Expired) \in SUBSET Entries
<1>1. DOMAIN Expired = Entries
  BY DEF Expired
<1>2. ASSUME NEW f \in Entries
      PROVE  /\ Expired[f] \in Entry /\ RowOk(Expired[f])
             /\ Expired[f].st = entry[f].st /\ Expired[f].skip = entry[f].skip
             /\ Expired[f].passes = entry[f].passes
             /\ Expired[f].hold = IF entry[f].hold <= now THEN 0 ELSE entry[f].hold
  <2>1. entry[f] \in Entry /\ 0 \in 0..Forever /\ RowOk(entry[f])
    BY QueueRows, Bounds DEF RowsOk
  <2>2. Expired[f] = ExpireTimeHold(entry[f])
    BY DEF Expired
  <2>3. /\ Expired[f] \in Entry
        /\ Expired[f].st = entry[f].st /\ Expired[f].skip = entry[f].skip
        /\ Expired[f].passes = entry[f].passes
        /\ Expired[f].hold = IF entry[f].hold <= now THEN 0 ELSE entry[f].hold
    BY <2>1, <2>2, ExpireRow
  <2>4. QED
    BY <2>1, <2>3 DEF RowOk
<1>3. Selectable(Expired) \in SUBSET Entries
  BY <1>1 DEF Selectable
<1>4. Entries \in SUBSET Nat
  BY QueueRows
<1>5. QED
  BY <1>1, <1>2, <1>3, <1>4

\* A step that rewrites the queue with its holds expired: the rows outside B
\* keep what a screen shows of them.
LEMMA RewriteStep ==
    ASSUME TypeOK, RowsOk, NEW B, Advances(B),
           UNCHANGED <<now, session, activity, intake>>,
           entry' = [f \in Entries |-> entry'[f]],
           \A f \in Entries : RowOk(entry'[f]) /\ Turn(entry[f].st, entry'[f].st),
           \A f \in Entries \ B : /\ entry'[f].st = entry[f].st
                                  /\ entry'[f].skip = entry[f].skip
                                  /\ entry'[f].hold = Expired[f].hold
    PROVE  EntryStep(B)
<1>1. Len(entry) \in Nat /\ Entries = 1..Len(entry)
  BY QueueRows
<1>2. \A f \in Entries : entry'[f] \in Entry
  BY DEF RowOk
<1>3. entry' \in Seq(Entry) /\ Len(entry') = Len(entry) /\ DOMAIN entry' = 1..Len(entry)
  BY <1>1, <1>2, TableOf
<1>4. Entries' = Entries
  BY <1>1, <1>3 DEF Entries
<1>5. ASSUME NEW f \in Entries \ B PROVE Shows(f)
  <2>1. Expired[f].hold = IF entry[f].hold <= now THEN 0 ELSE entry[f].hold
    BY ExpiredRows
  <2>2. now \in Nat
    BY Bounds
  <2>3. QED
    BY <2>1, <2>2 DEF Shows
<1>6. QED
  BY <1>3, <1>4, <1>5 DEF EntryStep

\* The head is skipped.
LEMMA SkipStep ==
    ASSUME TypeOK, RowsOk, NEW o \in Operators, NEW e \in Entries, Skip(o, e)
    PROVE  EntryStep({e}) /\ request' = request
<1>1. /\ Waiting(e) /\ Advance({e}) /\ UNCHANGED <<now, session, activity, intake, request>>
      /\ entry' = [Expired EXCEPT ![e] = WithSkip(Expired[e])]
  BY DEF Skip, Expired, WithSkip
<1>2. Advances({e})
  BY <1>1, AdvanceEffect
<1>3. /\ entry' = [f \in Entries |-> entry'[f]] /\ entry'[e] = WithSkip(Expired[e])
      /\ \A f \in Entries \ {e} : entry'[f] = Expired[f]
  BY <1>1, ExpiredRows
<1>4. ASSUME NEW f \in Entries PROVE RowOk(entry'[f]) /\ Turn(entry[f].st, entry'[f].st)
  <2>1. RowOk(Expired[f]) /\ Expired[f] \in Entry /\ Expired[f].st = entry[f].st
    BY ExpiredRows
  <2>2. CASE f = e
    <3>1. /\ entry'[f] \in Entry /\ entry'[f].st = Expired[f].st
          /\ entry'[f].passes = 1
      BY <1>3, <2>1, <2>2, SkipRow
    <3>2. QED
      BY <1>1, <2>1, <2>2, <3>1 DEF RowOk, Turn, Waiting
  <2>3. CASE f # e
    BY <1>3, <2>1, <2>3 DEF Turn
  <2>4. QED
    BY <2>2, <2>3
<1>5. \A f \in Entries \ {e} : /\ entry'[f].st = entry[f].st /\ entry'[f].skip = entry[f].skip
                               /\ entry'[f].hold = Expired[f].hold
  BY <1>3, ExpiredRows
<1>6. QED
  BY <1>1, <1>2, <1>3, <1>4, <1>5, RewriteStep

\* What an automatic selection makes of a row.
Selected(f, head) ==
    IF f = head THEN LeaveLine(Expired[f], "called")
    ELSE ConsumeSkip(CountPass(Expired[f], f, head))

\* A selection goes past a waiting entry that no hold keeps back only if the
\* entry is skipped, and the skip is a pass.
LEMMA SelectedRow ==
    ASSUME TypeOK, RowsOk, NEW head \in Selectable(Expired),
           \A q \in Selectable(Expired) : head <= q,
           NEW f \in Entries, NEW y, y = Selected(f, head)
    PROVE  /\ RowOk(y) /\ Turn(entry[f].st, y.st)
           /\ f # head => /\ y.st = entry[f].st /\ ~y.skip /\ y.hold = Expired[f].hold
<1> DEFINE x == Expired[f]
<1>1. /\ x \in Entry /\ RowOk(x) /\ x.st = entry[f].st /\ x.skip = entry[f].skip
      /\ x.hold = IF entry[f].hold <= now THEN 0 ELSE entry[f].hold
      /\ DOMAIN Expired = Entries
  BY ExpiredRows
<1>2. 0 \in 0..Forever /\ now \in Nat /\ "called" \in Sts
  BY Bounds DEF Sts, Active
<1>3. CASE f = head
  <2>1. Eligible(x)
    BY <1>3 DEF Selectable
  <2>2. y \in Entry /\ y.st = "called" /\ ~y.skip /\ y.passes = 0
    BY <1>1, <1>2, <1>3, LeaveRow DEF Selected
  <2>3. QED
    BY <1>1, <1>3, <2>1, <2>2 DEF Eligible, RowOk, Turn
<1>4. CASE f # head
  <2> DEFINE z == CountPass(x, f, head)
  <2> HIDE DEF z
  <2>1. /\ z \in Entry /\ z.st = x.st /\ z.hold = x.hold
        /\ z.passes = IF (f < head /\ x.st = "waiting" /\ ~Held(f)) /\ x.passes < 1 THEN -1
                      ELSE IF x.passes > 0 THEN 0 ELSE x.passes
    BY SMTT(30), <1>1, CountRow DEF z
  <2>2. ASSUME f < head, x.st = "waiting", ~Held(f) PROVE x.passes = 1
    <3>1. ~Eligible(x)
      <4>1. head \in Nat /\ f \in Nat
        BY ExpiredRows, QueueRows
      <4>2. f \notin Selectable(Expired)
        BY <2>2, <4>1
      <4>3. QED
        BY <1>1, <4>2 DEF Selectable
    <3>2. x.hold = 0
      BY <1>1, <1>2, <2>2, QueueRows, EntryFields DEF Held
    <3>3. x.skip
      BY <2>2, <3>1, <3>2 DEF Eligible, NoHold
    <3>4. QED
      BY <1>1, <3>3 DEF RowOk
  <2>3. x.passes \in -1..1 /\ x.passes >= 0
    BY <1>1, EntryFields DEF RowOk
  <2>4. z.passes >= 0
    BY <2>1, <2>2, <2>3
  <2>5. y \in Entry /\ y.st = z.st /\ y.hold = z.hold /\ ~y.skip /\ y.passes = z.passes
    BY <1>4, <2>1, ConsumeRow DEF Selected, z
  <2>6. QED
    BY <1>1, <1>4, <2>1, <2>4, <2>5 DEF RowOk, Turn
<1>5. QED
  BY <1>3, <1>4

\* The automatic selection.
LEMMA CallHeadStep ==
    ASSUME TypeOK, RowsOk, CallHead, UNCHANGED <<now, session, activity, intake>>
    PROVE  \E B : EntryStep(B)
<1>1. CASE Selectable(Expired) = {}
  <2>1. entry' = Expired /\ screen' = screen
    BY <1>1 DEF CallHead, Expired
  <2>2. Advances({})
    BY <2>1, NoAdvance
  <2>3. entry' = [f \in Entries |-> entry'[f]]
    BY <2>1 DEF Expired
  <2>4. \A f \in Entries : RowOk(entry'[f]) /\ Turn(entry[f].st, entry'[f].st)
    BY <2>1, ExpiredRows DEF Turn
  <2>5. \A f \in Entries \ {} : /\ entry'[f].st = entry[f].st /\ entry'[f].skip = entry[f].skip
                                /\ entry'[f].hold = Expired[f].hold
    BY <2>1, ExpiredRows
  <2>6. EntryStep({})
    BY <2>2, <2>3, <2>4, <2>5, RewriteStep
  <2>7. QED
    BY <2>1, <2>6
<1>2. CASE Selectable(Expired) # {}
  <2> DEFINE head == HeadOf(Selectable(Expired))
             B == {head} \cup AdvancedByConsumption(Expired)
  <2>1. /\ entry' = [f \in Entries |-> Selected(f, head)]
        /\ Advance(B)
    BY <1>2 DEF CallHead, Expired, Selected
  <2>2. head \in Selectable(Expired) /\ \A q \in Selectable(Expired) : head <= q
    BY <1>2, ExpiredRows, Least
  <2> HIDE DEF head
  <2>3. entry' = [f \in Entries |-> entry'[f]]
    BY <2>1
  <2>4. ASSUME NEW f \in Entries
        PROVE  /\ RowOk(entry'[f]) /\ Turn(entry[f].st, entry'[f].st)
               /\ f # head => /\ entry'[f].st = entry[f].st /\ ~entry'[f].skip
                              /\ entry'[f].hold = Expired[f].hold
    <3>1. entry'[f] = Selected(f, head)
      BY <2>1
    <3>2. QED
      BY <2>2, <3>1, SelectedRow
  <2>5. ASSUME NEW f \in Entries \ B PROVE entry[f].skip = FALSE
    <3>1. ~(Expired[f].skip /\ Expired[f].st = "waiting")
      BY <2>5, ExpiredRows DEF AdvancedByConsumption
    <3>2. RowOk(Expired[f]) /\ Expired[f].skip = entry[f].skip
      BY ExpiredRows
    <3>3. entry[f].skip \in BOOLEAN
      BY QueueRows, EntryFields
    <3>4. QED
      BY <3>1, <3>2, <3>3 DEF RowOk
  <2>6. ASSUME NEW f \in Entries \ B PROVE entry'[f].skip = entry[f].skip
    <3>1. entry'[f].skip \in BOOLEAN
      BY <2>4, EntryFields DEF RowOk
    <3>2. ~entry'[f].skip
      BY <2>4
    <3>3. QED
      BY <2>5, <3>1, <3>2
  <2>7. Advances(B)
    BY <2>1, AdvanceEffect
  <2>8. \A f \in Entries \ B : /\ entry'[f].st = entry[f].st /\ entry'[f].skip = entry[f].skip
                               /\ entry'[f].hold = Expired[f].hold
    BY <2>4, <2>6
  <2> HIDE DEF B
  <2>9. EntryStep(B)
    BY <2>3, <2>4, <2>7, <2>8, RewriteStep
  <2>10. QED
    BY <2>1, <2>9
<1>3. QED
  BY <1>1, <1>2

-----------------------------------------------------------------------------
(* Service *)

\* An entry and its session.
PairOf(x, s) ==
    /\ s.st \in LiveSession <=> x.st = "serving"
    /\ s.st = "completed" <=> x.st = "completed"
    /\ s.st = "paused" <=> s.open = 1

Paired == \A e \in Entries : PairOf(entry[e], session[e])

\* A resource serves one entry.
OneServed ==
    \A e, f \in Entries :
        session[e].st \in LiveSession /\ session[f].st \in LiveSession
        /\ session[e].r \in Resources /\ session[e].r = session[f].r => e = f

Unoccupied == \A r \in Resources : activity[r] => ~Serves(r)

\* A set with at most one element.
LEMMA AtMostOne ==
    ASSUME NEW S, IsFiniteSet(S)
    PROVE  Cardinality(S) <= 1 <=> \A x, y \in S : x = y
<1>1. Cardinality(S) \in Nat
  BY FS_CardinalityType
<1>2. ASSUME Cardinality(S) <= 1, NEW x \in S, NEW y \in S, x # y PROVE FALSE
  <2>1. IsFiniteSet(S \ {x}) /\ Cardinality(S \ {x}) = Cardinality(S) - 1
    BY <1>2, FS_RemoveElement
  <2>2. Cardinality(S \ {x}) = 0
    BY <1>1, <1>2, <2>1, FS_CardinalityType
  <2>3. S \ {x} = {}
    BY <2>1, <2>2, FS_EmptySet
  <2>4. QED
    BY <1>2, <2>3
<1>3. ASSUME \A x, y \in S : x = y PROVE Cardinality(S) <= 1
  <2>1. CASE S = {}
    BY <2>1, FS_EmptySet
  <2>2. CASE S # {}
    <3>1. PICK x \in S : TRUE
      BY <2>2
    <3>2. S = {x}
      BY <1>3, <3>1
    <3>3. QED
      BY <3>2, FS_Singleton
  <2>3. QED
    BY <2>1, <2>2
<1>4. QED
  BY <1>2, <1>3

\* The parts of ServiceCoherent.
LEMMA CoherentParts ==
    ASSUME TypeOK
    PROVE  ServiceCoherent <=> Paired /\ OneServed /\ Unoccupied
<1> DEFINE served(r) == {e \in Entries : session[e].r = r /\ session[e].st \in LiveSession}
<1>1. ASSUME NEW r PROVE IsFiniteSet(served(r))
  <2>1. Entries = 1..Len(entry) /\ Len(entry) \in Nat
    BY QueueRows
  <2>2. IsFiniteSet(Entries)
    BY <2>1, FS_Interval
  <2>3. QED
    BY <2>2, FS_Subset
<1>2. ASSUME NEW r \in Resources
      PROVE  /\ Cardinality(served(r)) <= 1 <=> \A e, f \in served(r) : e = f
             /\ served(r) = {} <=> ~Serves(r)
  <2>1. IsFiniteSet(served(r))
    BY <1>1
  <2>2. served(r) = {} <=> ~Serves(r)
    BY DEF Serves
  <2> HIDE DEF served
  <2>3. QED
    BY <2>1, <2>2, AtMostOne
<1>3. OneServed <=> \A r \in Resources : \A e, f \in served(r) : e = f
  BY DEF OneServed
<1>4. ServiceCoherent <=>
        /\ Paired
        /\ \A r \in Resources : Cardinality(served(r)) <= 1 /\ (activity[r] => served(r) = {})
  BY DEF ServiceCoherent, Paired, PairOf
<1> HIDE DEF served
<1>5. QED
  BY <1>2, <1>3, <1>4 DEF Unoccupied

\* A step of one entry and its session.
ServiceStep(e) ==
    /\ now' = now /\ activity' = activity /\ intake' = intake /\ request' = request
    /\ entry' \in Seq(Entry) /\ Len(entry') = Len(entry) /\ Entries' = Entries
    /\ session' \in Seq(Session) /\ Len(session') = Len(entry)
    /\ Advances({e})
    /\ RowOk(entry'[e]) /\ PairOf(entry'[e], session'[e])
    /\ \A f \in Entries \ {e} : entry'[f] = entry[f] /\ session'[f] = session[f]
    /\ session'[e].st \in LiveSession =>
          \/ session[e].st \in LiveSession /\ session'[e].r = session[e].r
          \/ ~activity[session'[e].r] /\ ~Serves(session'[e].r)

\* A row of each table is written.
LEMMA ServiceRows ==
    ASSUME TypeOK, RowsOk, NEW e \in Entries, NEW x, NEW s, RowOk(x), s \in Session, PairOf(x, s),
           entry' = [entry EXCEPT ![e] = x], session' = [session EXCEPT ![e] = s],
           Advance({e}), UNCHANGED <<now, activity, intake, request>>,
           s.st \in LiveSession => \/ session[e].st \in LiveSession /\ s.r = session[e].r
                                   \/ ~activity[s.r] /\ ~Serves(s.r)
    PROVE  ServiceStep(e)
<1>1. /\ Len(entry) \in Nat /\ Entries = 1..Len(entry) /\ DOMAIN session = Entries
      /\ DOMAIN entry = Entries
      /\ \A f \in Entries : entry[f] \in Entry /\ session[f] \in Session
      /\ entry \in Seq(Entry) /\ session \in Seq(Session)
  BY QueueRows DEF TypeOK, Entries
<1>2. /\ entry' = [f \in Entries |-> entry'[f]] /\ session' = [f \in Entries |-> session'[f]]
      /\ entry'[e] = x /\ session'[e] = s
      /\ \A f \in Entries \ {e} : entry'[f] = entry[f] /\ session'[f] = session[f]
  BY <1>1
<1>3. \A f \in Entries : entry'[f] \in Entry /\ session'[f] \in Session
  BY <1>1, <1>2 DEF RowOk
<1>4. entry' \in Seq(Entry) /\ Len(entry') = Len(entry) /\ DOMAIN entry' = 1..Len(entry)
  BY <1>1, <1>2, <1>3, TableOf
<1>5. session' \in Seq(Session) /\ Len(session') = Len(entry)
  BY <1>1, <1>2, <1>3, TableOf
<1>6. Entries' = Entries
  BY <1>1, <1>4 DEF Entries
<1>7. Advances({e})
  BY AdvanceEffect
<1>8. QED
  BY <1>2, <1>4, <1>5, <1>6, <1>7 DEF ServiceStep

\* A session after an update.
LEMMA SessionRow ==
    ASSUME NEW z \in Session, NEW a, NEW b, NEW y, y = [z EXCEPT !.st = a, !.open = b]
    PROVE  y = [st |-> a, r |-> z.r, open |-> b]
BY DEF Session

\* The four service commands.
LEMMA ServiceEffect ==
    ASSUME TypeOK, RowsOk, Paired, NEW o \in Operators, NEW e \in Entries,
           \/ \E r \in Resources : StartService(o, e, r)
           \/ PauseService(o, e) \/ ResumeService(o, e) \/ CompleteService(o, e)
    PROVE  ServiceStep(e)
<1>1. /\ entry[e] \in Entry /\ session[e] \in Session /\ RowOk(entry[e])
      /\ PairOf(entry[e], session[e]) /\ entry = [entry EXCEPT ![e] = entry[e]]
      /\ DOMAIN entry = Entries /\ DOMAIN session = Entries
  BY QueueRows DEF RowsOk, Paired, Entries, TypeOK
<1>2. ASSUME NEW r \in Resources, StartService(o, e, r) PROVE ServiceStep(e)
  <2> DEFINE x == WithStatus(entry[e], "serving")
             s == [st |-> "active", r |-> r, open |-> 0]
  <2>1. /\ entry[e].st = "called" /\ ~activity[r] /\ ~Serves(r)
        /\ session' = [session EXCEPT ![e] = s] /\ entry' = [entry EXCEPT ![e] = x]
        /\ Advance({e}) /\ UNCHANGED <<now, activity, intake, request>>
    BY <1>2 DEF StartService, Commit, WithStatus
  <2>2. "serving" \in Sts
    BY DEF Sts, Active
  <2> HIDE DEF x
  <2>3. x \in Entry /\ x.st = "serving" /\ x.skip = entry[e].skip /\ x.passes = entry[e].passes
    BY <1>1, <2>2, StatusRow DEF x
  <2>4. RowOk(x)
    BY <1>1, <2>1, <2>3 DEF RowOk
  <2>5. s \in Session /\ s.r = r
    BY DEF Session, LiveSession
  <2>6. PairOf(x, s)
    BY <2>3 DEF PairOf, LiveSession
  <2> HIDE DEF s
  <2>7. QED
    BY <2>1, <2>4, <2>5, <2>6, ServiceRows
<1>3. CASE PauseService(o, e)
  <2> DEFINE s == [session[e] EXCEPT !.st = "paused", !.open = session[e].open + 1]
  <2>1. /\ session[e].st = "active" /\ entry' = entry
        /\ session' = [session EXCEPT ![e] = s]
        /\ Advance({e}) /\ UNCHANGED <<now, activity, intake, request>>
    BY <1>3 DEF PauseService
  <2> HIDE DEF s
  <2>2. s = [st |-> "paused", r |-> session[e].r, open |-> session[e].open + 1]
    BY <1>1, SessionRow DEF s
  <2>3. session[e].open = 0
    BY <1>1, <2>1 DEF PairOf, Session
  <2>4. s \in Session /\ s.r = session[e].r
    BY <1>1, <2>2, <2>3 DEF Session, LiveSession
  <2>5. PairOf(entry[e], s)
    BY <1>1, <2>1, <2>2, <2>3 DEF PairOf, LiveSession
  <2>6. session[e].st \in LiveSession
    BY <2>1 DEF LiveSession
  <2>7. entry' = [entry EXCEPT ![e] = entry[e]]
    BY <1>1, <2>1
  <2>8. QED
    BY <1>1, <2>1, <2>4, <2>5, <2>6, <2>7, ServiceRows
<1>4. CASE ResumeService(o, e)
  <2> DEFINE s == [session[e] EXCEPT !.st = "active", !.open = 0]
  <2>1. /\ session[e].st = "paused" /\ entry' = entry
        /\ session' = [session EXCEPT ![e] = s]
        /\ Advance({e}) /\ UNCHANGED <<now, activity, intake, request>>
    BY <1>4 DEF ResumeService
  <2> HIDE DEF s
  <2>2. s = [st |-> "active", r |-> session[e].r, open |-> 0]
    BY <1>1, SessionRow DEF s
  <2>3. s \in Session /\ s.r = session[e].r
    BY <1>1, <2>2 DEF Session, LiveSession
  <2>4. PairOf(entry[e], s)
    BY <1>1, <2>1, <2>2 DEF PairOf, LiveSession
  <2>5. session[e].st \in LiveSession
    BY <2>1 DEF LiveSession
  <2>6. entry' = [entry EXCEPT ![e] = entry[e]]
    BY <1>1, <2>1
  <2>7. QED
    BY <1>1, <2>1, <2>3, <2>4, <2>5, <2>6, ServiceRows
<1>5. CASE CompleteService(o, e)
  <2> DEFINE x == WithStatus(entry[e], "completed")
             s == [st |-> "completed", r |-> session[e].r, open |-> session[e].open]
  <2>1. /\ session[e].st = "active" /\ entry[e].st = "serving"
        /\ session' = [session EXCEPT ![e] = [session[e] EXCEPT !.st = "completed"]]
        /\ entry' = [entry EXCEPT ![e] = x]
        /\ Advance({e}) /\ UNCHANGED <<now, activity, intake, request>>
    BY <1>5 DEF CompleteService, WithStatus
  <2>2. [session[e] EXCEPT !.st = "completed"] = s
    BY <1>1 DEF Session
  <2>3. "completed" \in Sts
    BY DEF Sts, Done
  <2> HIDE DEF x
  <2>4. x \in Entry /\ x.st = "completed" /\ x.skip = entry[e].skip /\ x.passes = entry[e].passes
    BY <1>1, <2>3, StatusRow DEF x
  <2>5. RowOk(x)
    BY <1>1, <2>1, <2>4 DEF RowOk
  <2>6. s \in Session /\ ~(s.st \in LiveSession)
    BY <1>1 DEF Session, LiveSession
  <2>7. PairOf(x, s)
    BY <1>1, <2>1, <2>4 DEF PairOf, LiveSession
  <2> HIDE DEF s
  <2>8. session' = [session EXCEPT ![e] = s]
    BY <2>1, <2>2
  <2>9. QED
    BY <2>1, <2>5, <2>6, <2>7, <2>8, ServiceRows
<1>6. QED
  BY <1>2, <1>3, <1>4, <1>5

-----------------------------------------------------------------------------
(* The invariant *)

Record == {"new", "done"}

Parts == TypeOK /\ RowsOk /\ Paired /\ OneServed /\ Unoccupied /\ ScreenCurrent

\* The parts of the invariant.
LEMMA InvParts ==
    ASSUME TypeOK
    PROVE  QueueInv <=> Parts
<1>1. ServiceCoherent <=> Paired /\ OneServed /\ Unoccupied
  BY CoherentParts
<1>2. RowsOk <=> BoundedOvertaking /\ SkipIsPass
  <2>1. \A e \in Entries : entry[e] \in Entry
    BY QueueRows
  <2>2. QED
    BY <2>1 DEF RowsOk, RowOk, BoundedOvertaking, SkipIsPass
<1>3. QED
  BY <1>1, <1>2 DEF QueueInv, Parts

\* A screen that still shows a row showed it before the step.
LEMMA FreshBefore ==
    ASSUME TypeOK, NEW B, Advances(B), NEW o \in Operators, NEW e \in Entries,
           screen'[o].e = e
    PROVE  screen'[o] = screen[o] /\ screen[o].e = e /\ e \notin B
<1>1. e # 0
  BY QueueRows
<1>2. QED
  BY <1>1 DEF Advances

\* The screens after a step show entries.
LEMMA ScreenEntries ==
    ASSUME TypeOK, NEW B, Advances(B)
    PROVE  \A o \in Operators : screen'[o].e \in {0} \cup Entries
BY DEF TypeOK, Advances

\* A step of the entries keeps the invariant.
LEMMA EntryStepInv ==
    ASSUME Parts, NEW B, EntryStep(B), request' \in [Callers -> Record]
    PROVE  Parts'
<1>1. TypeOK /\ Advances(B) /\ Entries' = Entries /\ session' = session /\ now' = now
  BY DEF Parts, EntryStep
<1>2. TypeOK'
  <2>1. \A o \in Operators : screen'[o].e \in {0} \cup Entries'
    BY <1>1, ScreenEntries
  <2>2. screen' \in [Operators -> Screen \cup {NoScreen}]
    BY <1>1 DEF Advances
  <2>3. QED
    BY <1>1, <2>1, <2>2 DEF TypeOK, EntryStep, Record
<1>3. RowsOk'
  BY <1>1 DEF RowsOk, EntryStep, RowOk
<1>4. Paired'
  BY <1>1 DEF Parts, EntryStep, Paired, PairOf, Turn
<1>5. OneServed' /\ Unoccupied'
  BY <1>1 DEF Parts, EntryStep, OneServed, Unoccupied, Serves
<1>6. ScreenCurrent'
  <2>1. SUFFICES ASSUME NEW o \in Operators, NEW e \in Entries, Fresh(o, e)'
                 PROVE  /\ entry'[e].st = screen'[o].st
                        /\ entry'[e].skip = screen'[o].skip
                        /\ Held(e)' => entry'[e].hold = screen'[o].hold
                        /\ session'[e].st = screen'[o].service
    BY <1>1 DEF ScreenCurrent
  <2>2. screen'[o] = screen[o] /\ screen[o].e = e /\ e \notin B
    BY <1>1, <2>1, FreshBefore DEF Fresh
  <2>3. Shows(e)
    BY <2>2 DEF EntryStep
  <2>4. /\ entry[e].st = screen[o].st /\ entry[e].skip = screen[o].skip
        /\ Held(e) => entry[e].hold = screen[o].hold
        /\ session[e].st = screen[o].service
    BY <2>2 DEF Parts, ScreenCurrent, Fresh
  <2>5. Held(e)' => entry'[e].hold = entry[e].hold /\ Held(e)
    <3>1. entry'[e] \in Entry
      BY DEF EntryStep, RowOk
    <3>2. entry'[e].hold \in Nat /\ now \in Nat
      BY <1>1, <3>1, EntryFields, Bounds
    <3>3. QED
      BY <1>1, <2>3, <3>2 DEF Held, Shows
  <2>6. QED
    BY <1>1, <2>2, <2>3, <2>4, <2>5 DEF Shows
<1>7. QED
  BY <1>2, <1>3, <1>4, <1>5, <1>6 DEF Parts

\* So does a step of the service.
LEMMA ServiceStepInv ==
    ASSUME Parts, NEW e \in Entries, ServiceStep(e)
    PROVE  Parts'
<1>1. /\ TypeOK /\ Advances({e}) /\ Entries' = Entries /\ now' = now /\ activity' = activity
      /\ request' = request
      /\ \A f \in Entries \ {e} : entry'[f] = entry[f] /\ session'[f] = session[f]
  BY DEF Parts, ServiceStep
<1>2. TypeOK'
  <2>1. \A o \in Operators : screen'[o].e \in {0} \cup Entries'
    BY <1>1, ScreenEntries
  <2>2. screen' \in [Operators -> Screen \cup {NoScreen}]
    BY <1>1 DEF Advances
  <2>3. QED
    BY <1>1, <2>1, <2>2 DEF TypeOK, ServiceStep
<1>3. RowsOk'
  BY <1>1 DEF Parts, RowsOk, ServiceStep, RowOk
<1>4. Paired'
  BY <1>1 DEF Parts, ServiceStep, Paired, PairOf
<1>5. session'[e].st \in LiveSession =>
        \/ session[e].st \in LiveSession /\ session'[e].r = session[e].r
        \/ ~activity[session'[e].r] /\ ~Serves(session'[e].r)
  BY DEF ServiceStep
<1>6. OneServed'
  BY <1>1, <1>5 DEF Parts, OneServed, Serves
<1>7. Unoccupied'
  BY <1>1, <1>5 DEF Parts, Unoccupied, Serves
<1>8. ScreenCurrent'
  <2>1. SUFFICES ASSUME NEW o \in Operators, NEW f \in Entries, Fresh(o, f)'
                 PROVE  /\ entry'[f].st = screen'[o].st
                        /\ entry'[f].skip = screen'[o].skip
                        /\ Held(f)' => entry'[f].hold = screen'[o].hold
                        /\ session'[f].st = screen'[o].service
    BY <1>1 DEF ScreenCurrent
  <2>2. screen'[o] = screen[o] /\ screen[o].e = f /\ f \notin {e}
    BY <1>1, <2>1, FreshBefore DEF Fresh
  <2>3. QED
    BY <1>1, <2>2 DEF Parts, ScreenCurrent, Fresh, Held
<1>9. QED
  BY <1>2, <1>3, <1>4, <1>6, <1>7, <1>8 DEF Parts

\* An admission: the new entry waits, without a session.
LEMMA AdmitInv ==
    ASSUME Parts, NEW p \in Parties, Admit(p)
    PROVE  Parts'
<1> DEFINE x == [party |-> p, st |-> "waiting", hold |-> NoHold, skip |-> FALSE, passes |-> 0]
           n == Len(entry)
<1>1. /\ TypeOK /\ entry \in Seq(Entry) /\ session \in Seq(Session) /\ Len(session) = n
      /\ n \in Nat /\ Entries = 1..n
  BY QueueRows DEF Parts, TypeOK
<1>2. /\ entry' = Append(entry, x) /\ session' = Append(session, NoSession)
      /\ UNCHANGED <<now, activity, intake, screen, request>>
  BY DEF Admit
<1>3. x \in Entry /\ NoSession \in Session
  <2>1. 0 \in 0..Forever /\ 0 \in -1..1 /\ "waiting" \in Active \cup Done
    BY <1>1, Bounds DEF Active
  <2>2. x \in Entry
    BY <2>1, Zenon DEF Entry, NoHold
  <2>3. QED
    BY <2>2 DEF Session, NoSession
<1>4. x.st = "waiting" /\ ~x.skip /\ x.passes = 0
  OBVIOUS
<1> HIDE DEF x
<1>5. /\ entry' \in Seq(Entry) /\ Len(entry') = n + 1 /\ entry'[n + 1] = x
      /\ \A e \in 1..n : entry'[e] = entry[e]
  BY <1>1, <1>2, <1>3, AppendProperties
<1>6. /\ session' \in Seq(Session) /\ Len(session') = n + 1 /\ session'[n + 1] = NoSession
      /\ \A e \in 1..n : session'[e] = session[e]
  BY <1>1, <1>2, <1>3, AppendProperties
<1>7. DOMAIN entry' = 1..(n + 1)
  BY <1>5, LenProperties
<1>8. Entries' = Entries \cup {n + 1} /\ n + 1 \notin Entries
  BY <1>1, <1>7 DEF Entries
<1>9. TypeOK'
  BY <1>1, <1>2, <1>5, <1>6, <1>8 DEF TypeOK
<1>10. RowsOk'
  <2>1. RowOk(x)
    BY <1>3, <1>4 DEF RowOk
  <2>2. QED
    BY <1>1, <1>5, <1>8, <2>1 DEF Parts, RowsOk, RowOk
<1>11. Paired'
  BY SMTT(30), <1>1, <1>4, <1>5, <1>6, <1>8 DEF Parts, Paired, PairOf, NoSession, LiveSession
<1>12. ~(NoSession.st \in LiveSession)
  BY DEF NoSession, LiveSession
<1>13. OneServed' /\ Unoccupied'
  BY <1>1, <1>2, <1>6, <1>8, <1>12 DEF Parts, OneServed, Unoccupied, Serves
<1>14. ScreenCurrent'
  <2>1. SUFFICES ASSUME NEW o \in Operators, NEW f \in Entries', Fresh(o, f)'
                 PROVE  /\ entry'[f].st = screen'[o].st
                        /\ entry'[f].skip = screen'[o].skip
                        /\ Held(f)' => entry'[f].hold = screen'[o].hold
                        /\ session'[f].st = screen'[o].service
    BY DEF ScreenCurrent
  <2>2. screen[o].e = f /\ f \in Entries
    BY <1>1, <1>2, <1>8, <2>1 DEF Fresh, TypeOK
  <2>3. QED
    BY <1>1, <1>2, <1>5, <1>6, <2>2 DEF Parts, ScreenCurrent, Fresh, Held
<1>15. QED
  BY <1>9, <1>10, <1>11, <1>13, <1>14 DEF Parts

\* A step that leaves the queue, the sessions and the screens alone, and lets
\* the clock go on.
LEMMA OtherInv ==
    ASSUME Parts, UNCHANGED <<entry, session, screen>>, now' \in 0..MaxTime, now' >= now,
           request' \in [Callers -> Record],
           intake' \in [accepting : BOOLEAN, until : 0..Forever],
           activity' \in [Resources -> BOOLEAN],
           \A r \in Resources : activity'[r] => activity[r] \/ ~Serves(r)
    PROVE  Parts'
<1>1. TypeOK /\ Entries' = Entries
  BY DEF Parts, Entries
<1>2. TypeOK'
  BY <1>1 DEF TypeOK, Record
<1>3. RowsOk' /\ Paired' /\ OneServed'
  BY <1>1 DEF Parts, RowsOk, RowOk, Paired, PairOf, OneServed
<1>4. Unoccupied'
  BY <1>1 DEF Parts, Unoccupied, Serves
<1>5. ASSUME NEW e \in Entries, Held(e)' PROVE Held(e)
  <2>1. entry[e] \in Entry /\ now \in Nat
    BY <1>1, QueueRows, Bounds
  <2>2. entry[e].hold \in Nat /\ now' \in Nat
    BY <2>1, EntryFields
  <2>3. QED
    BY <1>5, <2>1, <2>2 DEF Held
<1>6. ScreenCurrent'
  BY <1>1, <1>5 DEF Parts, ScreenCurrent, Fresh
<1>7. QED
  BY <1>2, <1>3, <1>4, <1>6 DEF Parts

\* The screen an operator looks at.
LEMMA SeenRow ==
    ASSUME TypeOK, NEW e \in Entries
    PROVE  /\ Seen(e) \in Screen /\ Seen(e).e = e
           /\ Seen(e).st = entry[e].st /\ Seen(e).skip = entry[e].skip
           /\ Held(e) => Seen(e).hold = entry[e].hold
           /\ Seen(e).service = session[e].st
<1>1. /\ e \in Nat /\ entry[e] \in Entry /\ session[e] \in Session /\ 0 \in 0..Forever
  BY QueueRows, Bounds
<1> DEFINE h == IF Held(e) THEN entry[e].hold ELSE NoHold
<1>2. entry[e].st \in Active \cup Done /\ h \in 0..Forever
  BY <1>1, EntryFields DEF NoHold, Sts
<1>3. session[e].st \in {"none", "completed"} \cup LiveSession
  BY <1>1 DEF Session
<1>4. entry[e].skip \in BOOLEAN
  BY <1>1, EntryFields
<1>5. Seen(e) = [e |-> e, st |-> entry[e].st, skip |-> entry[e].skip, hold |-> h,
                 service |-> session[e].st]
  BY DEF Seen
<1>6. Held(e) => h = entry[e].hold
  OBVIOUS
<1> HIDE DEF h
<1>7. [e |-> e, st |-> entry[e].st, skip |-> entry[e].skip, hold |-> h,
       service |-> session[e].st] \in Screen
  BY <1>1, <1>2, <1>3, <1>4, Zenon DEF Screen
<1>8. QED
  BY <1>5, <1>6, <1>7

\* A screen is read.
LEMMA ReadInv ==
    ASSUME Parts, NEW o \in Operators, NEW e \in Entries, Read(o, e)
    PROVE  Parts'
<1>1. /\ TypeOK /\ UNCHANGED <<now, entry, session, activity, intake, request>>
      /\ screen' = [screen EXCEPT ![o] = Seen(e)] /\ Entries' = Entries
  BY DEF Parts, Read, Entries
<1>2. screen \in [Operators -> Screen \cup {NoScreen}]
  BY <1>1 DEF TypeOK
<1>3. /\ Seen(e) \in Screen /\ Seen(e).e = e
      /\ Seen(e).st = entry[e].st /\ Seen(e).skip = entry[e].skip
      /\ Held(e) => Seen(e).hold = entry[e].hold
      /\ Seen(e).service = session[e].st
  BY <1>1, SeenRow
<1>4. /\ screen' \in [Operators -> Screen \cup {NoScreen}] /\ screen'[o] = Seen(e)
      /\ \A q \in Operators \ {o} : screen'[q] = screen[q]
  BY <1>1, <1>2, <1>3
<1>5. TypeOK'
  BY <1>1, <1>3, <1>4 DEF TypeOK
<1>6. RowsOk' /\ Paired' /\ OneServed' /\ Unoccupied'
  BY <1>1 DEF Parts, RowsOk, RowOk, Paired, PairOf, OneServed, Unoccupied, Serves
<1>7. ScreenCurrent'
  <2>1. SUFFICES ASSUME NEW q \in Operators, NEW f \in Entries, Fresh(q, f)'
                 PROVE  /\ entry[f].st = screen'[q].st
                        /\ entry[f].skip = screen'[q].skip
                        /\ Held(f) => entry[f].hold = screen'[q].hold
                        /\ session[f].st = screen'[q].service
    BY <1>1 DEF ScreenCurrent, Held
  <2>2. CASE q = o
    BY <1>3, <1>4, <2>1, <2>2 DEF Fresh
  <2>3. CASE q # o
    BY <1>4, <2>1, <2>3 DEF Fresh, Parts, ScreenCurrent
  <2>4. QED
    BY <2>2, <2>3
<1>8. QED
  BY <1>5, <1>6, <1>7 DEF Parts

\* An automatic call, or its repetition.
LEMMA CallNextInv ==
    ASSUME Parts, NEW c \in Callers, CallNext(c)
    PROVE  Parts'
<1>1. TypeOK /\ RowsOk /\ request \in [Callers -> Record]
  BY DEF Parts, TypeOK, Record
<1>2. CASE request[c] = "done"
  <2>1. UNCHANGED vars
    BY <1>2 DEF CallNext, vars
  <2>2. now \in 0..MaxTime /\ now >= now
    BY <1>1, LiveQueueAssumption DEF TypeOK
  <2>3. QED
    BY <1>1, <2>1, <2>2, OtherInv DEF TypeOK, Record, vars
<1>3. CASE request[c] # "done"
  <2>1. /\ CallHead /\ UNCHANGED <<now, session, activity, intake>>
        /\ request' = [request EXCEPT ![c] = "done"]
    BY <1>3 DEF CallNext
  <2>2. request' \in [Callers -> Record]
    BY <1>1, <2>1 DEF Record
  <2>3. QED
    BY <1>1, <2>1, <2>2, CallHeadStep, EntryStepInv
<1>4. QED
  BY <1>2, <1>3

\* The answer arrives.
LEMMA ReceiveInv ==
    ASSUME Parts, NEW c \in Callers, ReceiveAnswer(c)
    PROVE  Parts'
<1>1. TypeOK /\ request \in [Callers -> Record] /\ now \in 0..MaxTime /\ now >= now
  BY LiveQueueAssumption DEF Parts, TypeOK, Record
<1>2. /\ request' = [request EXCEPT ![c] = "new"]
      /\ UNCHANGED <<now, entry, session, activity, intake, screen>>
  BY DEF ReceiveAnswer
<1>3. request' \in [Callers -> Record]
  BY <1>1, <1>2 DEF Record
<1>4. QED
  BY <1>1, <1>2, <1>3, OtherInv DEF TypeOK

\* A command of an operator.
LEMMA OperatorInv ==
    ASSUME Parts, NEW o \in Operators, NEW e \in Entries, OperatorCommand(o, e)
    PROVE  Parts'
<1>1. TypeOK /\ RowsOk /\ Paired /\ request \in [Callers -> Record]
  BY DEF Parts, TypeOK, Record
<1>2. ASSUME EntryStep({e}), request' = request PROVE Parts'
  BY <1>1, <1>2, EntryStepInv
<1>3. ASSUME ServiceStep(e) PROVE Parts'
  BY <1>3, ServiceStepInv
<1>4. CASE OperatorSelect(o, e) \/ LeaveQueue(o, e)
  BY <1>1, <1>2, <1>4, LeaveStep
<1>5. CASE (\E until \in Instants : RecallHold(o, e, until)) \/ ReleaseRecallHold(o, e)
  BY <1>1, <1>2, <1>5, HoldStep
<1>6. CASE MarkNoShow(o, e) \/ ClassifyExpectedWorkload(o, e)
  BY <1>1, <1>2, <1>6, MarkStep
<1>7. CASE Skip(o, e)
  BY <1>1, <1>2, <1>7, SkipStep
<1>8. CASE \/ \E r \in Resources : StartService(o, e, r)
           \/ PauseService(o, e) \/ ResumeService(o, e) \/ CompleteService(o, e)
  BY <1>1, <1>3, <1>8, ServiceEffect
<1>9. QED
  BY <1>4, <1>5, <1>6, <1>7, <1>8 DEF OperatorCommand

\* An intake control.
LEMMA IntakeInv ==
    ASSUME Parts, NEW b \in BOOLEAN, NEW until \in 0..Forever, SetIntakeControl(b, until)
    PROVE  Parts'
<1>1. TypeOK /\ request \in [Callers -> Record] /\ now \in 0..MaxTime /\ now >= now
  BY LiveQueueAssumption DEF Parts, TypeOK, Record
<1>2. /\ intake' = [accepting |-> b, until |-> until]
      /\ UNCHANGED <<now, entry, session, activity, screen, request>>
  BY DEF SetIntakeControl
<1>3. [accepting |-> b, until |-> until] \in [accepting : BOOLEAN, until : 0..Forever]
  BY Zenon
<1>4. QED
  BY <1>1, <1>2, <1>3, OtherInv DEF TypeOK

\* An activity begins or ends.
LEMMA ActivityInv ==
    ASSUME Parts, NEW r \in Resources, StartResourceActivity(r) \/ EndResourceActivity(r)
    PROVE  Parts'
<1>1. /\ TypeOK /\ request \in [Callers -> Record] /\ now \in 0..MaxTime /\ now >= now
      /\ activity \in [Resources -> BOOLEAN]
  BY LiveQueueAssumption DEF Parts, TypeOK, Record
<1>2. PICK b \in BOOLEAN :
         /\ activity' = [activity EXCEPT ![r] = b] /\ (b => ~Serves(r))
         /\ UNCHANGED <<now, entry, session, intake, screen, request>>
  BY DEF StartResourceActivity, EndResourceActivity
<1>3. activity' \in [Resources -> BOOLEAN]
  BY <1>1, <1>2
<1>4. \A q \in Resources : activity'[q] => activity[q] \/ ~Serves(q)
  BY <1>1, <1>2
<1>5. QED
  BY <1>1, <1>2, <1>3, <1>4, OtherInv DEF TypeOK

\* The clock.
LEMMA TickInv ==
    ASSUME Parts, Tick
    PROVE  Parts'
<1>1. /\ TypeOK /\ request \in [Callers -> Record] /\ now' \in 0..MaxTime /\ now' >= now
  BY LiveQueueAssumption DEF Parts, TypeOK, Record, Tick
<1>2. UNCHANGED <<entry, session, activity, intake, screen, request>>
  BY DEF Tick
<1>3. QED
  BY <1>1, <1>2, OtherInv DEF TypeOK

\* Every step keeps the invariant.
LEMMA PartsNext == Parts /\ [Next]_vars => Parts'
<1> SUFFICES ASSUME Parts, [Next]_vars PROVE Parts'
  OBVIOUS
<1>1. TypeOK /\ Forever \in 0..Forever /\ \A until \in Instants : until \in 0..Forever
  BY Bounds DEF Parts
<1>2. ASSUME NEW p \in Parties, CheckIn(p) \/ JoinQueue(p) PROVE Parts'
  BY <1>2, AdmitInv DEF CheckIn, JoinQueue
<1>3. CASE SetIntakeControl(TRUE, Forever)
  <2>1. TRUE \in BOOLEAN
    OBVIOUS
  <2>2. QED
    BY <1>1, <1>3, <2>1, IntakeInv
<1>4. ASSUME NEW until \in Instants, SetIntakeControl(FALSE, until) PROVE Parts'
  <2>1. FALSE \in BOOLEAN
    OBVIOUS
  <2>2. QED
    BY <1>1, <1>4, <2>1, IntakeInv
<1>5. ASSUME NEW c \in Callers, CallNext(c) \/ ReceiveAnswer(c) PROVE Parts'
  BY <1>5, CallNextInv, ReceiveInv
<1>6. ASSUME NEW o \in Operators, NEW e \in Entries, Read(o, e) PROVE Parts'
  BY <1>6, ReadInv
<1>7. ASSUME NEW o \in Operators, NEW e \in Entries, OperatorCommand(o, e)
      PROVE  Parts'
  BY <1>7, OperatorInv
<1>8. ASSUME NEW r \in Resources, StartResourceActivity(r) \/ EndResourceActivity(r)
      PROVE  Parts'
  BY <1>8, ActivityInv
<1>9. CASE Tick
  BY <1>9, TickInv
<1>10. CASE UNCHANGED vars
  <2>1. now \in 0..MaxTime /\ now >= now
    BY <1>1, LiveQueueAssumption DEF TypeOK
  <2>2. QED
    BY <1>1, <1>10, <2>1, OtherInv DEF TypeOK, Record, vars
<1>11. QED
  BY <1>2, <1>3, <1>4, <1>5, <1>6, <1>7, <1>8, <1>9, <1>10 DEF Next

\* It holds at first.
LEMMA PartsInit == Init => Parts
<1> SUFFICES ASSUME Init PROVE Parts
  OBVIOUS
<1>1. /\ now \in 0..MaxTime /\ Forever \in 0..Forever
  BY LiveQueueAssumption DEF Init, Forever
<1>2. entry \in Seq(Entry) /\ session \in Seq(Session) /\ Len(session) = Len(entry) /\ Entries = {}
  BY DEF Init, Entries
<1>3. intake \in [accepting : BOOLEAN, until : 0..Forever]
  <2>1. [accepting |-> TRUE, until |-> Forever] \in [accepting : BOOLEAN, until : 0..Forever]
    BY <1>1, Zenon
  <2>2. QED
    BY <2>1 DEF Init
<1>4. TypeOK
  BY <1>1, <1>2, <1>3 DEF Init, TypeOK, Record, NoScreen
<1>5. RowsOk /\ Paired /\ OneServed /\ Unoccupied /\ ScreenCurrent
  BY <1>2 DEF Init, RowsOk, Paired, OneServed, Unoccupied, Serves, ScreenCurrent
<1>6. QED
  BY <1>4, <1>5 DEF Parts

-----------------------------------------------------------------------------
(* Theorems *)

\* The inductive invariant: a skip is one unused pass, and a screen whose
\* revision is current shows the row as it is.
THEOREM QueueInvariant == Spec => []QueueInv
<1>1. Parts => QueueInv
  BY InvParts DEF Parts
<1>2. QED
  BY <1>1, PartsInit, PartsNext, PTL DEF Spec

\* An automatic selection goes past an entry that no hold keeps back only once
\* for each skip (consume_active_skips, lock_next_eligible_entry).
THEOREM OneSelectionPerSkip == Spec => []BoundedOvertaking
<1>1. QueueInv => BoundedOvertaking
  BY DEF QueueInv
<1>2. QED
  BY <1>1, QueueInvariant, PTL

\* The queue, the sessions and the resources stay coherent
\* (assert_service_queue_coherence, guard_live_resource_occupation).
THEOREM CoherentService == Spec => []ServiceCoherent
<1>1. QueueInv => ServiceCoherent
  BY DEF QueueInv
<1>2. QED
  BY <1>1, QueueInvariant, PTL

\* What the screens show as recall-eligible is what a selection may select: a
\* time hold that ran out is expired before (expire_queue_time_holds).
LEMMA ShownIsSelectable ==
    ASSUME TypeOK, RowsOk
    PROVE  Selectable(Expired) = {e \in Entries : RecallEligible(e)}
<1>1. DOMAIN Expired = Entries
  BY ExpiredRows
<1>2. ASSUME NEW e \in Entries PROVE Eligible(Expired[e]) <=> RecallEligible(e)
  <2>1. /\ Expired[e].st = entry[e].st /\ Expired[e].skip = entry[e].skip
        /\ Expired[e].hold = IF entry[e].hold <= now THEN 0 ELSE entry[e].hold
    BY ExpiredRows
  <2>2. entry[e].hold \in Nat /\ now \in Nat
    BY QueueRows, EntryFields, Bounds
  <2>3. Expired[e].hold = NoHold <=> ~Held(e)
    BY <2>1, <2>2 DEF NoHold, Held
  <2>4. QED
    BY <2>1, <2>3 DEF Eligible, RecallEligible
<1>3. QED
  BY <1>1, <1>2 DEF Selectable

\* What a selection does to a row: only the head changes its status, every hold
\* keeps its effect, and the skips are gone if there is a head.
LEMMA SelectionRows ==
    ASSUME TypeOK, RowsOk, CallHead, now' = now
    PROVE  LET S == {e \in Entries : RecallEligible(e)}
           IN  /\ Entries' = Entries
               /\ S = {} => \A f \in Entries : /\ entry'[f].st = entry[f].st
                                               /\ entry'[f].skip = entry[f].skip
                                               /\ Held(f)' <=> Held(f)
               /\ S # {} =>
                    /\ HeadOf(S) \in S /\ \A q \in S : HeadOf(S) <= q
                    /\ entry'[HeadOf(S)].st = "called"
                    /\ \A f \in Entries \ {HeadOf(S)} :
                          /\ entry'[f].st = entry[f].st /\ ~entry'[f].skip
                          /\ Held(f)' <=> Held(f)
<1> DEFINE S == {e \in Entries : RecallEligible(e)}
<1>1. Selectable(Expired) = S
  BY ShownIsSelectable
<1>2. ASSUME NEW f \in Entries, entry'[f].hold = Expired[f].hold PROVE Held(f)' <=> Held(f)
  <2>1. Expired[f].hold = IF entry[f].hold <= now THEN 0 ELSE entry[f].hold
    BY ExpiredRows
  <2>2. entry[f].hold \in Nat /\ now \in Nat
    BY QueueRows, EntryFields, Bounds
  <2>3. QED
    BY <1>2, <2>1, <2>2 DEF Held
<1>3. Entries' = Entries
  BY DEF CallHead, Entries
<1>4. CASE S = {}
  <2>1. entry' = Expired
    BY <1>1, <1>4 DEF CallHead, Expired
  <2>2. QED
    BY <1>2, <1>3, <1>4, <2>1, ExpiredRows
<1>5. CASE S # {}
  <2>1. PICK head : head = HeadOf(S)
    OBVIOUS
  <2>2. entry' = [f \in Entries |-> Selected(f, head)]
    BY <1>1, <1>5, <2>1 DEF CallHead, Expired, Selected
  <2>3. head \in Selectable(Expired) /\ \A q \in Selectable(Expired) : head <= q
    BY <1>1, <1>5, <2>1, ExpiredRows, Least
  <2>4. ASSUME NEW f \in Entries, f # head
        PROVE  /\ entry'[f].st = entry[f].st /\ ~entry'[f].skip
               /\ Held(f)' <=> Held(f)
    <3>1. entry'[f] = Selected(f, head)
      BY <2>2
    <3>2. /\ entry'[f].st = entry[f].st /\ ~entry'[f].skip
          /\ entry'[f].hold = Expired[f].hold
      BY <2>3, <2>4, <3>1, SelectedRow
    <3>3. QED
      BY <1>2, <3>2
  <2>5. entry'[head].st = "called"
    <3>1. head \in Entries /\ Expired[head] \in Entry /\ 0 \in 0..Forever /\ "called" \in Sts
      BY <2>3, ExpiredRows, Bounds DEF Sts, Active
    <3>2. entry'[head] = LeaveLine(Expired[head], "called")
      BY <2>2, <3>1 DEF Selected
    <3>3. QED
      BY <3>1, <3>2, LeaveRow
  <2>6. QED
    BY <1>1, <1>3, <1>5, <2>1, <2>3, <2>4, <2>5
<1>6. QED
  BY <1>4, <1>5

\* An automatic call takes the entry shown nobody ahead, and moves the others up
\* as the screens and the positions said (lock_next_eligible_entry,
\* consume_active_skips).
THEOREM HeadIsCalled == Spec => CallsTheHead
<1> DEFINE called == {e \in Entries : entry'[e].st # entry[e].st}
           back(e) == {f \in Entries : /\ f < e /\ entry[f].st = "waiting"
                                       /\ ~Held(f) /\ entry[f].skip /\ called # {}}
           Agreed ==
             /\ called = {e \in Entries : RecallEligible(e) /\ AheadOf(e) = {}}
             /\ \A e \in Entries : AheadOf(e)' = (AheadOf(e) \ called) \cup back(e)
           Answered(c) == request[c] = "new" /\ request'[c] = "done"
<1>1. ASSUME TypeOK, RowsOk, CallHead, now' = now PROVE Agreed
  <2> DEFINE S == {e \in Entries : RecallEligible(e)}
  <2>1. Entries' = Entries /\ Entries \in SUBSET Nat
    BY <1>1, SelectionRows, QueueRows
  <2>2. CASE S = {}
    <3>1. \A f \in Entries : /\ entry'[f].st = entry[f].st /\ entry'[f].skip = entry[f].skip
                             /\ Held(f)' <=> Held(f)
      BY <1>1, <2>2, SelectionRows
    <3>2. called = {} /\ \A f \in Entries : RecallEligible(f)' <=> RecallEligible(f)
      BY <3>1 DEF RecallEligible
    <3>3. \A e \in Entries : AheadOf(e)' = AheadOf(e)
      BY <2>1, <3>2 DEF AheadOf
    <3>4. QED
      BY <2>2, <3>2, <3>3
  <2>3. CASE S # {}
    <3>1. PICK head \in S :
             /\ \A q \in S : head <= q
             /\ entry'[head].st = "called"
             /\ \A f \in Entries \ {head} :
                   /\ entry'[f].st = entry[f].st /\ ~entry'[f].skip
                   /\ Held(f)' <=> Held(f)
      BY <1>1, <2>3, SelectionRows
    <3>2. head \in Entries /\ entry[head].st = "waiting" /\ ~Held(head) /\ ~entry[head].skip
      BY <3>1 DEF RecallEligible
    <3>3. called = {head}
      BY <3>1, <3>2
    <3>4. called = {e \in Entries : RecallEligible(e) /\ AheadOf(e) = {}}
      <4>1. AheadOf(head) = {}
        <5>1. \A f \in Entries : RecallEligible(f) => ~(f < head)
          BY <2>1, <3>1, <3>2
        <5>2. QED
          BY <5>1 DEF AheadOf
      <4>2. ASSUME NEW e \in S, e # head PROVE head \in AheadOf(e)
        BY <2>1, <3>1, <3>2, <4>2 DEF AheadOf
      <4>3. QED
        BY <3>1, <3>3, <4>1, <4>2
    <3>5. /\ ~RecallEligible(head)'
          /\ \A f \in Entries \ {head} :
                RecallEligible(f)' <=> entry[f].st = "waiting" /\ ~Held(f)
      BY <3>1 DEF RecallEligible
    <3>6. ASSUME NEW e \in Entries PROVE AheadOf(e)' = (AheadOf(e) \ called) \cup back(e)
      <4>1. AheadOf(e)' = {f \in Entries : f < e /\ RecallEligible(f)'}
        BY <2>1 DEF AheadOf
      <4>2. back(e) = {f \in Entries : /\ f < e /\ entry[f].st = "waiting"
                                       /\ ~Held(f) /\ entry[f].skip}
        BY <3>3
      <4>3. AheadOf(e) \ called =
              {f \in Entries : /\ f < e /\ entry[f].st = "waiting"
                               /\ ~Held(f) /\ ~entry[f].skip /\ f # head}
        BY <3>3 DEF AheadOf, RecallEligible
      <4> HIDE DEF called, back
      <4>4. QED
        BY <3>2, <3>5, <4>1, <4>2, <4>3
    <3>7. QED
      BY <3>4, <3>6
  <2>4. QED
    BY <2>2, <2>3
<1>2. ASSUME TypeOK, Next, NEW c \in Callers, Answered(c) PROVE CallHead /\ now' = now
  <2>1. request \in [Callers -> {"new", "done"}]
    BY <1>2 DEF TypeOK
  <2>2. request' # request
    BY <1>2
  <2>3. PICK d \in Callers : CallNext(d) \/ ReceiveAnswer(d)
    <3>1. ASSUME NEW p, CheckIn(p) \/ JoinQueue(p) PROVE FALSE
      BY <2>2, <3>1 DEF CheckIn, JoinQueue, Admit
    <3>2. ASSUME NEW b, NEW until, SetIntakeControl(b, until) PROVE FALSE
      BY <2>2, <3>2 DEF SetIntakeControl
    <3>3. ASSUME NEW o, NEW e, Read(o, e) \/ OperatorCommand(o, e) PROVE FALSE
      BY Zenon, <2>2, <3>3 DEF Read, OperatorCommand, OperatorSelect, RecallHold,
         ReleaseRecallHold, Skip, ClassifyExpectedWorkload, LeaveQueue, MarkNoShow,
         StartService, PauseService, ResumeService, CompleteService
    <3>4. ASSUME NEW q, StartResourceActivity(q) \/ EndResourceActivity(q) PROVE FALSE
      BY <2>2, <3>4 DEF StartResourceActivity, EndResourceActivity
    <3>5. CASE Tick
      BY <2>2, <3>5 DEF Tick
    <3>6. QED
      BY <1>2, <3>1, <3>2, <3>3, <3>4, <3>5 DEF Next
  <2>4. ~ReceiveAnswer(d)
    BY <1>2, <2>1 DEF ReceiveAnswer
  <2>5. QED
    BY <2>2, <2>3, <2>4 DEF CallNext
<1>3. ASSUME QueueInv, [Next]_vars, ~UNCHANGED vars, NEW c \in Callers, Answered(c)
      PROVE  Agreed
  <2>1. TypeOK /\ Parts
    BY <1>3, InvParts DEF QueueInv, ServiceCoherent
  <2>2. QED
    BY <1>1, <1>2, <1>3, <2>1 DEF Parts
<1> HIDE DEF Agreed
<1>4. QueueInv /\ [Next]_vars => [\A c \in Callers : Answered(c) => Agreed]_vars
  BY <1>3
<1>5. QED
  BY <1>4, QueueInvariant, PTL DEF Spec, CallsTheHead, Agreed

\* No operator command succeeds on a row that changed since the screen was read
\* (lock_waiting_entry, lock_queue_entry, lock_session_context).
THEOREM NoBlindCommand == Spec => ActsOnWhatWasSeen
<1>1. ASSUME QueueInv
      PROVE  [\A o \in Operators, e \in Entries :
                OperatorCommand(o, e) =>
                   /\ entry[e].st = screen[o].st
                   /\ entry[e].skip = screen[o].skip
                   /\ Held(e) => entry[e].hold = screen[o].hold
                   /\ session[e].st = screen[o].service]_vars
  <2> SUFFICES ASSUME NEW o \in Operators, NEW e \in Entries, OperatorCommand(o, e)
               PROVE  /\ entry[e].st = screen[o].st
                      /\ entry[e].skip = screen[o].skip
                      /\ Held(e) => entry[e].hold = screen[o].hold
                      /\ session[e].st = screen[o].service
    OBVIOUS
  <2>1. Fresh(o, e)
    BY DEF OperatorCommand, OperatorSelect, RecallHold, ReleaseRecallHold, Skip,
       ClassifyExpectedWorkload, LeaveQueue, MarkNoShow, StartService, PauseService,
       ResumeService, CompleteService
  <2>2. QED
    BY <1>1, <2>1 DEF QueueInv, ScreenCurrent
<1>2. QED
  BY <1>1, QueueInvariant, PTL DEF Spec, ActsOnWhatWasSeen

=============================================================================
