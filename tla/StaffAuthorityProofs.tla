------------------------ MODULE StaffAuthorityProofs ------------------------
(***************************************************************************)
(* Proofs about StaffAuthority for any staff, standing, transactions and   *)
(* commands.                                                               *)
(***************************************************************************)
EXTENDS StaffAuthority, WellFoundedInduction, TLAPS

-----------------------------------------------------------------------------
(* Rows *)

Pcs == {"root", "assert", "target", "check", "write"}

\* The fields of a transaction after an update of some of them.
LEMMA TxRow ==
    ASSUME NEW x \in Tx, NEW y, NEW pc \in Pcs, NEW r \in 1..3,
           NEW L \in SUBSET Rows, NEW S \in SUBSET Staff, NEW b \in BOOLEAN,
           y = [pc |-> pc, by |-> x.by, cmd |-> x.cmd, todo |-> S, round |-> r,
                fresh |-> b, locks |-> L]
    PROVE  y \in Tx
<1>1. x.by \in Staff /\ x.cmd \in Commands
  BY DEF Tx
<1>2. [pc |-> pc, by |-> x.by, cmd |-> x.cmd, todo |-> S, round |-> r,
       fresh |-> b, locks |-> L] \in Tx
  BY <1>1, Zenon DEF Tx, Pcs
<1>3. QED
  BY <1>2

\* What is known of a transaction.
LEMMA TxFields ==
    ASSUME NEW x \in Tx
    PROVE  /\ x.pc \in Pcs /\ x.by \in Staff /\ x.cmd \in Commands
           /\ x.todo \in SUBSET Staff /\ x.round \in 1..3 /\ x.locks \in SUBSET Rows
           /\ x.fresh \in BOOLEAN
BY DEF Tx, Pcs

Going(x, pc, r, L) == [x EXCEPT !.pc = pc, !.round = r, !.locks = @ \cup L]

\* A transaction that goes on to pc.
LEMMA GoRow ==
    ASSUME NEW x \in Tx, NEW pc \in Pcs, NEW r \in 1..3, NEW L, NEW y,
           y = Going(x, pc, r, L), L \subseteq Rows
    PROVE  /\ y \in Tx /\ y.pc = pc /\ y.round = r /\ y.locks = x.locks \cup L
           /\ y.todo = x.todo /\ y.by = x.by /\ y.cmd = x.cmd /\ y.fresh = x.fresh
<1>1. y = [pc |-> pc, by |-> x.by, cmd |-> x.cmd, todo |-> x.todo, round |-> r,
           fresh |-> x.fresh, locks |-> x.locks \cup L]
  BY DEF Tx, Going
<1>2. x.locks \cup L \in SUBSET Rows /\ x.todo \in SUBSET Staff
  BY TxFields
<1>3. x.fresh \in BOOLEAN
  BY TxFields
<1>4. y \in Tx
  BY <1>1, <1>2, <1>3, TxRow
<1>5. QED
  BY <1>1, <1>4

Snapped(x, pc, S) == [x EXCEPT !.pc = pc, !.todo = S]

\* A transaction that begins to lock the root.
LEMMA SnapRow ==
    ASSUME NEW x \in Tx, NEW pc \in Pcs, NEW S, NEW y, y = Snapped(x, pc, S),
           S \subseteq Staff
    PROVE  /\ y \in Tx /\ y.pc = pc /\ y.round = x.round /\ y.locks = x.locks
           /\ y.todo = S /\ y.by = x.by /\ y.cmd = x.cmd /\ y.fresh = x.fresh
<1>1. y = [pc |-> pc, by |-> x.by, cmd |-> x.cmd, todo |-> S, round |-> x.round,
           fresh |-> x.fresh, locks |-> x.locks]
  BY DEF Tx, Snapped
<1>2. x.locks \in SUBSET Rows /\ x.round \in 1..3
  BY TxFields
<1>3. x.fresh \in BOOLEAN
  BY TxFields
<1>4. y \in Tx
  BY <1>1, <1>2, <1>3, TxRow
<1>5. QED
  BY <1>1, <1>4

Rooted(x, S, L) == [x EXCEPT !.todo = S, !.locks = @ \cup L]

\* A transaction with one more row of the root.
LEMMA RootRow ==
    ASSUME NEW x \in Tx, NEW S, NEW L, NEW y, y = Rooted(x, S, L),
           S \subseteq Staff, L \subseteq Rows
    PROVE  /\ y \in Tx /\ y.pc = x.pc /\ y.round = x.round /\ y.locks = x.locks \cup L
           /\ y.todo = S /\ y.by = x.by /\ y.cmd = x.cmd /\ y.fresh = x.fresh
<1>1. y = [pc |-> x.pc, by |-> x.by, cmd |-> x.cmd, todo |-> S, round |-> x.round,
           fresh |-> x.fresh, locks |-> x.locks \cup L]
  BY DEF Tx, Rooted
<1>2. x.locks \cup L \in SUBSET Rows /\ x.round \in 1..3 /\ x.pc \in Pcs
  BY TxFields
<1>3. x.fresh \in BOOLEAN
  BY TxFields
<1>4. y \in Tx
  BY <1>1, <1>2, <1>3, TxRow
<1>5. QED
  BY <1>1, <1>4

\* A command becomes outdated.
LEMMA StaleRow ==
    ASSUME NEW x \in Tx, NEW y, y = [x EXCEPT !.fresh = FALSE]
    PROVE  /\ y \in Tx /\ y.pc = x.pc /\ y.round = x.round /\ y.locks = x.locks
           /\ y.todo = x.todo /\ y.by = x.by /\ y.cmd = x.cmd /\ ~y.fresh
<1>1. y = [pc |-> x.pc, by |-> x.by, cmd |-> x.cmd, todo |-> x.todo, round |-> x.round,
           fresh |-> FALSE, locks |-> x.locks]
  BY DEF Tx
<1>2. x.locks \in SUBSET Rows /\ x.round \in 1..3 /\ x.pc \in Pcs /\ x.todo \in SUBSET Staff
  BY TxFields
<1>3. y \in Tx
  BY <1>1, <1>2, TxRow
<1>4. QED
  BY <1>1, <1>3

\* A nonempty set of numbers has a least element.
LEMMA LeastElement ==
    ASSUME NEW S \in SUBSET Nat, S # {}
    PROVE  \E p \in S : \A q \in S : p <= q
<1>1. PICK p \in S : \A q \in S : ~(<<q, p>> \in OpToRel(<, Nat))
  BY NatLessThanWellFounded, WFMin
<1>2. \A q \in S : ~(q < p)
  BY <1>1 DEF OpToRel
<1>3. QED
  BY <1>2

\* The busy transactions are the ones with a record.
LEMMA BusyTx ==
    ASSUME TypeOK
    PROVE  \A c \in Txs : (c \in Busy <=> tx[c] \in Tx) /\ (c \notin Busy <=> tx[c] = Idle)
BY DEF TypeOK, Busy, At, Tx, Idle

\* The rows a transaction waits for.
LEMMA WantedRows ==
    ASSUME TypeOK, NEW c \in Busy
    PROVE  /\ Wanted(c) \in SUBSET Rows
           /\ tx[c].todo # {} => NextRow(c) \in tx[c].todo
                                 /\ Wanted(c) = {Lock("membership", NextRow(c), "update")}
<1>1. tx[c] \in Tx
  BY BusyTx DEF Busy
<1>2. /\ tx[c].by \in Staff /\ tx[c].cmd \in Commands /\ tx[c].todo \in SUBSET Staff
      /\ tx[c].cmd.on \in Staff
  BY <1>1, TxFields, StaffAssumption
<1>3. \A table \in {"membership", "principal", "binding"}, p \in Staff, mode \in {"share", "update"} :
         Lock(table, p, mode) \in Rows
  BY DEF Lock, Rows
<1>4. ASSUME tx[c].todo # {}
      PROVE  NextRow(c) \in tx[c].todo /\ Wanted(c) = {Lock("membership", NextRow(c), "update")}
  <2>1. tx[c].todo \in SUBSET Nat
    BY <1>2, StaffAssumption
  <2>2. \E p \in tx[c].todo : \A q \in tx[c].todo : p <= q
    BY <1>4, <2>1, LeastElement
  <2>3. NextRow(c) \in tx[c].todo
    BY <2>2 DEF NextRow
  <2>4. QED
    BY <1>4, <2>3 DEF Wanted
<1>5. CASE tx[c].todo # {}
  BY <1>2, <1>3, <1>4, <1>5
<1>6. CASE tx[c].todo = {}
  <2>1. Wanted(c) \in
          {{Lock("membership", tx[c].by, "share"), Lock("principal", tx[c].by, "share")},
           {Lock("membership", tx[c].cmd.on, "update")},
           {Lock("membership", tx[c].cmd.on, "update"), Lock("principal", tx[c].cmd.on, "update")},
           {Lock("binding", tx[c].cmd.on, "update")},
           {Lock("principal", tx[c].cmd.on, "update"), Lock("binding", tx[c].cmd.on, "update")},
           {Lock("principal", tx[c].cmd.on, "update")}, {}}
    BY <1>6 DEF Wanted
  <2>2. Wanted(c) \subseteq Rows
    BY <1>2, <1>3, <2>1
  <2>3. QED
    BY <1>6, <2>2
<1>7. QED
  BY <1>5, <1>6

-----------------------------------------------------------------------------
(* What a step does *)

Others(c) == \A d \in Txs \ {c} : tx'[d] = tx[d]

\* c goes on; nothing else changes.
Goes(c, pc, round, todo, locks) ==
    /\ c \in Busy /\ Others(c) /\ UNCHANGED tables
    /\ tx' \in [Txs -> Tx \cup {Idle}]
    /\ tx'[c] \in Tx /\ tx'[c].pc = pc /\ tx'[c].round = round
    /\ tx'[c].todo = todo /\ tx'[c].locks = locks
    /\ tx'[c].by = tx[c].by /\ tx'[c].cmd = tx[c].cmd /\ tx'[c].fresh = tx[c].fresh

\* Nobody else holds what c waits for.
Free(c) == \A d \in Busy \ {c} : \A l \in Wanted(c), k \in tx[d].locks : ~Conflicts(l, k)

Begins(c) ==
    /\ c \in Txs /\ Others(c) /\ UNCHANGED tables
    /\ tx' \in [Txs -> Tx \cup {Idle}]
    /\ tx'[c] \in Tx /\ tx'[c].pc = "root" /\ tx'[c].round = 1
    /\ tx'[c].todo = {} /\ tx'[c].locks = {}

Snaps(c) ==
    /\ At(c, "root")
    /\ Goes(c, IF tx[c].round = 3 THEN "check" ELSE "assert", tx[c].round, Active, tx[c].locks)

LocksRow(c) ==
    /\ tx[c].todo # {} /\ Free(c)
    /\ Wanted(c) = {Lock("membership", NextRow(c), "update")}
    /\ Goes(c, tx[c].pc, tx[c].round, tx[c].todo \ {NextRow(c)}, tx[c].locks \cup Wanted(c))

Asserts(c) ==
    /\ At(c, "assert") /\ tx[c].todo = {} /\ Free(c)
    /\ StaffManager(tx[c].by, tx[c].cmd)
    /\ \/ Goes(c, "root", 2, {}, tx[c].locks \cup Wanted(c))
       \/ Goes(c, "target", tx[c].round, {}, tx[c].locks \cup Wanted(c))

Accepts(c) ==
    LET a == tx[c].by
        cmd == tx[c].cmd
    IN  /\ At(c, "target") /\ tx[c].todo = {} /\ Free(c)
        /\ Acceptable(a, cmd, tx[c].fresh)
        /\ \/ /\ cmd.kind = "binding"
              /\ Goes(c, "check", IF EndsController(a, cmd) THEN 3 ELSE tx[c].round, {},
                      tx[c].locks \cup Wanted(c))
           \/ /\ cmd.kind # "binding" /\ EndsController(a, cmd)
              /\ Goes(c, "root", 3, {}, tx[c].locks \cup Wanted(c))
           \/ /\ cmd.kind # "binding" /\ ~EndsController(a, cmd)
              /\ Goes(c, "write", tx[c].round, {}, tx[c].locks \cup Wanted(c))

Checks(c) ==
    LET cmd == tx[c].cmd
    IN  /\ At(c, "check") /\ tx[c].todo = {} /\ Free(c)
        /\ \/ tx[c].round < 3
           \/ cmd.kind = "binding" /\ HasController([binding EXCEPT ![cmd.on] = cmd.to])
           \/ cmd.kind # "binding" /\ OtherController(cmd.on)
        /\ Goes(c, "write", tx[c].round, {}, tx[c].locks \cup Wanted(c))

Drops(c) ==
    /\ c \in Busy /\ Others(c) /\ UNCHANGED tables
    /\ tx' \in [Txs -> Tx \cup {Idle}] /\ tx'[c] = Idle

\* c commits; the commands of the kinds on its target are outdated.
Commits(c, kinds) ==
    /\ c \in Busy /\ At(c, "write") /\ tx'[c] = Idle /\ Free(c)
    /\ tx' \in [Txs -> Tx \cup {Idle}]
    /\ \A d \in Txs \ {c} :
          /\ d \notin Busy => tx'[d] = tx[d]
          /\ d \in Busy =>
                /\ tx'[d] \in Tx /\ tx'[d].pc = tx[d].pc /\ tx'[d].round = tx[d].round
                /\ tx'[d].todo = tx[d].todo /\ tx'[d].locks = tx[d].locks
                /\ tx'[d].by = tx[d].by /\ tx'[d].cmd = tx[d].cmd
                /\ tx'[d].fresh =>
                      tx[d].fresh /\ ~(tx[d].cmd.on = tx[c].cmd.on /\ tx[d].cmd.kind \in kinds)

\* A grant of the locks c waits for.
LEMMA GrantedFree ==
    ASSUME NEW c \in Busy, Granted(c)
    PROVE  Free(c)
BY DEF Granted, Blocks, Free, Busy

\* A step that goes on with the locks that were granted.
LEMMA GoEffect ==
    ASSUME TypeOK, NEW c \in Busy, NEW pc \in Pcs, NEW r \in 1..3, Go(c, pc, r)
    PROVE  Goes(c, pc, r, tx[c].todo, tx[c].locks \cup Wanted(c))
<1>1. tx[c] \in Tx /\ c \in Txs /\ tx \in [Txs -> Tx \cup {Idle}]
  BY BusyTx DEF Busy, TypeOK
<1>2. Wanted(c) \in SUBSET Rows
  BY WantedRows
<1>3. /\ tx' = [tx EXCEPT ![c] = [tx[c] EXCEPT !.pc = pc, !.round = r, !.locks = @ \cup Wanted(c)]]
      /\ UNCHANGED tables
  BY DEF Go
<1>4. tx'[c] = Going(tx[c], pc, r, Wanted(c))
  BY <1>1, <1>3 DEF Going
<1>5. /\ tx'[c] \in Tx /\ tx'[c].pc = pc /\ tx'[c].round = r
      /\ tx'[c].locks = tx[c].locks \cup Wanted(c)
      /\ tx'[c].todo = tx[c].todo /\ tx'[c].by = tx[c].by /\ tx'[c].cmd = tx[c].cmd
      /\ tx'[c].fresh = tx[c].fresh
  BY <1>1, <1>2, <1>4, GoRow
<1>6. Others(c) /\ tx' \in [Txs -> Tx \cup {Idle}]
  <2>1. \A d \in Txs \ {c} : tx'[d] = tx[d]
    BY <1>1, <1>3
  <2>2. tx' = [d \in Txs |-> tx'[d]]
    BY <1>1, <1>3
  <2>3. \A d \in Txs : tx'[d] \in Tx \cup {Idle}
    BY <1>1, <1>5, <2>1
  <2>4. tx' \in [Txs -> Tx \cup {Idle}]
    BY <2>2, <2>3
  <2>5. QED
    BY <2>1, <2>4 DEF Others
<1>7. QED
  BY <1>3, <1>5, <1>6 DEF Goes

\* A refusal rolls back.
LEMMA RefuseEffect ==
    ASSUME TypeOK, NEW c \in Busy, Refuse(c)
    PROVE  Drops(c)
<1>1. c \in Txs /\ tx \in [Txs -> Tx \cup {Idle}]
  BY DEF Busy, TypeOK
<1>2. tx' = [tx EXCEPT ![c] = Idle] /\ UNCHANGED tables
  BY DEF Refuse
<1>3. Others(c) /\ tx'[c] = Idle /\ tx' \in [Txs -> Tx \cup {Idle}]
  BY <1>1, <1>2 DEF Others
<1>4. QED
  BY <1>2, <1>3 DEF Drops

\* A commit.
LEMMA CommitEffect ==
    ASSUME TypeOK, NEW c \in Busy, NEW kinds, At(c, "write"), Free(c), Commit(c, kinds)
    PROVE  Commits(c, kinds)
<1>1. c \in Txs /\ tx \in [Txs -> Tx \cup {Idle}]
  BY DEF Busy, TypeOK
<1>2. tx' = [d \in Txs |->
               IF d = c THEN Idle
               ELSE IF d \in Busy /\ tx[d].cmd.on = tx[c].cmd.on /\ tx[d].cmd.kind \in kinds
               THEN [tx[d] EXCEPT !.fresh = FALSE] ELSE tx[d]]
  BY DEF Commit
<1>3. tx'[c] = Idle
  BY <1>1, <1>2
<1>4. ASSUME NEW d \in Txs \ {c}, d \notin Busy PROVE tx'[d] = tx[d]
  BY <1>2, <1>4
<1>5. ASSUME NEW d \in Txs \ {c}, d \in Busy
      PROVE  /\ tx'[d] \in Tx /\ tx'[d].pc = tx[d].pc /\ tx'[d].round = tx[d].round
             /\ tx'[d].todo = tx[d].todo /\ tx'[d].locks = tx[d].locks
             /\ tx'[d].by = tx[d].by /\ tx'[d].cmd = tx[d].cmd
             /\ tx'[d].fresh =>
                   tx[d].fresh /\ ~(tx[d].cmd.on = tx[c].cmd.on /\ tx[d].cmd.kind \in kinds)
  <2>1. tx[d] \in Tx
    BY <1>5, BusyTx
  <2>2. CASE tx[d].cmd.on = tx[c].cmd.on /\ tx[d].cmd.kind \in kinds
    <3>1. tx'[d] = [tx[d] EXCEPT !.fresh = FALSE]
      BY <1>2, <1>5, <2>2
    <3>2. QED
      BY <2>1, <3>1, StaleRow
  <2>3. CASE ~(tx[d].cmd.on = tx[c].cmd.on /\ tx[d].cmd.kind \in kinds)
    <3>1. tx'[d] = tx[d]
      BY <1>2, <1>5, <2>3
    <3>2. QED
      BY <2>1, <2>3, <3>1
  <2>4. QED
    BY <2>2, <2>3
<1>6. tx' \in [Txs -> Tx \cup {Idle}]
  <2>1. \A d \in Txs : tx'[d] \in Tx \cup {Idle}
    BY <1>1, <1>3, <1>4, <1>5
  <2>2. tx' = [d \in Txs |-> tx'[d]]
    BY <1>2
  <2>3. QED
    BY <2>1, <2>2
<1>7. QED
  BY <1>3, <1>4, <1>5, <1>6 DEF Commits

\* A command is sent.
LEMMA SendEffect ==
    ASSUME TypeOK, NEW c \in Txs, NEW a \in Staff, NEW cmd \in Commands, Send(c, a, cmd)
    PROVE  Begins(c)
<1>1. tx \in [Txs -> Tx \cup {Idle}]
  BY DEF TypeOK
<1>2. /\ tx' = [tx EXCEPT ![c] = [pc |-> "root", by |-> a, cmd |-> cmd, todo |-> {},
                                  round |-> 1, fresh |-> TRUE, locks |-> {}]]
      /\ UNCHANGED tables
  BY DEF Send
<1>3. [pc |-> "root", by |-> a, cmd |-> cmd, todo |-> {}, round |-> 1, fresh |-> TRUE,
       locks |-> {}] \in Tx
  <2>1. {} \in SUBSET Staff /\ {} \in SUBSET Rows /\ 1 \in 1..3
    OBVIOUS
  <2>2. QED
    BY <2>1, Zenon DEF Tx
<1>4. /\ tx' \in [Txs -> Tx \cup {Idle}] /\ tx'[c] \in Tx /\ Others(c)
      /\ tx'[c] = [pc |-> "root", by |-> a, cmd |-> cmd, todo |-> {}, round |-> 1,
                   fresh |-> TRUE, locks |-> {}]
  BY <1>1, <1>2, <1>3 DEF Others
<1>5. QED
  BY <1>2, <1>4 DEF Begins

\* A statement that locks the root begins.
LEMMA SnapshotEffect ==
    ASSUME TypeOK, NEW c \in Txs, SnapshotRoot(c)
    PROVE  Snaps(c)
<1>1. c \in Busy
  BY DEF SnapshotRoot, Busy, At
<1>2. tx[c] \in Tx /\ tx \in [Txs -> Tx \cup {Idle}]
  BY <1>1, BusyTx DEF TypeOK
<1> DEFINE pc == IF tx[c].round = 3 THEN "check" ELSE "assert"
<1>3. pc \in Pcs /\ Active \in SUBSET Staff
  BY DEF Pcs, Active
<1>4. /\ tx' = [tx EXCEPT ![c] = [tx[c] EXCEPT !.pc = pc, !.todo = Active]]
      /\ UNCHANGED tables
  BY DEF SnapshotRoot, RootRows
<1> HIDE DEF pc
<1>5. tx'[c] = Snapped(tx[c], pc, Active)
  BY <1>2, <1>4 DEF Snapped
<1>6. /\ tx'[c] \in Tx /\ tx'[c].pc = pc /\ tx'[c].round = tx[c].round
      /\ tx'[c].locks = tx[c].locks /\ tx'[c].todo = Active
      /\ tx'[c].by = tx[c].by /\ tx'[c].cmd = tx[c].cmd /\ tx'[c].fresh = tx[c].fresh
  BY <1>2, <1>3, <1>5, SnapRow
<1>7. Others(c)
  BY <1>2, <1>4 DEF Others
<1>8. tx' \in [Txs -> Tx \cup {Idle}]
  <2>1. tx' = [d \in Txs |-> tx'[d]]
    BY <1>2, <1>4
  <2>2. \A d \in Txs : tx'[d] \in Tx \cup {Idle}
    BY <1>2, <1>6, <1>7 DEF Others
  <2>3. QED
    BY <2>1, <2>2
<1>9. QED
  BY <1>1, <1>4, <1>6, <1>7, <1>8 DEF Snaps, Goes, SnapshotRoot, pc

\* A row of the root is locked.
LEMMA LockRootRowEffect ==
    ASSUME TypeOK, NEW c \in Txs, LockRootRow(c)
    PROVE  LocksRow(c)
<1>1. c \in Busy /\ tx[c].todo # {} /\ Granted(c)
  BY DEF LockRootRow
<1>2. tx[c] \in Tx /\ tx \in [Txs -> Tx \cup {Idle}] /\ tx[c].todo \in SUBSET Staff
  BY <1>1, BusyTx, TxFields DEF TypeOK
<1>3. Wanted(c) = {Lock("membership", NextRow(c), "update")}
  BY <1>1, WantedRows
<1>3a. Wanted(c) \in SUBSET Rows
  BY <1>1, WantedRows
<1> DEFINE S == tx[c].todo \ {NextRow(c)}
<1>4. S \in SUBSET Staff
  BY <1>2
<1>5. /\ tx' = [tx EXCEPT ![c] = [tx[c] EXCEPT !.todo = tx[c].todo \ {NextRow(c)},
                                               !.locks = @ \cup Wanted(c)]]
      /\ UNCHANGED tables
  BY DEF LockRootRow
<1>6. tx'[c] = Rooted(tx[c], S, Wanted(c))
  BY <1>2, <1>5 DEF Rooted
<1> HIDE DEF S
<1>7. /\ tx'[c] \in Tx /\ tx'[c].pc = tx[c].pc /\ tx'[c].round = tx[c].round
      /\ tx'[c].locks = tx[c].locks \cup Wanted(c) /\ tx'[c].todo = S
      /\ tx'[c].by = tx[c].by /\ tx'[c].cmd = tx[c].cmd /\ tx'[c].fresh = tx[c].fresh
  BY <1>2, <1>3a, <1>4, <1>6, RootRow
<1>8. Others(c)
  BY <1>2, <1>5 DEF Others
<1>9. tx' \in [Txs -> Tx \cup {Idle}]
  <2>1. tx' = [d \in Txs |-> tx'[d]]
    BY <1>2, <1>5
  <2>2. \A d \in Txs : tx'[d] \in Tx \cup {Idle}
    BY <1>2, <1>7, <1>8 DEF Others
  <2>3. QED
    BY <2>1, <2>2
<1>10. Free(c)
  BY <1>1, GrantedFree
<1>11. QED
  BY <1>1, <1>3, <1>5, <1>7, <1>8, <1>9, <1>10 DEF LocksRow, Goes, S

\* The manager is asserted, or refused.
LEMMA AssertEffect ==
    ASSUME TypeOK, NEW c \in Txs, AssertStaffManager(c)
    PROVE  Asserts(c) \/ Drops(c)
<1>1. c \in Busy /\ At(c, "assert") /\ tx[c].todo = {}
  BY DEF AssertStaffManager, Busy, At
<1>2. tx[c].round \in 1..3
  BY <1>1, BusyTx, TxFields
<1>3. CASE Refuse(c)
  BY <1>1, <1>3, RefuseEffect
<1>4. CASE ~Refuse(c)
  <2>1. /\ StaffManager(tx[c].by, tx[c].cmd) /\ Granted(c)
        /\ Go(c, "root", 2) \/ Go(c, "target", tx[c].round)
    BY <1>4 DEF AssertStaffManager
  <2>2. 2 \in 1..3 /\ "root" \in Pcs /\ "target" \in Pcs
    BY DEF Pcs
  <2>3. ASSUME Go(c, "root", 2)
        PROVE  Goes(c, "root", 2, tx[c].todo, tx[c].locks \cup Wanted(c))
    BY <1>1, <2>2, <2>3, GoEffect
  <2>4. ASSUME Go(c, "target", tx[c].round)
        PROVE  Goes(c, "target", tx[c].round, tx[c].todo, tx[c].locks \cup Wanted(c))
    BY <1>1, <1>2, <2>2, <2>4, GoEffect
  <2>5. QED
    BY <1>1, <2>1, <2>3, <2>4, GrantedFree DEF Asserts
<1>5. QED
  BY <1>3, <1>4

\* The target is accepted, or refused.
LEMMA TargetEffect ==
    ASSUME TypeOK, TxShape, NEW c \in Txs, LockTarget(c)
    PROVE  Accepts(c) \/ Drops(c)
<1>1. c \in Busy /\ At(c, "target") /\ Granted(c)
  BY DEF LockTarget, Busy, At
<1>2. tx[c].round \in 1..3 /\ tx[c].todo = {}
  BY <1>1, BusyTx, TxFields DEF TxShape, At, Busy
<1>3. CASE Refuse(c)
  BY <1>1, <1>3, RefuseEffect
<1>4. CASE ~Refuse(c)
  <2> DEFINE a == tx[c].by
             cmd == tx[c].cmd
             r == IF EndsController(a, cmd) THEN 3 ELSE tx[c].round
  <2>1. /\ Acceptable(a, cmd, tx[c].fresh)
        /\ \/ cmd.kind = "binding" /\ Go(c, "check", r)
           \/ cmd.kind # "binding" /\ EndsController(a, cmd) /\ Go(c, "root", 3)
           \/ cmd.kind # "binding" /\ ~EndsController(a, cmd) /\ Go(c, "write", tx[c].round)
    BY <1>4, Zenon DEF LockTarget
  <2>2. r \in 1..3
    BY <1>2
  <2> HIDE DEF r
  <2>3. \/ /\ cmd.kind = "binding"
           /\ Goes(c, "check", r, tx[c].todo, tx[c].locks \cup Wanted(c))
        \/ /\ cmd.kind # "binding" /\ EndsController(a, cmd)
           /\ Goes(c, "root", 3, tx[c].todo, tx[c].locks \cup Wanted(c))
        \/ /\ cmd.kind # "binding" /\ ~EndsController(a, cmd)
           /\ Goes(c, "write", tx[c].round, tx[c].todo, tx[c].locks \cup Wanted(c))
    BY SMTT(30), <1>1, <1>2, <2>1, <2>2, GoEffect DEF Pcs
  <2>4. QED
    BY <1>1, <1>2, <2>1, <2>3, GrantedFree, Zenon DEF Accepts, r
<1>5. QED
  BY <1>3, <1>4

\* The check passes, or refuses.
LEMMA CheckEffect ==
    ASSUME TypeOK, NEW c \in Txs, CheckContinuity(c)
    PROVE  Checks(c) \/ Drops(c)
<1>1. c \in Busy /\ At(c, "check") /\ Granted(c) /\ tx[c].todo = {}
  BY DEF CheckContinuity, Busy, At
<1>2. tx[c].round \in 1..3
  BY <1>1, BusyTx, TxFields
<1>3. CASE Refuse(c)
  BY <1>1, <1>3, RefuseEffect
<1>4. CASE ~Refuse(c)
  <2> DEFINE cmd == tx[c].cmd
  <2>1. /\ \/ tx[c].round < 3
           \/ cmd.kind = "binding" /\ HasController([binding EXCEPT ![cmd.on] = cmd.to])
           \/ cmd.kind # "binding" /\ OtherController(cmd.on)
        /\ Go(c, "write", tx[c].round)
    BY <1>4, Zenon DEF CheckContinuity
  <2>2. Goes(c, "write", tx[c].round, tx[c].todo, tx[c].locks \cup Wanted(c))
    BY <1>1, <1>2, <2>1, GoEffect DEF Pcs
  <2>3. QED
    BY <1>1, <2>1, <2>2, GrantedFree, Zenon DEF Checks
<1>5. QED
  BY <1>3, <1>4

Invites(c) ==
    LET p == tx[c].cmd.on
    IN  /\ Commits(c, {}) /\ tx[c].cmd.kind = "invite" /\ member[p] = "none"
        /\ member' = [member EXCEPT ![p] = "invited"]
        /\ binding' = [binding EXCEPT ![p] = "pending"]
        /\ UNCHANGED <<identity, grants, delegable>>

MovesMember(c) ==
    LET p == tx[c].cmd.on
    IN  /\ Commits(c, {"membership", "binding", "authority"})
        /\ tx[c].cmd.kind = "membership" /\ Lock("binding", p, "update") \in Wanted(c)
        /\ member' = [member EXCEPT ![p] = tx[c].cmd.to]
        /\ binding' = [binding EXCEPT ![p] = tx[c].cmd.to]
        /\ UNCHANGED <<identity, grants, delegable>>

MovesBinding(c) ==
    /\ Commits(c, {"binding", "authority"})
    /\ tx[c].cmd.kind = "binding"
    /\ binding' = [binding EXCEPT ![tx[c].cmd.on] = tx[c].cmd.to]
    /\ UNCHANGED <<member, identity, grants, delegable>>

Replaces(c) ==
    LET p == tx[c].cmd.on
        gone == Removed(tx[c].by, tx[c].cmd)
    IN  /\ \E kinds : Commits(c, kinds)
        /\ tx[c].cmd.kind = "authority"
        /\ grants' = [grants EXCEPT ![p] = (grants[p] \ gone) \cup tx[c].cmd.want]
        /\ delegable' = [delegable EXCEPT ![p] = delegable[p] \ gone]
        /\ UNCHANGED <<member, binding, identity>>

\* The four effects, or a refusal.
LEMMA WriteEffect ==
    ASSUME TypeOK, TxShape, NEW c \in Txs,
           \/ InviteNativeStaff(c) \/ TransitionStaffMembership(c)
           \/ TransitionIdentityBinding(c) \/ ReplaceStaffAuthority(c)
    PROVE  Invites(c) \/ MovesMember(c) \/ MovesBinding(c) \/ Replaces(c) \/ Drops(c)
<1>1. At(c, "write") /\ Granted(c)
  BY DEF InviteNativeStaff, TransitionStaffMembership, TransitionIdentityBinding,
     ReplaceStaffAuthority, Writing
<1>2. c \in Busy /\ Free(c)
  BY <1>1, GrantedFree DEF Busy, At
<1>3. tx[c].todo = {}
  BY <1>1, <1>2 DEF TxShape, At
<1>4. ASSUME NEW kinds, Commit(c, kinds) PROVE Commits(c, kinds)
  BY <1>1, <1>2, <1>4, CommitEffect
<1>5. CASE Refuse(c)
  BY <1>2, <1>5, RefuseEffect
<1>6. CASE InviteNativeStaff(c) /\ ~Refuse(c)
  BY <1>4, <1>6 DEF InviteNativeStaff, Writing, Invites
<1>7. CASE TransitionStaffMembership(c) /\ ~Refuse(c)
  <2>1. Lock("binding", tx[c].cmd.on, "update") \in Wanted(c)
    BY <1>1, <1>3, <1>7 DEF TransitionStaffMembership, Writing, Wanted, At
  <2>2. QED
    BY <1>4, <1>7, <2>1 DEF TransitionStaffMembership, Writing, MovesMember
<1>8. CASE TransitionIdentityBinding(c)
  BY SMTT(30), <1>4, <1>8 DEF TransitionIdentityBinding, Writing, MovesBinding
<1>9. CASE ReplaceStaffAuthority(c)
  <2>1. \E kinds : Commits(c, kinds)
    BY <1>4, <1>9 DEF ReplaceStaffAuthority
  <2>2. QED
    BY <1>9, <2>1 DEF ReplaceStaffAuthority, Writing, Replaces
<1>10. QED
  BY <1>5, <1>6, <1>7, <1>8, <1>9

Quiet(c) == Begins(c) \/ Snaps(c) \/ LocksRow(c) \/ Asserts(c) \/ Accepts(c) \/ Checks(c) \/ Drops(c)
Writes(c) == Invites(c) \/ MovesMember(c) \/ MovesBinding(c) \/ Replaces(c)

\* Every step is one of these.
LEMMA StepCases ==
    ASSUME TypeOK, TxShape, [Next]_vars
    PROVE  \/ \E c \in Txs : Quiet(c) \/ Writes(c)
           \/ \E p \in Staff : DisableNativeIdentity(p)
           \/ UNCHANGED vars
<1>1. ASSUME NEW c \in Txs, NEW a \in Staff, NEW cmd \in Commands, Send(c, a, cmd)
      PROVE  Quiet(c)
  BY <1>1, SendEffect DEF Quiet
<1>2. ASSUME NEW c \in Txs, Step(c) PROVE Quiet(c) \/ Writes(c)
  <2>1. CASE AbortVictim(c)
    <3>1. Refuse(c) /\ c \in Busy
      BY <2>1 DEF AbortVictim, Deadlocked, Granted, Blocks
    <3>2. QED
      BY <3>1, RefuseEffect DEF Quiet
  <2>2. CASE SnapshotRoot(c)
    BY <2>2, SnapshotEffect DEF Quiet
  <2>3. CASE LockRootRow(c)
    BY <2>3, LockRootRowEffect DEF Quiet
  <2>4. CASE AssertStaffManager(c)
    BY <2>4, AssertEffect DEF Quiet
  <2>5. CASE LockTarget(c)
    BY <2>5, TargetEffect DEF Quiet
  <2>6. CASE CheckContinuity(c)
    BY <2>6, CheckEffect DEF Quiet
  <2>7. CASE \/ InviteNativeStaff(c) \/ TransitionStaffMembership(c)
             \/ TransitionIdentityBinding(c) \/ ReplaceStaffAuthority(c)
    BY <2>7, WriteEffect DEF Quiet, Writes
  <2>8. QED
    BY <1>2, <2>1, <2>2, <2>3, <2>4, <2>5, <2>6, <2>7 DEF Step
<1>3. QED
  BY <1>1, <1>2 DEF Next

\* What a step of c leaves of the other transactions.
Frame(c) ==
    \A d \in Txs \ {c} :
        /\ d \in Busy' <=> d \in Busy
        /\ d \in Busy =>
              /\ tx'[d].pc = tx[d].pc /\ tx'[d].round = tx[d].round
              /\ tx'[d].todo = tx[d].todo /\ tx'[d].locks = tx[d].locks
              /\ tx'[d].by = tx[d].by /\ tx'[d].cmd = tx[d].cmd
              /\ tx'[d].fresh => tx[d].fresh

\* Nothing but the freshness of another command changes.
LEMMA FrameStep ==
    ASSUME TypeOK, NEW c \in Txs, Quiet(c) \/ Writes(c)
    PROVE  Frame(c)
<1>1. ASSUME Others(c) PROVE Frame(c)
  BY <1>1 DEF Others, Frame, Busy, At
<1>2. ASSUME NEW kinds, Commits(c, kinds) PROVE Frame(c)
  <2>1. ASSUME NEW d \in Txs \ {c}, d \notin Busy PROVE d \notin Busy'
    BY <1>2, <2>1 DEF Commits, Busy, At
  <2>2. ASSUME NEW d \in Txs \ {c}, d \in Busy PROVE d \in Busy'
    BY SMTT(30), <1>2, <2>2 DEF Commits, Busy, At
  <2>3. QED
    BY <1>2, <2>1, <2>2 DEF Commits, Frame
<1>3. CASE Quiet(c)
  <2>1. ASSUME NEW pc, NEW round, NEW todo, NEW locks, Goes(c, pc, round, todo, locks)
        PROVE  Others(c)
    BY <2>1 DEF Goes
  <2>2. CASE Begins(c) \/ Drops(c)
    BY <1>1, <2>2 DEF Begins, Drops
  <2>3. CASE Snaps(c) \/ LocksRow(c)
    BY <1>1, <2>1, <2>3 DEF Snaps, LocksRow
  <2>4. CASE Asserts(c)
    BY <1>1, <2>1, <2>4 DEF Asserts
  <2>5. CASE Accepts(c)
    BY <1>1, <2>1, <2>5 DEF Accepts
  <2>6. CASE Checks(c)
    BY SMTT(30), <1>1, <2>1, <2>6 DEF Checks
  <2>7. QED
    BY <1>3, <2>2, <2>3, <2>4, <2>5, <2>6 DEF Quiet
<1>4. CASE Writes(c)
  BY <1>2, <1>4 DEF Writes, Invites, MovesMember, MovesBinding, Replaces
<1>5. QED
  BY <1>3, <1>4

\* Where the other transactions have got to does not change.
LEMMA FrameFacts ==
    ASSUME NEW c \in Txs, Frame(c), NEW d \in Txs, d # c
    PROVE  /\ d \in Busy' <=> d \in Busy
           /\ Asserted(d)' <=> Asserted(d)
           /\ Past(d)' <=> Past(d)
           /\ Engaged(d)' => Engaged(d)
           /\ d \in Busy => \A p : Covers(d, p)' <=> Covers(d, p)
<1>1. d \in Txs \ {c}
  OBVIOUS
<1>2. (d \in Busy' <=> d \in Busy) /\ (Asserted(d)' <=> Asserted(d)) /\ (Past(d)' <=> Past(d))
  BY <1>1 DEF Frame, Asserted, Past, At
<1>3. Engaged(d)' => Engaged(d)
  BY <1>1, <1>2 DEF Frame, Engaged, At
<1>4. d \in Busy => \A p : Covers(d, p)' <=> Covers(d, p)
  BY <1>1 DEF Frame, Covers, Lock
<1>5. QED
  BY <1>2, <1>3, <1>4

-----------------------------------------------------------------------------
(* Locks *)

\* Two transactions never hold an exclusive lock of one row together.
LEMMA Exclusion ==
    ASSUME LocksExclusive, NEW c \in Busy, NEW d \in Busy, c # d,
           NEW table, NEW p, NEW mode,
           Lock(table, p, "update") \in tx[c].locks,
           Lock(table, p, mode) \in tx[d].locks
    PROVE  FALSE
<1>1. ~Conflicts(Lock(table, p, "update"), Lock(table, p, mode))
  BY DEF LocksExclusive
<1>2. QED
  BY <1>1 DEF Conflicts, Lock

\* Nor does one wait no longer for a row that another holds.
LEMMA FreeExclusion ==
    ASSUME NEW c \in Busy, Free(c), NEW d \in Busy, c # d, NEW table, NEW p,
           Lock(table, p, "update") \in Wanted(c),
           Lock(table, p, "update") \in tx[d].locks
    PROVE  FALSE
<1>1. ~Conflicts(Lock(table, p, "update"), Lock(table, p, "update"))
  BY DEF Free
<1>2. QED
  BY <1>1 DEF Conflicts, Lock

\* The locks of a step are its own before, and those it waited for.
LEMMA StepLocks ==
    ASSUME TypeOK, NEW c \in Txs, Quiet(c) \/ Writes(c), c \in Busy'
    PROVE  \/ tx'[c].locks = {}
           \/ c \in Busy /\ tx'[c].locks = tx[c].locks
           \/ c \in Busy /\ Free(c) /\ tx'[c].locks = tx[c].locks \cup Wanted(c)
<1>1. tx'[c] # Idle
  BY DEF Busy, At, Idle
<1>2. CASE Begins(c)
  BY <1>2 DEF Begins
<1>3. CASE Snaps(c)
  BY SMTT(30), <1>3 DEF Snaps, Goes
<1>4. CASE LocksRow(c) \/ Asserts(c) \/ Accepts(c) \/ Checks(c)
  BY SMTT(30), <1>4 DEF LocksRow, Asserts, Accepts, Checks, Goes
<1>5. ~Drops(c) /\ ~Writes(c)
  BY <1>1 DEF Drops, Writes, Invites, MovesMember, MovesBinding, Replaces, Commits
<1>6. QED
  BY <1>2, <1>3, <1>4, <1>5 DEF Quiet

\* Locks stay exclusive.
LEMMA LocksExclusiveStep ==
    ASSUME TypeOK, LocksExclusive, NEW c \in Txs, Quiet(c) \/ Writes(c)
    PROVE  LocksExclusive'
<1>1. Frame(c)
  BY FrameStep
<1>2. \A l, k : Conflicts(l, k) <=> Conflicts(k, l)
  BY DEF Conflicts
<1>3. ASSUME NEW d \in Busy', d # c, c \in Busy', NEW l \in tx'[c].locks, NEW k \in tx'[d].locks
      PROVE  ~Conflicts(l, k)
  <2>1. d \in Busy /\ d \in Txs /\ tx'[d].locks = tx[d].locks
    BY <1>1, <1>3 DEF Frame, Busy
  <2>2. \/ tx'[c].locks = {}
        \/ c \in Busy /\ tx'[c].locks = tx[c].locks
        \/ c \in Busy /\ Free(c) /\ tx'[c].locks = tx[c].locks \cup Wanted(c)
    BY <1>3, StepLocks
  <2>3. QED
    BY <1>3, <2>1, <2>2 DEF LocksExclusive, Free
<1>4. ASSUME NEW d \in Busy', NEW e \in Busy', d # c, e # c, d # e,
             NEW l \in tx'[d].locks, NEW k \in tx'[e].locks
      PROVE  ~Conflicts(l, k)
  <2>1. /\ d \in Busy /\ tx'[d].locks = tx[d].locks
        /\ e \in Busy /\ tx'[e].locks = tx[e].locks
    BY <1>1, <1>4 DEF Frame, Busy
  <2>2. QED
    BY <1>4, <2>1 DEF LocksExclusive
<1>5. QED
  BY <1>2, <1>3, <1>4 DEF LocksExclusive, Conflicts

-----------------------------------------------------------------------------
(* The shape of a transaction *)

\* The fields of the transaction that took the step.
LEMMA TxShapeStep ==
    ASSUME TypeOK, TxShape, NEW c \in Txs, Quiet(c) \/ Writes(c)
    PROVE  TxShape'
<1>1. Frame(c)
  BY FrameStep
<1> DEFINE ShapeOf(x) ==
             /\ x.todo # {} => x.pc \in {"assert", "check"}
             /\ x.pc \in {"assert", "target"} => x.round < 3
             /\ x.cmd.kind = "binding" => ~(x.pc = "root" /\ x.round = 3)
             /\ x.pc = "check" => IF x.cmd.kind = "binding" THEN x.todo = {} ELSE x.round = 3
<1>2. TxShape <=> \A d \in Busy : ShapeOf(tx[d])
  BY DEF TxShape, At
<1>3. TxShape' <=> \A d \in Busy' : ShapeOf(tx'[d])
  BY DEF TxShape, At
<1>4. ASSUME NEW d \in Busy', d # c PROVE ShapeOf(tx'[d])
  <2>1. /\ d \in Busy
        /\ tx'[d].pc = tx[d].pc /\ tx'[d].round = tx[d].round
        /\ tx'[d].todo = tx[d].todo /\ tx'[d].cmd = tx[d].cmd
    BY <1>1, <1>4 DEF Frame, Busy
  <2>2. QED
    BY <1>2, <2>1
<1>5. ASSUME c \in Busy' PROVE ShapeOf(tx'[c])
  <2>1. tx'[c] # Idle
    BY <1>5 DEF Busy, At, Idle
  <2>2. CASE Begins(c)
    BY <2>2 DEF Begins
  <2>3. ASSUME c \in Busy PROVE tx[c].round \in 1..3 /\ ShapeOf(tx[c])
    BY <1>2, <2>3, BusyTx, TxFields
  <2>4. CASE Snaps(c)
    BY <2>3, <2>4 DEF Snaps, Goes, At
  <2>5. CASE LocksRow(c)
    BY <2>3, <2>5 DEF LocksRow, Goes
  <2>6. CASE Asserts(c)
    BY <2>3, <2>6 DEF Asserts, Goes, At
  <2>7. CASE Accepts(c)
    BY <2>3, <2>7 DEF Accepts, Goes, At
  <2>8. CASE Checks(c)
    BY SMTT(30), <2>3, <2>8 DEF Checks, Goes, At
  <2>9. ~Drops(c) /\ ~Writes(c)
    BY <2>1 DEF Drops, Writes, Invites, MovesMember, MovesBinding, Replaces, Commits
  <2>10. QED
    BY <2>2, <2>4, <2>5, <2>6, <2>7, <2>8, <2>9 DEF Quiet
<1>6. QED
  BY <1>3, <1>4, <1>5

-----------------------------------------------------------------------------
(* The actor and the target *)

\* The rows of a command, and what its acceptance left true.
LEMMA TargetFacts ==
    ASSUME TargetStands, NEW c \in Txs, Past(c)
    PROVE  /\ tx[c].cmd.kind \in {"membership", "authority"} =>
                Lock("membership", tx[c].cmd.on, "update") \in tx[c].locks
           /\ tx[c].cmd.kind = "authority" => tx[c].cmd.want \subseteq delegable[tx[c].by]
           /\ tx[c].cmd.kind = "binding" =>
                /\ Lock("binding", tx[c].cmd.on, "update") \in tx[c].locks
                /\ tx[c].cmd.to # "revoked" => member[tx[c].cmd.on] = "active"
BY DEF TargetStands

\* A busy transaction's command.
LEMMA CommandOf ==
    ASSUME TypeOK, NEW c \in Busy
    PROVE  /\ tx[c] \in Tx /\ tx[c].by \in Staff /\ tx[c].cmd \in Commands
           /\ tx[c].cmd.on \in Staff /\ tx[c].round \in 1..3
           /\ tx[c].cmd.kind \in {"invite", "membership", "authority", "binding"}
           /\ tx[c].cmd.to \in {"active", "suspended", "revoked"}
           /\ tx[c].cmd.want \subseteq Capabilities
<1>1. tx[c] \in Tx
  BY BusyTx DEF Busy
<1>2. tx[c].by \in Staff /\ tx[c].cmd \in Commands /\ tx[c].round \in 1..3
  BY <1>1, TxFields
<1>3. QED
  BY <1>1, <1>2, StaffAssumption

\* A command that writes has been accepted.
LEMMA WritesFacts ==
    ASSUME TypeOK, TxShape, NEW c \in Txs, Writes(c)
    PROVE  /\ c \in Busy /\ At(c, "write") /\ tx[c].todo = {} /\ Free(c)
           /\ Past(c) /\ Asserted(c) /\ tx'[c] = Idle /\ c \notin Busy'
<1>1. PICK kinds : Commits(c, kinds)
  BY DEF Writes, Invites, MovesMember, MovesBinding, Replaces
<1>2. c \in Busy /\ At(c, "write") /\ Free(c) /\ tx'[c] = Idle
  BY <1>1 DEF Commits
<1>3. tx[c].todo = {}
  BY <1>2 DEF TxShape, At
<1>4. Past(c) /\ Asserted(c) /\ c \notin Busy'
  BY <1>2 DEF Past, Asserted, At, Busy, Idle
<1>5. QED
  BY <1>2, <1>3, <1>4

\* The row of another command's actor is not written: it is locked.
LEMMA ActorUntouched ==
    ASSUME TypeOK, TxShape, LocksExclusive, ActorStands, TargetStands,
           NEW c \in Txs, Writes(c), NEW d \in Txs, d # c, Asserted(d)
    PROVE  /\ member'[tx[d].by] = member[tx[d].by]
           /\ grants'[tx[d].by] = grants[tx[d].by]
           /\ delegable'[tx[d].by] = delegable[tx[d].by]
<1>1. c \in Busy /\ Past(c) /\ d \in Busy /\ tx[d].by \in Staff /\ tx[c].cmd.on \in Staff
  BY WritesFacts, CommandOf DEF Asserted
<1>2. /\ member \in [Staff -> Live \cup {"revoked", "none"}]
      /\ grants \in [Staff -> SUBSET Capabilities]
      /\ delegable \in [Staff -> SUBSET Capabilities]
  BY DEF TypeOK
<1>3. /\ Lock("membership", tx[d].by, "share") \in tx[d].locks
      /\ member[tx[d].by] = "active"
  BY DEF ActorStands, StaffManager
<1>4. tx[c].cmd.kind \in {"membership", "authority"} => tx[c].cmd.on # tx[d].by
  <2>1. SUFFICES ASSUME tx[c].cmd.kind \in {"membership", "authority"}, tx[c].cmd.on = tx[d].by
                 PROVE  FALSE
    OBVIOUS
  <2>2. Lock("membership", tx[c].cmd.on, "update") \in tx[c].locks
    BY <1>1, <2>1, TargetFacts
  <2>3. QED
    BY <1>1, <1>3, <2>1, <2>2, Exclusion
<1>5. CASE Invites(c)
  BY <1>1, <1>2, <1>3, <1>5 DEF Invites
<1>6. CASE MovesMember(c)
  BY <1>1, <1>2, <1>4, <1>6 DEF MovesMember
<1>7. CASE MovesBinding(c)
  BY <1>7 DEF MovesBinding
<1>8. CASE Replaces(c)
  BY <1>1, <1>2, <1>4, <1>8 DEF Replaces
<1>9. QED
  BY <1>5, <1>6, <1>7, <1>8 DEF Writes

\* The rows an assertion locks.
LEMMA AssertWanted ==
    ASSUME NEW c \in Txs, At(c, "assert"), tx[c].todo = {}
    PROVE  Lock("membership", tx[c].by, "share") \in Wanted(c)
BY DEF Wanted, At

\* From its assertion on, the actor of a command is an active member with the
\* capability.
LEMMA ActorStandsStep ==
    ASSUME TypeOK, TxShape, LocksExclusive, ActorStands, TargetStands,
           NEW c \in Txs, Quiet(c) \/ Writes(c)
    PROVE  ActorStands'
<1>1. Frame(c)
  BY FrameStep
<1>2. ASSUME NEW d \in Txs, d # c, Asserted(d)'
      PROVE  /\ Lock("membership", tx[d].by, "share")' \in tx'[d].locks
             /\ StaffManager(tx[d].by, tx[d].cmd)'
  <2>1. /\ Asserted(d) /\ d \in Busy /\ tx'[d].by = tx[d].by /\ tx'[d].cmd = tx[d].cmd
        /\ tx'[d].locks = tx[d].locks
    BY <1>1, <1>2, FrameFacts DEF Frame, Asserted
  <2>2. /\ member'[tx[d].by] = member[tx[d].by]
        /\ grants'[tx[d].by] = grants[tx[d].by]
    <3>1. CASE Quiet(c)
      BY <3>1 DEF Quiet, Begins, Snaps, LocksRow, Asserts, Accepts, Checks, Drops, Goes, tables
    <3>2. CASE Writes(c)
      BY <1>2, <2>1, <3>2, ActorUntouched
    <3>3. QED
      BY SMTT(30), <3>1, <3>2
  <2>3. /\ Lock("membership", tx[d].by, "share") \in tx[d].locks
        /\ StaffManager(tx[d].by, tx[d].cmd)
    BY <2>1 DEF ActorStands
  <2>4. QED
    BY <2>1, <2>2, <2>3 DEF StaffManager, Lock
<1>3. ASSUME Asserted(c)'
      PROVE  /\ Lock("membership", tx[c].by, "share")' \in tx'[c].locks
             /\ StaffManager(tx[c].by, tx[c].cmd)'
  <2>1. c \in Busy' /\ ~Writes(c) /\ ~Drops(c) /\ ~Begins(c)
    BY SMTT(30), <1>3, WritesFacts DEF Asserted, Drops, Begins, Busy, At, Idle
  <2>2. /\ UNCHANGED tables /\ c \in Busy /\ tx'[c].by = tx[c].by /\ tx'[c].cmd = tx[c].cmd
        /\ tx[c].locks \subseteq tx'[c].locks
    BY <2>1 DEF Quiet, Snaps, LocksRow, Asserts, Accepts, Checks, Goes
  <2>3. SUFFICES /\ Lock("membership", tx[c].by, "share") \in tx'[c].locks
                 /\ StaffManager(tx[c].by, tx[c].cmd)
    BY <2>2 DEF StaffManager, Lock, tables
  <2>4. CASE Asserted(c)
    BY <2>2, <2>4 DEF ActorStands
  <2>5. CASE Asserts(c)
    BY <2>5, AssertWanted DEF Asserts, Goes
  <2>6. ASSUME ~Asserted(c), ~Asserts(c) PROVE FALSE
    <3>1. tx[c].pc \in {"root", "assert"} /\ tx[c].round = 1
      BY <2>2, <2>6 DEF Asserted
    <3>2. CASE Snaps(c)
      BY <1>3, <3>1, <3>2 DEF Snaps, Goes, Asserted, At
    <3>3. CASE LocksRow(c)
      BY <1>3, <3>1, <3>3 DEF LocksRow, Goes, Asserted, At
    <3>4. CASE Accepts(c) \/ Checks(c)
      BY <3>1, <3>4 DEF Accepts, Checks, At
    <3>5. QED
      BY <2>1, <2>6, <3>2, <3>3, <3>4 DEF Quiet
  <2>7. QED
    BY <2>4, <2>5, <2>6
<1>4. QED
  BY <1>2, <1>3 DEF ActorStands

\* The rows an acceptance locks.
LEMMA AcceptWanted ==
    ASSUME NEW c \in Txs, At(c, "target"), tx[c].todo = {}
    PROVE  /\ tx[c].cmd.kind \in {"membership", "authority"} =>
                Lock("membership", tx[c].cmd.on, "update") \in Wanted(c)
           /\ tx[c].cmd.kind = "binding" => Lock("binding", tx[c].cmd.on, "update") \in Wanted(c)
BY DEF Wanted, At

\* What an acceptance leaves true.
LEMMA AcceptFacts ==
    ASSUME TypeOK, BindingFollowsMember, InvitedIsPending, NEW c \in Busy,
           Acceptable(tx[c].by, tx[c].cmd, tx[c].fresh)
    PROVE  /\ tx[c].cmd.kind # "invite" => tx[c].fresh
           /\ tx[c].cmd.kind = "authority" => tx[c].cmd.want \subseteq delegable[tx[c].by]
           /\ tx[c].cmd.kind = "binding" /\ tx[c].cmd.to # "revoked" =>
                member[tx[c].cmd.on] = "active"
<1>1. /\ tx[c].cmd.on \in Staff
      /\ tx[c].cmd.kind \in {"invite", "membership", "authority", "binding"}
      /\ tx[c].cmd.to \in {"active", "suspended", "revoked"}
  BY CommandOf
<1>2. tx[c].cmd.kind # "invite" => tx[c].fresh
  BY <1>1 DEF Acceptable
<1>3. tx[c].cmd.kind = "authority" => tx[c].cmd.want \subseteq delegable[tx[c].by]
  BY DEF Acceptable
<1>4. ASSUME tx[c].cmd.kind = "binding", tx[c].cmd.to = "active"
      PROVE  member[tx[c].cmd.on] = "active"
  <2>1. /\ binding[tx[c].cmd.on] = "suspended"
        /\ GuardIdentityBinding(binding[tx[c].cmd.on], "active",
                                member[tx[c].cmd.on] \in {"invited", "active"})
    BY <1>4 DEF Acceptable, BindingFrom
  <2>2. member[tx[c].cmd.on] \in {"invited", "active"}
    BY <2>1 DEF GuardIdentityBinding
  <2>3. QED
    BY <1>1, <2>1, <2>2 DEF InvitedIsPending
<1>5. ASSUME tx[c].cmd.kind = "binding", tx[c].cmd.to = "suspended"
      PROVE  member[tx[c].cmd.on] = "active"
  <2>1. binding[tx[c].cmd.on] = "active"
    BY <1>5 DEF Acceptable, BindingFrom
  <2>2. QED
    BY <1>1, <2>1 DEF BindingFollowsMember
<1>6. QED
  BY <1>1, <1>2, <1>3, <1>4, <1>5

\* The target of another command that was accepted is not moved: its
\* membership row is locked, or its binding.
LEMMA TargetUntouched ==
    ASSUME TypeOK, TxShape, LocksExclusive, TargetStands,
           NEW c \in Txs, MovesMember(c), NEW d \in Txs, d # c, Past(d),
           tx[d].cmd.kind # "invite"
    PROVE  tx[d].cmd.on # tx[c].cmd.on
<1>1. SUFFICES ASSUME tx[d].cmd.on = tx[c].cmd.on PROVE FALSE
  OBVIOUS
<1>2. /\ c \in Busy /\ Past(c) /\ Free(c) /\ tx[c].cmd.kind = "membership"
      /\ Lock("binding", tx[c].cmd.on, "update") \in Wanted(c)
  BY WritesFacts DEF MovesMember, Writes
<1>3. d \in Busy /\ tx[d].cmd.kind \in {"membership", "authority", "binding"}
  BY CommandOf DEF Past
<1>4. CASE tx[d].cmd.kind = "binding"
  BY <1>1, <1>2, <1>3, <1>4, TargetFacts, FreeExclusion
<1>5. CASE tx[d].cmd.kind \in {"membership", "authority"}
  BY <1>1, <1>2, <1>3, <1>5, TargetFacts, Exclusion
<1>6. QED
  BY <1>3, <1>4, <1>5

\* From its acceptance on, the target of a command stays what was accepted.
LEMMA TargetStandsStep ==
    ASSUME TypeOK, TxShape, BindingFollowsMember, InvitedIsPending, LocksExclusive,
           ActorStands, TargetStands, NEW c \in Txs, Quiet(c) \/ Writes(c)
    PROVE  TargetStands'
<1>1. Frame(c)
  BY FrameStep
<1>2. ASSUME NEW d \in Txs, d # c, Past(d)'
      PROVE  /\ tx'[d].cmd.kind \in {"membership", "authority"} =>
                  Lock("membership", tx'[d].cmd.on, "update") \in tx'[d].locks
             /\ tx'[d].cmd.kind = "authority" => tx'[d].cmd.want \subseteq delegable'[tx'[d].by]
             /\ tx'[d].cmd.kind = "binding" =>
                  /\ Lock("binding", tx'[d].cmd.on, "update") \in tx'[d].locks
                  /\ tx'[d].cmd.to # "revoked" => member'[tx'[d].cmd.on] = "active"
  <2>1. /\ Past(d) /\ d \in Busy /\ tx'[d].by = tx[d].by /\ tx'[d].cmd = tx[d].cmd
        /\ tx'[d].locks = tx[d].locks /\ tx[d].cmd.on \in Staff
    BY <1>1, <1>2, FrameFacts, CommandOf DEF Frame, Past
  <2>2. Asserted(d)
    BY <2>1 DEF Past, Asserted
  <2>3. delegable'[tx[d].by] = delegable[tx[d].by]
    <3>1. CASE Quiet(c)
      BY <3>1 DEF Quiet, Begins, Snaps, LocksRow, Asserts, Accepts, Checks, Drops, Goes, tables
    <3>2. CASE Writes(c)
      BY <1>2, <2>2, <3>2, ActorUntouched
    <3>3. QED
      BY SMTT(30), <3>1, <3>2
  <2>4. tx[d].cmd.kind = "binding" /\ member[tx[d].cmd.on] = "active" =>
          member'[tx[d].cmd.on] = "active"
    <3>1. CASE Quiet(c)
      BY <3>1 DEF Quiet, Begins, Snaps, LocksRow, Asserts, Accepts, Checks, Drops, Goes, tables
    <3>2. CASE MovesMember(c)
      <4>1. tx[d].cmd.kind = "binding" => tx[d].cmd.on # tx[c].cmd.on
        BY <1>2, <2>1, <3>2, TargetUntouched
      <4>2. member' = [member EXCEPT ![tx[c].cmd.on] = tx[c].cmd.to]
        BY <3>2 DEF MovesMember
      <4>3. QED
        BY <2>1, <4>1, <4>2 DEF TypeOK
    <3>3. CASE Invites(c)
      BY <2>1, <3>3 DEF Invites, TypeOK
    <3>4. CASE MovesBinding(c) \/ Replaces(c)
      BY <3>4 DEF MovesBinding, Replaces
    <3>5. QED
      BY SMTT(30), <3>1, <3>2, <3>3, <3>4 DEF Writes
  <2>5. QED
    BY <2>1, <2>3, <2>4, TargetFacts
<1>3. ASSUME Past(c)'
      PROVE  /\ tx'[c].cmd.kind \in {"membership", "authority"} =>
                  Lock("membership", tx'[c].cmd.on, "update") \in tx'[c].locks
             /\ tx'[c].cmd.kind = "authority" => tx'[c].cmd.want \subseteq delegable'[tx'[c].by]
             /\ tx'[c].cmd.kind = "binding" =>
                  /\ Lock("binding", tx'[c].cmd.on, "update") \in tx'[c].locks
                  /\ tx'[c].cmd.to # "revoked" => member'[tx'[c].cmd.on] = "active"
  <2>1. c \in Busy' /\ ~Writes(c) /\ ~Drops(c) /\ ~Begins(c)
    BY <1>3, WritesFacts DEF Past, Drops, Begins, Busy, At, Idle
  <2>2. /\ UNCHANGED tables /\ c \in Busy /\ tx'[c].by = tx[c].by /\ tx'[c].cmd = tx[c].cmd
        /\ tx[c].locks \subseteq tx'[c].locks
    BY <2>1 DEF Quiet, Snaps, LocksRow, Asserts, Accepts, Checks, Goes
  <2>3. member' = member /\ delegable' = delegable
    BY <2>2 DEF tables
  <2>4. CASE Past(c)
    BY <2>2, <2>3, <2>4, TargetFacts
  <2>5. CASE Accepts(c)
    <3>1. /\ At(c, "target") /\ tx[c].todo = {} /\ Acceptable(tx[c].by, tx[c].cmd, tx[c].fresh)
          /\ Wanted(c) \subseteq tx'[c].locks
      BY <2>5 DEF Accepts, Goes
    <3>2. QED
      BY <2>2, <2>3, <3>1, AcceptWanted, AcceptFacts
  <2>6. ASSUME ~Past(c), ~Accepts(c) PROVE FALSE
    <3>1. CASE Snaps(c)
      BY <1>3, <2>2, <2>6, <3>1 DEF Snaps, Goes, Past, At
    <3>2. CASE LocksRow(c)
      BY <1>3, <2>2, <2>6, <3>2 DEF LocksRow, Goes, Past, At
    <3>3. CASE Checks(c)
      BY <2>2, <2>6, <3>3 DEF Checks, Past, At
    <3>4. CASE Asserts(c)
      <4>1. tx[c].round < 3
        BY <2>2, <3>4 DEF Asserts, TxShape, At
      <4>2. QED
        BY <1>3, <3>4, <4>1 DEF Asserts, Goes, Past, At
    <3>5. QED
      BY <2>1, <2>6, <3>1, <3>2, <3>3, <3>4 DEF Quiet
  <2>7. QED
    BY <2>4, <2>5, <2>6
<1>4. QED
  BY <1>2, <1>3 DEF TargetStands, Lock

\* A member's binding follows its membership.
LEMMA BindingStep ==
    ASSUME TypeOK, TxShape, BindingFollowsMember, InvitedIsPending, TargetStands,
           NEW c \in Txs, Quiet(c) \/ Writes(c)
    PROVE  BindingFollowsMember' /\ InvitedIsPending'
<1>1. CASE Quiet(c)
  <2>1. UNCHANGED tables
    BY <1>1 DEF Quiet, Begins, Snaps, LocksRow, Asserts, Accepts, Checks, Drops, Goes
  <2>2. QED
    BY SMTT(30), <2>1 DEF tables, BindingFollowsMember, InvitedIsPending
<1>2. CASE Writes(c)
  <2>1. /\ c \in Busy /\ Past(c) /\ tx[c].cmd.on \in Staff
        /\ tx[c].cmd.to \in {"active", "suspended", "revoked"}
    BY <1>2, WritesFacts, CommandOf
  <2>2. /\ member \in [Staff -> Live \cup {"revoked", "none"}]
        /\ binding \in [Staff -> {"none", "pending", "active", "suspended", "revoked"}]
    BY DEF TypeOK
  <2>3. CASE Invites(c)
    BY <2>1, <2>2, <2>3 DEF Invites, BindingFollowsMember, InvitedIsPending
  <2>4. CASE MovesMember(c)
    BY <2>1, <2>2, <2>4 DEF MovesMember, BindingFollowsMember, InvitedIsPending
  <2>5. CASE MovesBinding(c)
    <3>1. tx[c].cmd.to # "revoked" => member[tx[c].cmd.on] = "active"
      BY <2>1, <2>5, TargetFacts DEF MovesBinding
    <3>2. QED
      BY <2>1, <2>2, <2>5, <3>1 DEF MovesBinding, BindingFollowsMember, InvitedIsPending
  <2>6. CASE Replaces(c)
    BY <2>6 DEF Replaces, BindingFollowsMember, InvitedIsPending
  <2>7. QED
    BY <1>2, <2>3, <2>4, <2>5, <2>6 DEF Writes
<1>3. QED
  BY <1>1, <1>2

-----------------------------------------------------------------------------
(* The rows of the root *)

\* A step engages no command of another transaction and gives none of them an
\* active target.
LEMMA EngagedStep ==
    ASSUME TypeOK, TxShape, LocksExclusive, TargetStands, NEW c \in Txs, Quiet(c) \/ Writes(c),
           NEW d \in Txs, d # c, Engaged(d)', member'[tx'[d].cmd.on] = "active"
    PROVE  /\ Engaged(d) /\ tx'[d].cmd = tx[d].cmd /\ member[tx[d].cmd.on] = "active"
           /\ \A p : Covers(d, p)' <=> Covers(d, p)
<1>1. Frame(c)
  BY FrameStep
<1>2. /\ Engaged(d) /\ d \in Busy /\ tx'[d].cmd = tx[d].cmd
      /\ (Past(d)' <=> Past(d))
      /\ \A p : Covers(d, p)' <=> Covers(d, p)
  BY <1>1, FrameFacts DEF Engaged, Frame
<1>3. tx[d].cmd.on \in Staff /\ tx[d].cmd.kind \in {"membership", "authority", "binding"}
  BY <1>2, CommandOf DEF Engaged
<1>4. member[tx[d].cmd.on] = "active"
  <2>1. CASE Quiet(c)
    <3>1. UNCHANGED tables
      BY <2>1 DEF Quiet, Begins, Snaps, LocksRow, Asserts, Accepts, Checks, Drops, Goes
    <3>2. QED
      BY SMTT(30), <1>2, <3>1 DEF tables
  <2>2. CASE Invites(c)
    BY <1>2, <1>3, <2>2 DEF Invites, TypeOK
  <2>3. CASE MovesBinding(c) \/ Replaces(c)
    BY <1>2, <2>3 DEF MovesBinding, Replaces
  <2>4. CASE MovesMember(c)
    <3>1. tx[d].cmd.on # tx[c].cmd.on
      <4>1. CASE Past(d)
        BY <1>3, <2>4, <4>1, TargetUntouched
      <4>2. CASE ~Past(d)
        <5>1. tx'[d].fresh
          BY <1>2, <4>2 DEF Engaged
        <5>2. Commits(c, {"membership", "binding", "authority"})
          BY <2>4 DEF MovesMember
        <5>3. QED
          BY <1>2, <1>3, <5>1, <5>2 DEF Commits
      <4>3. QED
        BY <4>1, <4>2
    <3>2. QED
      BY <1>2, <1>3, <2>4, <3>1 DEF MovesMember, TypeOK
  <2>5. QED
    BY <2>1, <2>2, <2>3, <2>4 DEF Writes
<1>5. QED
  BY <1>2, <1>4

\* The transaction that took the step: it has just taken a snapshot of all
\* active members, or it was engaged before and still covers what it did.
LEMMA EngagedOwn ==
    ASSUME TypeOK, TxShape, BindingFollowsMember, InvitedIsPending,
           NEW c \in Txs, Quiet(c) \/ Writes(c), Engaged(c)'
    PROVE  /\ UNCHANGED tables /\ tx'[c].cmd = tx[c].cmd
           /\ \/ \A p \in Active : Covers(c, p)'
              \/ Engaged(c) /\ \A p : Covers(c, p) => Covers(c, p)'
<1>1. c \in Busy' /\ ~Writes(c) /\ ~Drops(c) /\ ~Begins(c)
  BY WritesFacts DEF Engaged, Past, Drops, Begins, Busy, At, Idle
<1>2. /\ UNCHANGED tables /\ c \in Busy /\ tx'[c].cmd = tx[c].cmd
      /\ tx'[c].fresh = tx[c].fresh
      /\ tx[c].locks \subseteq tx'[c].locks
  BY <1>1 DEF Quiet, Snaps, LocksRow, Asserts, Accepts, Checks, Goes
<1>3. CASE Snaps(c)
  <2>1. tx'[c].todo = Active
    BY <1>3 DEF Snaps, Goes
  <2>2. QED
    BY <1>2, <2>1 DEF Covers
<1>4. CASE LocksRow(c)
  <2>1. /\ tx'[c].todo = tx[c].todo \ {NextRow(c)} /\ tx'[c].pc = tx[c].pc
        /\ tx'[c].round = tx[c].round
        /\ Lock("membership", NextRow(c), "update") \in tx'[c].locks
    BY <1>4 DEF LocksRow, Goes
  <2>2. \A p : Covers(c, p) => Covers(c, p)'
    BY <1>2, <2>1 DEF Covers, Lock
  <2>3. Past(c)' <=> Past(c)
    BY <1>1, <1>2, <2>1 DEF Past, At
  <2>4. Engaged(c)
    BY <1>1, <1>2, <2>1, <2>3 DEF Engaged, At
  <2>5. QED
    BY <1>2, <2>2, <2>4
<1>5. CASE Asserts(c) \/ Accepts(c) \/ Checks(c)
  <2>1. tx[c].todo = {} /\ tx'[c].todo = {}
    BY <1>5 DEF Asserts, Accepts, Checks, Goes
  <2>2. \A p : Covers(c, p) => Covers(c, p)'
    BY <1>2, <2>1 DEF Covers, Lock
  <2>3. CASE Checks(c)
    BY <1>2, <2>2, <2>3 DEF Checks, Engaged, Past, At
  <2>4. CASE Accepts(c)
    <3>1. tx[c].fresh
      BY <1>2, <2>4, AcceptFacts DEF Accepts, Engaged
    <3>2. QED
      BY <1>2, <2>2, <2>4, <3>1 DEF Accepts, Engaged, At
  <2>5. CASE Asserts(c)
    <3>1. At(c, "assert") /\ tx[c].round < 3
      BY <1>2, <2>5 DEF Asserts, TxShape, At
    <3>2. ~Past(c)'
      BY <2>5, <3>1 DEF Asserts, Goes, Past, At
    <3>3. tx[c].fresh /\ tx[c].cmd.kind # "invite"
      BY <1>2, <3>2 DEF Engaged
    <3>4. QED
      BY <1>2, <2>2, <3>1, <3>3 DEF Engaged, At
  <2>6. QED
    BY SMTT(30), <1>5, <2>3, <2>4, <2>5
<1>6. QED
  BY <1>1, <1>3, <1>4, <1>5 DEF Quiet

\* Of two engaged commands with active targets, the one whose snapshot came
\* second has to lock both rows.
LEMMA TargetsCoveredStep ==
    ASSUME TypeOK, TxShape, BindingFollowsMember, InvitedIsPending, LocksExclusive,
           TargetStands, TargetsCovered, NEW c \in Txs, Quiet(c) \/ Writes(c)
    PROVE  TargetsCovered'
<1>1. ASSUME NEW d \in Txs, d # c, Engaged(d)', member'[tx'[d].cmd.on] = "active"
      PROVE  /\ Engaged(d) /\ tx'[d].cmd = tx[d].cmd /\ member[tx[d].cmd.on] = "active"
             /\ \A p : Covers(d, p)' <=> Covers(d, p)
  BY <1>1, EngagedStep
<1>2. ASSUME Engaged(c)', member'[tx'[c].cmd.on] = "active"
      PROVE  /\ UNCHANGED tables /\ tx'[c].cmd = tx[c].cmd
             /\ member[tx[c].cmd.on] = "active" /\ tx[c].cmd.on \in Active
             /\ \/ \A p \in Active : Covers(c, p)'
                \/ Engaged(c) /\ \A p : Covers(c, p) => Covers(c, p)'
  <2>1. /\ UNCHANGED tables /\ tx'[c].cmd = tx[c].cmd
        /\ \/ \A p \in Active : Covers(c, p)'
           \/ Engaged(c) /\ \A p : Covers(c, p) => Covers(c, p)'
    BY <1>2, EngagedOwn
  <2>2. member[tx[c].cmd.on] = "active"
    BY SMTT(30), <1>2, <2>1 DEF tables
  <2>3. c \in Busy
    BY <1>2, WritesFacts DEF Engaged, Quiet, Begins, Snaps, LocksRow, Asserts, Accepts, Checks,
       Drops, Goes, At, Past
  <2>4. tx[c].cmd.on \in Active
    BY <2>2, <2>3, CommandOf DEF Active
  <2>5. QED
    BY <2>1, <2>2, <2>4
<1>3. ASSUME NEW d \in Txs, d # c, Engaged(d)', member'[tx'[d].cmd.on] = "active"
      PROVE  Covers(d, tx[d].cmd.on)'
  BY <1>1, <1>3 DEF TargetsCovered, Covers, Lock
<1>4. ASSUME Engaged(c)', member'[tx'[c].cmd.on] = "active"
      PROVE  Covers(c, tx[c].cmd.on)'
  BY <1>2, <1>4 DEF TargetsCovered, Covers, Lock
<1>5. ASSUME NEW d \in Txs, NEW e \in Txs, d # c, e # c, d # e,
             Engaged(d)', member'[tx'[d].cmd.on] = "active",
             Engaged(e)', member'[tx'[e].cmd.on] = "active"
      PROVE  Covers(d, tx[e].cmd.on)' \/ Covers(e, tx[d].cmd.on)'
  BY <1>1, <1>5 DEF TargetsCovered, Covers, Lock
<1>6. ASSUME NEW d \in Txs, d # c, Engaged(d)', member'[tx'[d].cmd.on] = "active",
             Engaged(c)', member'[tx'[c].cmd.on] = "active"
      PROVE  Covers(d, tx[c].cmd.on)' \/ Covers(c, tx[d].cmd.on)'
  <2>1. d \in Busy /\ tx[d].cmd.on \in Active
    BY <1>1, <1>6, CommandOf DEF Engaged, Active
  <2>2. QED
    BY <1>1, <1>2, <1>6, <2>1 DEF TargetsCovered, Covers, Lock
<1>7. QED
  BY <1>3, <1>4, <1>5, <1>6 DEF TargetsCovered

\* Of two commands that have locked what they had to, one has a target that is
\* not active.
LEMMA OneActiveTarget ==
    ASSUME LocksExclusive, TargetsCovered, NEW c \in Busy, NEW d \in Busy, c # d,
           Past(c), tx[c].cmd.kind # "invite", tx[c].todo = {},
           member[tx[c].cmd.on] = "active",
           Past(d), tx[d].cmd.kind # "invite", tx[d].todo = {},
           member[tx[d].cmd.on] = "active"
    PROVE  FALSE
<1>1. c \in Txs /\ d \in Txs
  BY DEF Busy
<1>2. Engaged(c) /\ Engaged(d)
  BY DEF Engaged, Past, At
<1>3. Covers(c, tx[c].cmd.on) /\ Covers(d, tx[d].cmd.on)
  BY <1>1, <1>2 DEF TargetsCovered
<1>4. Covers(c, tx[d].cmd.on) \/ Covers(d, tx[c].cmd.on)
  BY <1>1, <1>2 DEF TargetsCovered
<1>5. QED
  BY <1>3, <1>4, Exclusion DEF Covers

-----------------------------------------------------------------------------
(* Continuity *)

\* A write touches the rows of its target only.
LEMMA OnlyTarget ==
    ASSUME TypeOK, NEW c \in Txs, Writes(c), NEW q \in Staff, q # tx[c].cmd.on
    PROVE  /\ member'[q] = member[q] /\ binding'[q] = binding[q] /\ identity'[q] = identity[q]
           /\ grants'[q] = grants[q] /\ delegable'[q] = delegable[q]
<1>1. CASE Invites(c)
  BY <1>1 DEF Invites, TypeOK
<1>2. CASE MovesMember(c)
  BY <1>2 DEF MovesMember, TypeOK
<1>3. CASE MovesBinding(c)
  BY <1>3 DEF MovesBinding, TypeOK
<1>4. CASE Replaces(c)
  BY <1>4 DEF Replaces, TypeOK
<1>5. QED
  BY <1>1, <1>2, <1>3, <1>4 DEF Writes

\* So another controller stays one.
LEMMA OthersStay ==
    ASSUME TypeOK, NEW c \in Txs, Writes(c), NEW q \in Staff, q # tx[c].cmd.on,
           EffectiveController(q, binding)
    PROVE  EffectiveController(q, binding)'
<1>1. /\ member'[q] = member[q] /\ binding'[q] = binding[q] /\ identity'[q] = identity[q]
      /\ grants'[q] = grants[q]
  BY OnlyTarget
<1>2. QED
  BY <1>1 DEF EffectiveController

\* A harmless write leaves its own target a controller if it was one.
LEMMA HarmlessStays ==
    ASSUME TypeOK, NEW c \in Busy, Writes(c), Harmless(c),
           NEW p \in Staff, p = tx[c].cmd.on, EffectiveController(p, binding)
    PROVE  EffectiveController(p, binding)'
<1>1. identity' = identity
  BY DEF Writes, Invites, MovesMember, MovesBinding, Replaces
<1>2. /\ member[p] = "active" /\ Controller \subseteq grants[p]
      /\ binding[p] = "active" /\ identity[p] = "active"
  BY DEF EffectiveController
<1>3. /\ member \in [Staff -> Live \cup {"revoked", "none"}]
      /\ binding \in [Staff -> {"none", "pending", "active", "suspended", "revoked"}]
      /\ grants \in [Staff -> SUBSET Capabilities]
  BY DEF TypeOK
<1>4. ~Invites(c)
  BY <1>2 DEF Invites
<1>5. CASE MovesMember(c)
  <2>1. tx[c].cmd.to = "active"
    BY <1>5 DEF MovesMember, Harmless
  <2>2. member'[p] = "active" /\ binding'[p] = "active" /\ grants' = grants
    BY <1>1, <1>3, <1>5, <2>1 DEF MovesMember
  <2>3. QED
    BY <1>1, <1>2, <2>2 DEF EffectiveController
<1>6. CASE MovesBinding(c)
  <2>1. tx[c].cmd.to = "active"
    BY <1>6 DEF MovesBinding, Harmless
  <2>2. member'[p] = "active" /\ binding'[p] = "active" /\ grants' = grants
    BY <1>1, <1>2, <1>3, <1>6, <2>1 DEF MovesBinding
  <2>3. QED
    BY <1>1, <1>2, <2>2 DEF EffectiveController
<1>7. CASE Replaces(c)
  <2>1. Removed(tx[c].by, tx[c].cmd) \cap Controller = {}
    BY <1>7 DEF Replaces, Harmless
  <2>2. grants'[p] = (grants[p] \ Removed(tx[c].by, tx[c].cmd)) \cup tx[c].cmd.want
    BY <1>1, <1>3, <1>7 DEF Replaces
  <2>3. Controller \subseteq grants'[p]
    BY <1>2, <2>1, <2>2
  <2>4. member' = member /\ binding' = binding
    BY <1>7 DEF Replaces
  <2>5. QED
    BY <1>1, <1>2, <2>3, <2>4 DEF EffectiveController
<1>8. QED
  BY <1>4, <1>5, <1>6, <1>7 DEF Writes

\* A command whose check, if it needs one, has passed.
Cleared(c) == At(c, "write") \/ (At(c, "check") /\ tx[c].round < 3)

Remains(c) ==
    \/ Harmless(c)
    \/ member[tx[c].cmd.on] # "active"
    \/ OtherController(tx[c].cmd.on)

\* A command that has been cleared holds all the locks of the root.
LEMMA ClearedFacts ==
    ASSUME TypeOK, TxShape, NEW c \in Busy, Cleared(c)
    PROVE  Past(c) /\ Asserted(c) /\ tx[c].todo = {}
<1>1. Past(c) /\ Asserted(c)
  BY DEF Cleared, Past, Asserted, At
<1>2. tx[c].round \in 1..3
  BY CommandOf
<1>3. tx[c].todo = {}
  BY <1>2 DEF Cleared, TxShape, At
<1>4. QED
  BY <1>1, <1>3

\* Another command's write does not make a harmless command harmful.
LEMMA HarmlessKept ==
    ASSUME TypeOK, TxShape, LocksExclusive, ActorStands, TargetStands, NEW c \in Txs, Writes(c),
           NEW d \in Busy, d # c, Past(d), Asserted(d), Harmless(d),
           tx'[d].cmd = tx[d].cmd, tx'[d].by = tx[d].by
    PROVE  Harmless(d)'
<1>1. CASE tx[d].cmd.kind = "authority" /\ Removed(tx[d].by, tx[d].cmd) \cap Controller = {}
  <2>1. /\ c \in Busy /\ Past(c) /\ tx[c].cmd.on \in Staff /\ tx[d].cmd.on \in Staff /\ d \in Txs
    BY WritesFacts, CommandOf DEF Busy
  <2>2. delegable'[tx[d].by] = delegable[tx[d].by]
    BY <2>1, ActorUntouched
  <2>3. grants'[tx[d].cmd.on] = grants[tx[d].cmd.on]
    <3>1. CASE Replaces(c)
      <4>1. /\ tx[c].cmd.kind = "authority"
            /\ Lock("membership", tx[c].cmd.on, "update") \in tx[c].locks
        BY <2>1, <3>1, TargetFacts DEF Replaces
      <4>2. Lock("membership", tx[d].cmd.on, "update") \in tx[d].locks
        BY <1>1, <2>1, TargetFacts
      <4>3. tx[c].cmd.on # tx[d].cmd.on
        BY <2>1, <4>1, <4>2, Exclusion
      <4>4. QED
        BY <2>1, <4>3, OnlyTarget
    <3>2. CASE Invites(c) \/ MovesMember(c) \/ MovesBinding(c)
      BY <3>2 DEF Invites, MovesMember, MovesBinding
    <3>3. QED
      BY <3>1, <3>2 DEF Writes
  <2>4. QED
    BY <1>1, <2>2, <2>3 DEF Harmless, Removed
<1>2. CASE \/ tx[d].cmd.kind = "invite"
           \/ tx[d].cmd.kind \in {"membership", "binding"} /\ tx[d].cmd.to = "active"
  BY <1>2 DEF Harmless
<1>3. QED
  BY <1>1, <1>2 DEF Harmless

\* Nor does it take away the controller that remains: of two such commands, one
\* has a target that is not active, and so is no controller.
LEMMA RemainsKept ==
    ASSUME TypeOK, TxShape, LocksExclusive, ActorStands, TargetStands, TargetsCovered,
           NEW c \in Txs, Writes(c), NEW d \in Busy, d # c, Cleared(d), Remains(d),
           tx'[d].cmd = tx[d].cmd, tx'[d].by = tx[d].by
    PROVE  Remains(d)'
<1>1. Past(d) /\ Asserted(d) /\ tx[d].todo = {} /\ d \in Txs
  BY ClearedFacts DEF Busy
<1>2. /\ c \in Busy /\ Past(c) /\ tx[c].todo = {}
      /\ tx[c].cmd.on \in Staff /\ tx[d].cmd.on \in Staff
  BY WritesFacts, CommandOf
<1>3. CASE Harmless(d)
  BY <1>1, <1>3, HarmlessKept DEF Remains
<1>4. CASE member[tx[d].cmd.on] # "active" /\ ~Harmless(d)
  <2>1. member'[tx[d].cmd.on] # "active"
    <3>1. CASE MovesMember(c)
      <4>1. tx[d].cmd.on # tx[c].cmd.on
        BY <1>1, <1>4, <3>1, TargetUntouched DEF Harmless
      <4>2. QED
        BY <1>2, <1>4, <4>1, OnlyTarget
    <3>2. CASE Invites(c)
      BY <1>2, <1>4, <3>2 DEF Invites, TypeOK
    <3>3. CASE MovesBinding(c) \/ Replaces(c)
      BY <1>4, <3>3 DEF MovesBinding, Replaces
    <3>4. QED
      BY <3>1, <3>2, <3>3 DEF Writes
  <2>2. QED
    BY <2>1 DEF Remains
<1>5. CASE /\ member[tx[d].cmd.on] = "active" /\ ~Harmless(d)
           /\ OtherController(tx[d].cmd.on)
  <2>1. PICK q \in Staff \ {tx[d].cmd.on} : EffectiveController(q, binding)
    BY <1>5 DEF OtherController
  <2>2. member[tx[c].cmd.on] # "active"
    <3>1. CASE tx[c].cmd.kind = "invite"
      BY <3>1 DEF Writes, Invites, MovesMember, MovesBinding, Replaces
    <3>2. CASE tx[c].cmd.kind # "invite"
      BY <1>1, <1>2, <1>5, <3>2, OneActiveTarget DEF Harmless
    <3>3. QED
      BY <3>1, <3>2
  <2>3. q # tx[c].cmd.on
    BY <2>1, <2>2 DEF EffectiveController
  <2>4. EffectiveController(q, binding)'
    BY <2>1, <2>3, OthersStay
  <2>5. OtherController(tx[d].cmd.on)'
    BY <2>1, <2>4 DEF OtherController
  <2>6. QED
    BY <2>5 DEF Remains
<1>6. QED
  BY <1>3, <1>4, <1>5 DEF Remains

\* A command that cannot end a controller, or whose target is not one.
LEMMA NotEnding ==
    ASSUME TypeOK, HasController(binding), NEW c \in Busy, ~EndsController(tx[c].by, tx[c].cmd)
    PROVE  Harmless(c) \/ OtherController(tx[c].cmd.on)
<1>1. tx[c].cmd.kind \in {"invite", "membership", "authority", "binding"}
  BY CommandOf
<1>2. ~EffectiveController(tx[c].cmd.on, binding) \/ Harmless(c)
  BY <1>1 DEF EndsController, Harmless, EffectiveController
<1>3. PICK q \in Staff : EffectiveController(q, binding)
  BY DEF HasController
<1>4. QED
  BY <1>2, <1>3 DEF OtherController

\* The check of a command that may end a controller.
LEMMA CheckPassed ==
    ASSUME TypeOK, NEW c \in Busy,
           \/ /\ tx[c].cmd.kind = "binding"
              /\ HasController([binding EXCEPT ![tx[c].cmd.on] = tx[c].cmd.to])
           \/ tx[c].cmd.kind # "binding" /\ OtherController(tx[c].cmd.on)
    PROVE  Harmless(c) \/ OtherController(tx[c].cmd.on)
<1>1. CASE /\ tx[c].cmd.kind = "binding"
           /\ HasController([binding EXCEPT ![tx[c].cmd.on] = tx[c].cmd.to])
  <2>1. PICK q \in Staff : EffectiveController(q, [binding EXCEPT ![tx[c].cmd.on] = tx[c].cmd.to])
    BY <1>1 DEF HasController
  <2>2. binding \in [Staff -> {"none", "pending", "active", "suspended", "revoked"}]
    BY DEF TypeOK
  <2>3. q = tx[c].cmd.on => tx[c].cmd.to = "active"
    BY <2>1, <2>2 DEF EffectiveController
  <2>4. q # tx[c].cmd.on => EffectiveController(q, binding)
    BY <2>1, <2>2 DEF EffectiveController
  <2>5. QED
    BY <1>1, <2>1, <2>3, <2>4 DEF Harmless, OtherController
<1>2. QED
  BY <1>1

\* What was established stays established while the tables do not change.
LEMMA RemainsSame ==
    ASSUME NEW c \in Txs, UNCHANGED tables, tx'[c].cmd = tx[c].cmd, tx'[c].by = tx[c].by,
           Remains(c)
    PROVE  Remains(c)'
BY DEF Remains, Harmless, Removed, OtherController, EffectiveController, tables

\* What the check of a command established holds until its commit.
LEMMA OtherRemainsStep ==
    ASSUME TypeOK, HasController(binding), TxShape, LocksExclusive, ActorStands, TargetStands,
           TargetsCovered, OtherRemains, NEW c \in Txs, Quiet(c) \/ Writes(c)
    PROVE  OtherRemains'
<1>1. Frame(c)
  BY FrameStep
<1>2. \A d \in Busy : Cleared(d) => Remains(d)
  BY DEF OtherRemains, Cleared, Remains
<1>3. ASSUME NEW d \in Busy', d # c, Cleared(d)' PROVE Remains(d)'
  <2>1. /\ d \in Busy /\ d \in Txs /\ tx'[d].cmd = tx[d].cmd /\ tx'[d].by = tx[d].by
        /\ tx'[d].pc = tx[d].pc /\ tx'[d].round = tx[d].round
    BY <1>1, <1>3 DEF Frame, Busy
  <2>2. Cleared(d) /\ Remains(d)
    BY <1>2, <1>3, <2>1 DEF Cleared, At
  <2>3. CASE Quiet(c)
    <3>1. UNCHANGED tables
      BY <2>3 DEF Quiet, Begins, Snaps, LocksRow, Asserts, Accepts, Checks, Drops, Goes
    <3>2. QED
      BY SMTT(30), <2>1, <2>2, <3>1, RemainsSame
  <2>4. CASE Writes(c)
    BY <1>3, <2>1, <2>2, <2>4, RemainsKept
  <2>5. QED
    BY <2>3, <2>4
<1>4. ASSUME c \in Busy', Cleared(c)' PROVE Remains(c)'
  <2>1. ~Writes(c) /\ ~Drops(c) /\ ~Begins(c)
    BY <1>4, WritesFacts DEF Cleared, Drops, Begins, Busy, At, Idle
  <2>2. /\ UNCHANGED tables /\ c \in Busy /\ tx'[c].by = tx[c].by /\ tx'[c].cmd = tx[c].cmd
    BY <2>1 DEF Quiet, Snaps, LocksRow, Asserts, Accepts, Checks, Goes
  <2>3. SUFFICES Remains(c)
    BY <2>2, RemainsSame
  <2>4. tx[c].round \in 1..3
    BY <2>2, CommandOf
  <2>5. CASE Snaps(c)
    BY <1>4, <2>4, <2>5 DEF Snaps, Goes, Cleared, At
  <2>6. CASE LocksRow(c)
    <3>1. Cleared(c)
      BY <1>4, <2>6 DEF LocksRow, Goes, Cleared, At
    <3>2. QED
      BY <1>2, <2>2, <3>1
  <2>7. CASE Asserts(c)
    BY <1>4, <2>7 DEF Asserts, Goes, Cleared, At
  <2>8. CASE Accepts(c)
    <3>1. ~EndsController(tx[c].by, tx[c].cmd)
      BY <1>4, <2>4, <2>8 DEF Accepts, Goes, Cleared, At
    <3>2. QED
      BY <2>2, <3>1, NotEnding DEF Remains
  <2>9. CASE Checks(c)
    <3>1. CASE tx[c].round < 3
      BY <1>2, <2>2, <2>9, <3>1 DEF Checks, Cleared
    <3>2. CASE ~(tx[c].round < 3)
      BY SMTT(30), <2>2, <2>9, <3>2, CheckPassed DEF Checks, Remains
    <3>3. QED
      BY <3>1, <3>2
  <2>10. QED
    BY <2>1, <2>5, <2>6, <2>7, <2>8, <2>9 DEF Quiet
<1>5. QED
  BY <1>3, <1>4 DEF OtherRemains, Cleared, Remains

\* The tenant keeps a controller.
LEMMA ContinuityStep ==
    ASSUME TypeOK, HasController(binding), TxShape, OtherRemains,
           NEW c \in Txs, Quiet(c) \/ Writes(c)
    PROVE  HasController(binding)'
<1>1. PICK q \in Staff : EffectiveController(q, binding)
  BY DEF HasController
<1>2. CASE Quiet(c)
  <2>1. UNCHANGED tables
    BY <1>2 DEF Quiet, Begins, Snaps, LocksRow, Asserts, Accepts, Checks, Drops, Goes
  <2>2. EffectiveController(q, binding)'
    BY <1>1, <2>1 DEF EffectiveController, tables
  <2>3. QED
    BY <2>2 DEF HasController
<1>3. CASE Writes(c)
  <2>1. c \in Busy /\ At(c, "write")
    BY <1>3, WritesFacts
  <2>2. \/ Harmless(c) \/ member[tx[c].cmd.on] # "active"
        \/ OtherController(tx[c].cmd.on)
    BY <2>1 DEF OtherRemains
  <2>3. CASE Harmless(c) \/ member[tx[c].cmd.on] # "active"
    <3>1. CASE q = tx[c].cmd.on
      <4>1. Harmless(c)
        BY <1>1, <2>3, <3>1 DEF EffectiveController
      <4>2. EffectiveController(q, binding)'
        BY <1>1, <1>3, <2>1, <3>1, <4>1, HarmlessStays
      <4>3. QED
        BY <4>2 DEF HasController
    <3>2. CASE q # tx[c].cmd.on
      <4>1. EffectiveController(q, binding)'
        BY <1>1, <1>3, <3>2, OthersStay
      <4>2. QED
        BY <4>1 DEF HasController
    <3>3. QED
      BY <3>1, <3>2
  <2>4. CASE OtherController(tx[c].cmd.on)
    <3>1. PICK r \in Staff \ {tx[c].cmd.on} : EffectiveController(r, binding)
      BY <2>4 DEF OtherController
    <3>2. EffectiveController(r, binding)'
      BY <1>3, <3>1, OthersStay
    <3>3. QED
      BY <3>2 DEF HasController
  <2>5. QED
    BY <2>2, <2>3, <2>4
<1>4. QED
  BY <1>2, <1>3

-----------------------------------------------------------------------------
(* The invariant *)

\* A command's steps keep the types.
LEMMA TypesStep ==
    ASSUME TypeOK, TxShape, NEW c \in Txs, Quiet(c) \/ Writes(c)
    PROVE  /\ member' \in [Staff -> Live \cup {"revoked", "none"}]
           /\ binding' \in [Staff -> {"none", "pending", "active", "suspended", "revoked"}]
           /\ identity' \in [Staff -> {"active", "disabled"}]
           /\ grants' \in [Staff -> SUBSET Capabilities]
           /\ delegable' \in [Staff -> SUBSET Capabilities]
           /\ \A p \in Staff : delegable'[p] \subseteq grants'[p]
           /\ tx' \in [Txs -> Tx \cup {Idle}]
<1>1. CASE Quiet(c)
  <2>1. UNCHANGED tables /\ tx' \in [Txs -> Tx \cup {Idle}]
    BY <1>1 DEF Quiet, Begins, Snaps, LocksRow, Asserts, Accepts, Checks, Drops, Goes
  <2>2. QED
    BY SMTT(30), <2>1 DEF TypeOK, tables
<1>2. CASE Writes(c)
  <2>1. c \in Busy
    BY <1>2, WritesFacts
  <2>2. /\ tx[c].cmd.on \in Staff /\ tx[c].cmd.to \in {"active", "suspended", "revoked"}
        /\ tx[c].cmd.want \subseteq Capabilities
    BY SMTT(30), <2>1, CommandOf
  <2>3. tx' \in [Txs -> Tx \cup {Idle}]
    BY <1>2 DEF Writes, Invites, MovesMember, MovesBinding, Replaces, Commits
  <2>4. CASE Invites(c)
    BY <2>2, <2>3, <2>4 DEF Invites, TypeOK, Live
  <2>5. CASE MovesMember(c)
    BY <2>2, <2>3, <2>5 DEF MovesMember, TypeOK, Live
  <2>6. CASE MovesBinding(c)
    BY <2>2, <2>3, <2>6 DEF MovesBinding, TypeOK
  <2>7. CASE Replaces(c)
    <3> DEFINE gone == Removed(tx[c].by, tx[c].cmd)
               p == tx[c].cmd.on
    <3>1. /\ grants' = [grants EXCEPT ![p] = (grants[p] \ gone) \cup tx[c].cmd.want]
          /\ delegable' = [delegable EXCEPT ![p] = delegable[p] \ gone]
          /\ UNCHANGED <<member, binding, identity>>
      BY <2>7 DEF Replaces
    <3> HIDE DEF gone
    <3>2. /\ grants \in [Staff -> SUBSET Capabilities]
          /\ delegable \in [Staff -> SUBSET Capabilities]
          /\ \A q \in Staff : delegable[q] \subseteq grants[q]
      BY DEF TypeOK
    <3>3. (grants[p] \ gone) \cup tx[c].cmd.want \in SUBSET Capabilities
      BY <2>2, <3>2
    <3>4. delegable[p] \ gone \in SUBSET Capabilities
      BY <2>2, <3>2
    <3>5. /\ grants' \in [Staff -> SUBSET Capabilities]
          /\ delegable' \in [Staff -> SUBSET Capabilities]
      BY <2>2, <3>1, <3>2, <3>3, <3>4
    <3>6. ASSUME NEW q \in Staff PROVE delegable'[q] \subseteq grants'[q]
      <4>1. CASE q = p
        <5>1. /\ delegable'[q] = delegable[q] \ gone
              /\ grants'[q] = (grants[q] \ gone) \cup tx[c].cmd.want
          BY <2>2, <3>1, <3>2, <4>1
        <5>2. QED
          BY <3>2, <5>1
      <4>2. CASE q # p
        BY <2>2, <3>1, <3>2, <4>2
      <4>3. QED
        BY <4>1, <4>2
    <3>7. QED
      BY <2>3, <3>1, <3>5, <3>6 DEF TypeOK
  <2>8. QED
    BY <1>2, <2>4, <2>5, <2>6, <2>7 DEF Writes
<1>3. QED
  BY <1>1, <1>2

\* The bound on the commands sent.
LEMMA SentStep ==
    ASSUME TypeOK, [Next]_vars
    PROVE  sent' \in 0..MaxSent
<1>1. sent \in 0..MaxSent /\ MaxSent \in Nat
  BY StaffAssumption DEF TypeOK
<1>2. ASSUME NEW c \in Txs, NEW a \in Staff, NEW cmd \in Commands, Send(c, a, cmd)
      PROVE  sent' \in 0..MaxSent
  BY <1>1, <1>2 DEF Send
<1>3. ASSUME NEW p \in Staff, DisableNativeIdentity(p)
      PROVE  sent' \in 0..MaxSent
  BY SMTT(30), <1>1, <1>3 DEF DisableNativeIdentity
<1>4. ASSUME NEW c \in Txs, Step(c) PROVE sent' = sent
  BY <1>4 DEF Step, SnapshotRoot, LockRootRow, AssertStaffManager, LockTarget, CheckContinuity,
     InviteNativeStaff, TransitionStaffMembership, TransitionIdentityBinding,
     ReplaceStaffAuthority, AbortVictim
<1>5. QED
  BY <1>1, <1>2, <1>3, <1>4 DEF Next, vars

\* The platform's disabling of an identity: no command has got past its first
\* step, and another controller remains.
LEMMA DisableStep ==
    ASSUME StaffInv, NEW p \in Staff, DisableNativeIdentity(p), sent' \in 0..MaxSent
    PROVE  StaffInv'
<1>1. /\ member' = member /\ binding' = binding /\ grants' = grants /\ delegable' = delegable
      /\ tx' = tx /\ identity' = [identity EXCEPT ![p] = "disabled"]
      /\ \A c \in Busy : At(c, "root") /\ tx[c].round = 1
      /\ EffectiveController(p, binding) => OtherController(p)
  BY DEF DisableNativeIdentity
<1>2. TypeOK /\ BindingFollowsMember /\ HasController(binding)
  BY DEF StaffInv, ControllerContinuity, HasController, EffectiveController
<1>3. identity \in [Staff -> {"active", "disabled"}]
  BY <1>2 DEF TypeOK
<1>4. TypeOK'
  BY <1>1, <1>2, <1>3 DEF TypeOK
<1>5. BindingFollowsMember' /\ InvitedIsPending'
  BY <1>1, <1>2 DEF BindingFollowsMember, InvitedIsPending, StaffInv
<1>6. HasController(binding)'
  <2>1. PICK q \in Staff \ {p} : EffectiveController(q, binding)
    BY <1>1, <1>2 DEF HasController, OtherController
  <2>2. identity'[q] = identity[q]
    BY <1>1, <1>3, <2>1
  <2>3. EffectiveController(q, binding)'
    BY <1>1, <2>1, <2>2 DEF EffectiveController
  <2>4. QED
    BY <2>1, <2>3 DEF HasController
<1>7. ControllerContinuity'
  BY <1>4, <1>5, <1>6 DEF ControllerContinuity, HasController, EffectiveController
<1>8. Busy' = Busy
  BY <1>1 DEF Busy, At
<1>9. \A c \in Busy : tx'[c].pc = "root" /\ tx'[c].round = 1
  BY <1>1 DEF At
<1>10. TxShape'
  BY <1>1, <1>8 DEF TxShape, At, StaffInv
<1>11. LocksExclusive'
  BY <1>1, <1>8 DEF LocksExclusive, StaffInv
<1>12. \A c \in Txs : ~Asserted(c)' /\ ~Past(c)' /\ ~Engaged(c)'
  BY <1>8, <1>9 DEF Asserted, Past, Engaged, At
<1>13. ActorStands' /\ TargetStands' /\ TargetsCovered'
  <2>1. ActorStands'
    BY <1>12 DEF ActorStands
  <2>2. TargetStands'
    BY <1>12 DEF TargetStands
  <2>3. TargetsCovered'
    BY <1>12 DEF TargetsCovered
  <2>4. QED
    BY <2>1, <2>2, <2>3
<1>14. OtherRemains'
  BY <1>8, <1>9 DEF OtherRemains, At
<1>15. QED
  BY <1>5, <1>7, <1>10, <1>11, <1>13, <1>14 DEF StaffInv

\* Every step keeps the invariant.
LEMMA StaffNext == StaffInv /\ [Next]_vars => StaffInv'
<1> SUFFICES ASSUME StaffInv, [Next]_vars PROVE StaffInv'
  OBVIOUS
<1>1. /\ TypeOK /\ BindingFollowsMember /\ HasController(binding)
      /\ InvitedIsPending /\ TxShape /\ LocksExclusive /\ ActorStands /\ TargetStands
      /\ TargetsCovered /\ OtherRemains
  BY DEF StaffInv, ControllerContinuity, HasController, EffectiveController
<1>2. sent' \in 0..MaxSent
  BY <1>1, SentStep
<1>3. ASSUME NEW c \in Txs, Quiet(c) \/ Writes(c) PROVE StaffInv'
  <2>1. TypeOK'
    BY <1>1, <1>2, <1>3, TypesStep DEF TypeOK
  <2>2. BindingFollowsMember' /\ InvitedIsPending'
    BY <1>1, <1>3, BindingStep
  <2>3. HasController(binding)'
    BY <1>1, <1>3, ContinuityStep
  <2>4. ControllerContinuity'
    BY <2>1, <2>2, <2>3 DEF ControllerContinuity, HasController, EffectiveController
  <2>5. TxShape' /\ LocksExclusive'
    BY <1>1, <1>3, TxShapeStep, LocksExclusiveStep
  <2>6. ActorStands' /\ TargetStands'
    BY <1>1, <1>3, ActorStandsStep, TargetStandsStep
  <2>7. TargetsCovered' /\ OtherRemains'
    BY <1>1, <1>3, TargetsCoveredStep, OtherRemainsStep
  <2>8. QED
    BY <2>2, <2>4, <2>5, <2>6, <2>7 DEF StaffInv
<1>4. ASSUME NEW p \in Staff, DisableNativeIdentity(p) PROVE StaffInv'
  BY <1>2, <1>4, DisableStep
<1>5. CASE UNCHANGED vars
  BY <1>5 DEF vars, tables, StaffInv, ControllerContinuity, TypeOK, BindingFollowsMember,
     InvitedIsPending, TxShape, LocksExclusive, ActorStands, TargetStands, TargetsCovered,
     OtherRemains, Busy, At, Asserted, Past, Engaged, Covers, StaffManager, Harmless, Removed,
     OtherController, EffectiveController
<1>6. QED
  BY <1>1, <1>3, <1>4, <1>5, StepCases

\* It holds at first.
LEMMA StaffInit == Init => StaffInv
<1> SUFFICES ASSUME Init PROVE StaffInv
  OBVIOUS
<1>1. Standing \in [Staff -> {"root", "controller", "suspended", "invited", "none"}]
  BY StaffAssumption
<1>2. /\ member \in [Staff -> Live \cup {"revoked", "none"}]
      /\ binding \in [Staff -> {"none", "pending", "active", "suspended", "revoked"}]
      /\ identity \in [Staff -> {"active", "disabled"}]
  BY <1>1 DEF Init, Live
<1>3. /\ grants \in [Staff -> SUBSET Capabilities]
      /\ delegable \in [Staff -> SUBSET Capabilities]
      /\ \A p \in Staff : delegable[p] \subseteq grants[p]
  BY <1>1 DEF Init, Capabilities
<1>4. tx \in [Txs -> Tx \cup {Idle}] /\ sent \in 0..MaxSent
  BY StaffAssumption DEF Init
<1>5. TypeOK
  BY <1>2, <1>3, <1>4 DEF TypeOK
<1>6. BindingFollowsMember /\ InvitedIsPending
  BY <1>1 DEF Init, BindingFollowsMember, InvitedIsPending
<1>7. PICK p \in Staff : Standing[p] \in {"root", "controller"}
  BY StaffAssumption
<1>8. /\ member[p] = "active" /\ Controller \subseteq grants[p]
      /\ binding[p] = "active" /\ identity[p] = "active"
  BY <1>7 DEF Init, Capabilities
<1>9. ControllerContinuity
  BY <1>5, <1>6, <1>8 DEF ControllerContinuity
<1>10. Busy = {}
  BY DEF Init, Busy, At, Idle
<1>11. \A c \in Txs : ~Asserted(c) /\ ~Past(c) /\ ~Engaged(c)
  BY <1>10 DEF Asserted, Past, Engaged
<1>12. TxShape /\ LocksExclusive /\ OtherRemains
  BY <1>10 DEF TxShape, LocksExclusive, OtherRemains
<1>13. ActorStands /\ TargetStands /\ TargetsCovered
  BY <1>11 DEF ActorStands, TargetStands, TargetsCovered
<1>14. QED
  BY <1>6, <1>9, <1>12, <1>13 DEF StaffInv

-----------------------------------------------------------------------------
(* Theorems *)

\* The inductive invariant: the locks two commands hold exclude each other, and
\* what a command read of its actor, of its target and of the controllers that
\* remain holds until its commit.
THEOREM StaffInvariant == Spec => []StaffInv
BY StaffInit, StaffNext, PTL DEF Spec

\* However suspensions, revocations, replacements of authority, transitions of
\* bindings and disabled identities interleave, the tenant keeps a member who
\* can sign in and holds the controller capabilities
\* (assert_other_tenant_controller, assert_tenant_has_controller).
THEOREM TenantKeepsController == Spec => []ControllerContinuity
<1>1. StaffInv => ControllerContinuity
  BY DEF StaffInv
<1>2. QED
  BY <1>1, StaffInvariant, PTL

\* At the commit of a command its actor is still an active member with the
\* capability, and may still delegate what it grants (assert_staff_manager).
THEOREM NoLapsedAuthority == Spec => AuthorityAtEffect
<1>1. ASSUME StaffInv, [Next]_vars
      PROVE  [\A c \in Txs :
                At(c, "write") /\ tables' # tables /\ tx'[c] = Idle =>
                   LET a == tx[c].by
                   IN  /\ member[a] = "active" /\ Capability(tx[c].cmd) \in grants[a]
                       /\ \A p \in Staff : grants'[p] \ grants[p] \subseteq delegable[a]]_vars
  <2> SUFFICES ASSUME NEW d \in Txs, At(d, "write"), tables' # tables, tx'[d] = Idle
               PROVE  /\ member[tx[d].by] = "active"
                      /\ Capability(tx[d].cmd) \in grants[tx[d].by]
                      /\ \A p \in Staff : grants'[p] \ grants[p] \subseteq delegable[tx[d].by]
    OBVIOUS
  <2>1. TypeOK /\ TxShape /\ ActorStands /\ TargetStands
    BY <1>1 DEF StaffInv, ControllerContinuity
  <2>2. PICK c \in Txs : Writes(c)
    <3>1. ~\E p \in Staff : DisableNativeIdentity(p)
      BY DEF DisableNativeIdentity, At, Idle
    <3>2. ASSUME NEW c \in Txs PROVE ~Quiet(c)
      BY DEF Quiet, Begins, Snaps, LocksRow, Asserts, Accepts, Checks, Drops, Goes
    <3>3. ~UNCHANGED vars
      BY DEF vars
    <3>4. QED
      BY <1>1, <2>1, <3>1, <3>2, <3>3, StepCases
  <2>3. c = d
    <3>1. Frame(c)
      BY <2>1, <2>2, FrameStep
    <3>2. d \in Busy /\ d \notin Busy'
      BY DEF Busy, At, Idle
    <3>3. QED
      BY <3>1, <3>2 DEF Frame
  <2>4. c \in Busy /\ Past(c) /\ Asserted(c) /\ tx[c].cmd.on \in Staff
    BY <2>1, <2>2, WritesFacts, CommandOf
  <2>5. member[tx[c].by] = "active" /\ Capability(tx[c].cmd) \in grants[tx[c].by]
    BY <2>1, <2>4 DEF ActorStands, StaffManager
  <2>6. ASSUME NEW p \in Staff PROVE grants'[p] \ grants[p] \subseteq delegable[tx[c].by]
    <3>1. CASE Replaces(c) /\ p = tx[c].cmd.on
      <4>1. grants'[p] = (grants[p] \ Removed(tx[c].by, tx[c].cmd)) \cup tx[c].cmd.want
        BY <2>1, <3>1 DEF Replaces, TypeOK
      <4>2. tx[c].cmd.want \subseteq delegable[tx[c].by]
        BY <2>1, <2>4, <3>1, TargetFacts DEF Replaces
      <4>3. QED
        BY <4>1, <4>2
    <3>2. CASE p # tx[c].cmd.on
      BY <2>1, <2>2, <3>2, OnlyTarget
    <3>3. CASE Invites(c) \/ MovesMember(c) \/ MovesBinding(c)
      BY <3>3 DEF Invites, MovesMember, MovesBinding
    <3>4. QED
      BY <2>2, <3>1, <3>2, <3>3 DEF Writes
  <2>7. QED
    BY <2>3, <2>5, <2>6
<1>2. QED
  BY <1>1, StaffInvariant, PTL DEF Spec, AuthorityAtEffect

=============================================================================
