-------------------------- MODULE SlotOffersProofs --------------------------
(***************************************************************************)
(* Proofs about SlotOffers for any slots, opportunities, waitlist entries, *)
(* transactions, deadlines and bounds.                                     *)
(***************************************************************************)
EXTENDS SlotOffers, FiniteSetTheorems, WellFoundedInduction, TLAPS

-----------------------------------------------------------------------------
(* Transactions and their rows *)

\* An open transaction has the fields of Tx.
LEMMA OpenRow ==
    ASSUME TypeOK, NEW t \in Txs
    PROVE  /\ t \in Open => tx[t] \in Tx
           /\ t \in Open <=> tx[t].at # "idle"
BY DEF TypeOK, Open, Tx, Idle

\* The fields of a transaction.
LEMMA TxFields ==
    ASSUME NEW r \in Tx
    PROVE  /\ r.at \in {"started", "select", "lock", "acquire"}
           /\ r.kind \in {"first", "declined", "expired"}
           /\ r.opp \in Opps /\ r.from \in Entries \cup {0}
           /\ r.deadline \in 0..MaxTime + OfferTTL
           /\ r.snap \in SUBSET Entries /\ r.skipped \in SUBSET Entries
           /\ r.cand \in Entries \cup {0}
           /\ r # Idle
           /\ r = [at |-> r.at, kind |-> r.kind, opp |-> r.opp, from |-> r.from,
                   deadline |-> r.deadline, snap |-> r.snap, skipped |-> r.skipped,
                   cand |-> r.cand]
BY DEF Tx, Idle

\* A transaction from its fields.
LEMMA TxFrom ==
    ASSUME NEW at \in {"started", "select", "lock", "acquire"},
           NEW kind \in {"first", "declined", "expired"},
           NEW o \in Opps, NEW from \in Entries \cup {0},
           NEW deadline \in 0..MaxTime + OfferTTL,
           NEW snap \in SUBSET Entries, NEW skipped \in SUBSET Entries,
           NEW cand \in Entries \cup {0}
    PROVE  [at |-> at, kind |-> kind, opp |-> o, from |-> from, deadline |-> deadline,
            snap |-> snap, skipped |-> skipped, cand |-> cand] \in Tx
BY DEF Tx

\* The entry a numbered candidate list is locked in order of.
LEMMA LeastEntry ==
    ASSUME NEW S \in SUBSET Entries, S # {}
    PROVE  Min(S) \in S
<1>1. S \subseteq Nat
  BY SlotOffersAssumption
<1>2. PICK x \in S : \A y \in S : <<y, x>> \notin OpToRel(<, Nat)
  BY <1>1, NatLessThanWellFounded, WFMin
<1>3. \A y \in S : ~(y < x)
  BY <1>1, <1>2 DEF OpToRel
<1>4. \A y \in S : x =< y
  BY <1>1, <1>3
<1>5. QED
  BY <1>4 DEF Min

-----------------------------------------------------------------------------
(* Steps of an offering transaction before its commit *)

\* A step that replaces one open transaction by another over the same rows,
\* begins one on an opportunity nobody locks, or ends one, keeps the invariant.
LEMMA TxStepKeeps ==
    ASSUME SlotInv, NEW t \in Txs, NEW r \in Tx \cup {Idle},
           tx' = [tx EXCEPT ![t] = r],
           UNCHANGED <<now, booked, event, opp, created, entry, chain>>,
           aborts' \in 0..MaxAborts,
           r # Idle => /\ Protected(r)
                       /\ \A u \in Open \ {t} : tx[u].opp # r.opp
    PROVE  SlotInv'
<1>1. TypeOK'
  BY DEF SlotInv, TypeOK, chain
<1>2. OffersAgree' /\ OneOffer' /\ OneFulfilment'
  BY DEF SlotInv, OffersAgree, OneOffer, OneFulfilment, chain
<1>3. OneOwner'
  BY DEF SlotInv, OneOwner, LiveHold, chain
<1>4. tx'[t] = r /\ \A u \in Txs \ {t} : tx'[u] = tx[u]
  BY DEF SlotInv, TypeOK
<1>5. Open' \subseteq Open \cup {t}
  BY <1>4 DEF Open
<1>6. t \in Open' => r # Idle
  BY <1>4 DEF Open
<1>7. Open \subseteq Txs
  BY DEF Open
<1>9. \A u \in Open' : Protected(tx[u])'
  <2>1. SUFFICES ASSUME NEW u \in Open' PROVE Protected(tx[u])'
    OBVIOUS
  <2>2. CASE u = t
    BY <1>4, <1>6, <2>2 DEF Protected, chain
  <2>3. CASE u # t
    <3>1. Protected(tx[u]) /\ tx'[u] = tx[u]
      BY <1>4, <1>5, <1>7, <2>3 DEF SlotInv, LocksHold
    <3>2. QED
      BY <3>1 DEF Protected, chain
  <2>4. QED
    BY <2>2, <2>3
<1>10. \A u, v \in Open' : tx'[u].opp = tx'[v].opp => u = v
  <2>1. SUFFICES ASSUME NEW u \in Open', NEW v \in Open', u # v, tx'[u].opp = tx'[v].opp
        PROVE FALSE
    OBVIOUS
  <2>2. CASE u = t
    BY <1>4, <1>5, <1>6, <1>7, <2>1, <2>2
  <2>3. CASE v = t
    BY <1>4, <1>5, <1>6, <1>7, <2>1, <2>3
  <2>4. CASE u # t /\ v # t
    BY <1>4, <1>5, <1>7, <2>1, <2>4 DEF SlotInv, LocksHold
  <2>5. QED
    BY <2>2, <2>3, <2>4
<1>11. QED
  BY <1>1, <1>2, <1>3, <1>9, <1>10 DEF SlotInv, LocksHold

\* Every offer asked for in time, or renewed, has a deadline in range.
LEMMA DeadlineType ==
    ASSUME TypeOK, NEW asked \in 0..MaxTime + OfferTTL
    PROVE  Deadline(asked) \in 0..MaxTime + OfferTTL
BY SlotOffersAssumption DEF TypeOK, Deadline, Earlier

\* A transaction begins on an opportunity nobody locks: either the first one
\* of a release event, or one that resolves the offered SlotOffer.
LEMMA BeginKeeps ==
    ASSUME SlotInv, NEW t \in Txs, NEW o \in Opps,
           NEW kind \in {"first", "declined", "expired"}, NEW from \in Entries \cup {0},
           NEW asked \in 0..MaxTime + OfferTTL, Begin(t, o, kind, from, asked),
           opp[o] = "open", kind = "first" <=> from = 0,
           from = 0 => event[o] = "pending", from # 0 => offer[o][from] = "offered"
    PROVE  SlotInv'
<1> DEFINE at == IF now >= StartAt THEN "started" ELSE "select"
           r == [at |-> at, kind |-> kind, opp |-> o, from |-> from,
                 deadline |-> Deadline(asked), snap |-> {}, skipped |-> {}, cand |-> 0]
<1>1. at \in {"started", "select", "lock", "acquire"}
  OBVIOUS
<1>2. Deadline(asked) \in 0..MaxTime + OfferTTL
  BY DeadlineType DEF SlotInv
<1>3. r \in Tx
  <2> HIDE DEF at
  <2>1. QED
    BY ZenonT(40), <1>1, <1>2, TxFrom
<1>4. Protected(r)
  BY DEF Protected
<1>5. \A u \in Open \ {t} : tx[u].opp # r.opp
  BY DEF Begin, OppLocked
<1>6. tx' = [tx EXCEPT ![t] = r]
  BY DEF Begin
<1>7. aborts' \in 0..MaxAborts
  BY DEF Begin, SlotInv, TypeOK
<1>8. UNCHANGED <<now, booked, event, opp, created, entry, chain>>
  BY DEF Begin
<1> HIDE DEF r
<1>9. QED
  BY <1>3, <1>4, <1>5, <1>6, <1>7, <1>8, TxStepKeeps

\* A transaction that is ended without a commit releases its locks.
LEMMA EndKeeps ==
    ASSUME SlotInv, NEW t \in Txs, RollBackLate(t) \/ Abort(t)
    PROVE  SlotInv'
<1>1. aborts' \in 0..MaxAborts
  BY SlotOffersAssumption DEF RollBackLate, Abort, SlotInv, TypeOK
<1>2. UNCHANGED <<now, booked, event, opp, created, entry, chain>> /\ tx' = [tx EXCEPT ![t] = Idle]
  BY DEF RollBackLate, Abort
<1>3. QED
  BY <1>1, <1>2, TxStepKeeps

\* The first transaction of a release event.
LEMMA BeginFirstKeeps ==
    ASSUME SlotInv, NEW t \in Txs, NEW o \in Opps, BeginFirst(t, o)
    PROVE  SlotInv'
<1>1. created[o] + OfferTTL \in 0..MaxTime + OfferTTL
  BY SlotOffersAssumption DEF SlotInv, TypeOK
<1>2. QED
  BY <1>1, BeginKeeps DEF BeginFirst

\* A transaction that declines or expires an offered SlotOffer.
LEMMA BeginResolveKeeps ==
    ASSUME SlotInv, NEW t \in Txs, NEW o \in Opps, NEW e \in Entries,
           BeginDecline(t, o, e) \/ BeginExpire(t, o, e)
    PROVE  SlotInv'
<1>1. PICK ttl \in NextTTLs, kind \in {"declined", "expired"} : Begin(t, o, kind, e, now + ttl)
  BY DEF BeginDecline, BeginExpire
<1>2. now + ttl \in 0..MaxTime + OfferTTL
  BY SlotOffersAssumption DEF SlotInv, TypeOK, NextTTLs
<1>3. offer[o][e] = "offered" /\ opp[o] = "open"
  BY DEF BeginDecline, BeginExpire, SlotInv, OffersAgree
<1>4. e # 0
  BY SlotOffersAssumption
<1>5. QED
  BY <1>1, <1>2, <1>3, <1>4, BeginKeeps

\* The statement that reads the candidates, the row lock on the first of them,
\* and the return to the selection after a refused preference.
LEMMA StatementKeeps ==
    ASSUME SlotInv, NEW t \in Txs,
           SelectCandidate(t) \/ LockCandidate(t) \/ SkipCandidate(t)
    PROVE  SlotInv'
<1>1. tx[t].at # "idle"
  BY DEF SelectCandidate, LockCandidate, SkipCandidate, Acquires
<1>2. t \in Open /\ tx[t] \in Tx
  BY <1>1, OpenRow DEF SlotInv
<1>3. Protected(tx[t])
  BY <1>2 DEF SlotInv, LocksHold
<1>4. \A u \in Open \ {t} : tx[u].opp # tx[t].opp
  BY <1>2 DEF SlotInv, LocksHold
<1>5. UNCHANGED <<now, booked, event, opp, created, entry, chain>> /\ aborts' \in 0..MaxAborts
  BY DEF SelectCandidate, LockCandidate, SkipCandidate, SlotInv, TypeOK
<1>6. CASE SelectCandidate(t)
  <2> DEFINE r == [tx[t] EXCEPT !.at = "lock", !.snap = Candidates(tx[t].opp, tx[t].skipped)]
  <2>1. Candidates(tx[t].opp, tx[t].skipped) \in SUBSET Entries
    BY DEF Candidates
  <2>2. /\ r \in Tx /\ r.opp = tx[t].opp /\ r.kind = tx[t].kind /\ r.from = tx[t].from
        /\ r.snap = Candidates(tx[t].opp, tx[t].skipped) /\ r.at = "lock"
    BY <1>2, <2>1 DEF Tx
  <2>3. tx' = [tx EXCEPT ![t] = r]
    BY <1>6 DEF SelectCandidate, SlotInv, TypeOK
  <2> HIDE DEF r
  <2>4. Protected(r)
    BY <1>3, <2>2 DEF Protected, Candidates
  <2>5. QED
    BY <1>4, <1>5, <2>2, <2>3, <2>4, TxStepKeeps
<1>7. CASE LockCandidate(t)
  <2> DEFINE r == [tx[t] EXCEPT !.at = "acquire", !.cand = Min(Lockable(t))]
  <2>1. Lockable(t) \in SUBSET Entries
    BY <1>2, TxFields DEF Lockable
  <2>2. Min(Lockable(t)) \in Lockable(t)
    BY <1>7, <2>1, LeastEntry DEF LockCandidate
  <2>3. /\ r \in Tx /\ r.opp = tx[t].opp /\ r.kind = tx[t].kind /\ r.from = tx[t].from
        /\ r.snap = tx[t].snap /\ r.cand = Min(Lockable(t))
    BY <1>2, <2>1, <2>2 DEF Tx
  <2>4. tx' = [tx EXCEPT ![t] = r]
    BY <1>7 DEF LockCandidate, SlotInv, TypeOK
  <2> HIDE DEF r
  <2>5. Protected(r)
    BY <1>3, <2>2, <2>3 DEF Protected, Lockable
  <2>6. QED
    BY <1>4, <1>5, <2>3, <2>4, <2>5, TxStepKeeps
<1>8. CASE SkipCandidate(t)
  <2> DEFINE r == [tx[t] EXCEPT !.at = "select", !.skipped = tx[t].skipped \cup {tx[t].cand},
                                !.cand = 0, !.snap = {}]
  <2>1. tx[t].cand \in Entries
    BY <1>2, <1>3, <1>8, TxFields DEF Protected, SkipCandidate, Acquires
  <2>2. /\ r \in Tx /\ r.opp = tx[t].opp /\ r.kind = tx[t].kind /\ r.from = tx[t].from
        /\ r.snap = {} /\ r.at = "select"
    BY <1>2, <2>1 DEF Tx
  <2>3. tx' = [tx EXCEPT ![t] = r]
    BY <1>8 DEF SkipCandidate, SlotInv, TypeOK
  <2> HIDE DEF r
  <2>4. Protected(r)
    BY <1>3, <2>2 DEF Protected
  <2>5. QED
    BY <1>4, <1>5, <2>2, <2>3, <2>4, TxStepKeeps
<1>9. QED
  BY <1>6, <1>7, <1>8

-----------------------------------------------------------------------------
(* Commits of an offering transaction *)

OfferStatus == {"none", "offered", "accepted", "declined", "expired"}
HoldStatus == {"none", "active", "consumed", "released", "expired"}
TimerStatus == {"none", "pending", "leased", "completed", "cancelled"}

\* The three resolved columns.
LEMMA ResolvedColumns ==
    ASSUME TypeOK, NEW t, tx[t] \in Tx, Protected(tx[t])
    PROVE  /\ ResolvedOffer(t) \in [Opps -> [Entries -> OfferStatus]]
           /\ \A p \in Opps, f \in Entries :
                 ResolvedOffer(t)[p][f] =
                   IF p = tx[t].opp /\ f = tx[t].from THEN tx[t].kind ELSE offer[p][f]
           /\ ResolvedHold(t) \in [Opps -> [Entries -> HoldStatus]]
           /\ \A p \in Opps, f \in Entries :
                 ResolvedHold(t)[p][f] =
                   IF p = tx[t].opp /\ f = tx[t].from
                   THEN IF tx[t].kind = "expired" THEN "expired" ELSE "released"
                   ELSE hold[p][f]
           /\ ResolvedTimer(t) \in [Opps -> [Entries -> TimerStatus]]
<1>0. 0 \notin Entries
  BY SlotOffersAssumption
<1>1. /\ tx[t].opp \in Opps /\ tx[t].from \in Entries \cup {0}
      /\ tx[t].kind \in {"first", "declined", "expired"}
  BY TxFields
<1>2. tx[t].from # 0 => tx[t].kind \in OfferStatus
  BY <1>1 DEF Protected, OfferStatus
<1>3. tx[t].from # 0 => timer[tx[t].opp][tx[t].from] \in TimerStatus
  BY <1>1 DEF TypeOK, TimerStatus
<1>4. offer \in [Opps -> [Entries -> OfferStatus]]
  BY DEF TypeOK, OfferStatus
<1>5. hold \in [Opps -> [Entries -> HoldStatus]]
  BY DEF TypeOK, HoldStatus
<1>6. timer \in [Opps -> [Entries -> TimerStatus]]
  BY DEF TypeOK, TimerStatus
<1>7. /\ ResolvedOffer(t) \in [Opps -> [Entries -> OfferStatus]]
      /\ \A p \in Opps, f \in Entries :
            ResolvedOffer(t)[p][f] =
              IF p = tx[t].opp /\ f = tx[t].from THEN tx[t].kind ELSE offer[p][f]
  <2> DEFINE new == ResolvedOffer(t)
  <2>1. new = IF tx[t].from = 0 THEN offer
              ELSE [offer EXCEPT ![tx[t].opp][tx[t].from] = tx[t].kind]
    BY DEF ResolvedOffer, Resolved
  <2> HIDE DEF new
  <2>2. CASE tx[t].from = 0
    BY <1>0, <1>4, <2>1, <2>2 DEF new
  <2>3. CASE tx[t].from # 0
    BY <1>1, <1>2, <1>4, <2>1, <2>3 DEF new
  <2>4. QED
    BY <2>2, <2>3
<1> DEFINE h == IF tx[t].kind = "expired" THEN "expired" ELSE "released"
<1>8. h \in HoldStatus
  BY DEF HoldStatus
<1>9. ResolvedHold(t) = Resolved(t, hold, h)
  BY DEF ResolvedHold
<1>10. /\ ResolvedHold(t) \in [Opps -> [Entries -> HoldStatus]]
       /\ \A p \in Opps, f \in Entries :
             ResolvedHold(t)[p][f] =
               IF p = tx[t].opp /\ f = tx[t].from THEN h ELSE hold[p][f]
  <2> HIDE DEF h
  <2> DEFINE new == ResolvedHold(t)
  <2>1. new = IF tx[t].from = 0 THEN hold
              ELSE [hold EXCEPT ![tx[t].opp][tx[t].from] = h]
    BY <1>9 DEF Resolved
  <2> HIDE DEF new
  <2>2. CASE tx[t].from = 0
    BY <1>0, <1>5, <2>1, <2>2 DEF new
  <2>3. CASE tx[t].from # 0
    BY <1>1, <1>8, <1>5, <2>1, <2>3 DEF new
  <2>4. QED
    BY <2>2, <2>3
<1> DEFINE d == IF tx[t].kind = "expired" THEN "completed"
                ELSE IF timer[tx[t].opp][tx[t].from] = "pending" THEN "cancelled"
                     ELSE timer[tx[t].opp][tx[t].from]
<1>11. tx[t].from # 0 => d \in TimerStatus
  BY <1>3 DEF TimerStatus
<1>12. ResolvedTimer(t) = Resolved(t, timer, d)
  BY DEF ResolvedTimer
<1>13. ResolvedTimer(t) \in [Opps -> [Entries -> TimerStatus]]
  <2> HIDE DEF d
  <2>1. QED
    BY <1>1, <1>6, <1>11, <1>12 DEF Resolved
<1>14. QED
  BY <1>7, <1>10, <1>13

\* The commit ends the transaction and, if it made the first attempt, its
\* release event.
LEMMA CommitEffect ==
    ASSUME SlotInv, NEW t \in Open, Commit(t)
    PROVE  /\ event' \in [Opps -> {"none", "pending", "done"}]
           /\ \A p \in Opps : event'[p] = IF p = tx[t].opp /\ tx[t].kind = "first"
                                          THEN "done" ELSE event[p]
           /\ tx' \in [Txs -> Tx \cup {Idle}]
           /\ Open' = Open \ {t}
           /\ \A u \in Open \ {t} : tx'[u] = tx[u] /\ tx[u].opp # tx[t].opp
<1>1. t \in Txs /\ tx[t].opp \in Opps
  BY OpenRow, TxFields DEF Open, SlotInv
<1>2. QED
  BY <1>1 DEF Commit, SlotInv, TypeOK, LocksHold, Open

\* The other transactions keep what they have read when one commits: it wrote
\* only to the opportunity that it had locked.
LEMMA CommitSpares ==
    ASSUME SlotInv, NEW t \in Open, Commit(t), entry' = entry,
           \A p \in Opps \ {tx[t].opp} :
              opp'[p] = opp[p] /\ \A f \in Entries : offer'[p][f] = offer[p][f]
    PROVE  LocksHold'
<1>1. \A u \in Open' : Protected(tx[u])'
  <2>1. SUFFICES ASSUME NEW u \in Open' PROVE Protected(tx[u])'
    OBVIOUS
  <2>2. u \in Open /\ tx'[u] = tx[u] /\ tx[u].opp # tx[t].opp
    BY CommitEffect
  <2>3. tx[u] \in Tx /\ Protected(tx[u])
    BY <2>2, OpenRow DEF SlotInv, LocksHold, Open
  <2>4. /\ tx[u].opp \in Opps \ {tx[t].opp} /\ tx[u].from \in Entries \cup {0}
        /\ tx[u].snap \subseteq Entries
    BY <2>2, <2>3, TxFields
  <2>5. event'[tx[u].opp] = event[tx[u].opp]
    BY <2>4, CommitEffect
  <2>6. QED
    BY <2>2, <2>3, <2>4, <2>5 DEF Protected
<1>2. \A u, v \in Open' : tx'[u].opp = tx'[v].opp => u = v
  BY CommitEffect DEF SlotInv, LocksHold
<1>3. QED
  BY <1>1, <1>2 DEF LocksHold

\* The opportunity of an open transaction has no live offer other than the one
\* the transaction resolves, and none that was accepted.
LEMMA NothingElse ==
    ASSUME SlotInv, NEW t \in Open, NEW e \in Entries
    PROVE  /\ offer[tx[t].opp][e] # "accepted"
           /\ offer[tx[t].opp][e] = "offered" => e = tx[t].from
           /\ tx[t].from = 0 => offer[tx[t].opp][e] = "none"
<1>1. tx[t] \in Tx /\ Protected(tx[t])
  BY OpenRow DEF SlotInv, LocksHold, Open
<1>2. tx[t].opp \in Opps /\ tx[t].from \in Entries \cup {0}
  BY <1>1, TxFields
<1>3. tx[t].from = 0 => offer[tx[t].opp][e] = "none"
  BY <1>1, <1>2 DEF SlotInv, OffersAgree, Protected
<1>4. offer[tx[t].opp][e] # "accepted"
  BY <1>1, <1>2 DEF SlotInv, OffersAgree, Protected
<1>5. tx[t].from # 0 /\ offer[tx[t].opp][e] = "offered" => e = tx[t].from
  BY <1>1, <1>2 DEF SlotInv, OneOffer, Protected
<1>6. QED
  BY <1>3, <1>4, <1>5

\* A commit that offers the slot to nobody: the resolved offer becomes history,
\* and the opportunity may close because nothing offered is left on it.
LEMMA CommitWithoutKeeps ==
    ASSUME SlotInv, NEW t \in Open, NEW status \in {"open", "closed", "expired"},
           CommitWithout(t, status)
    PROVE  SlotInv'
<1> DEFINE o == tx[t].opp
           kind == tx[t].kind
           from == tx[t].from
<1>1. tx[t] \in Tx /\ Protected(tx[t])
  BY OpenRow DEF SlotInv, LocksHold, Open
<1>2. /\ o \in Opps /\ from \in Entries \cup {0} /\ kind \in {"first", "declined", "expired"}
      /\ 0 \notin Entries /\ opp[o] = "open" /\ (kind = "first" <=> from = 0)
      /\ (from # 0 => offer[o][from] = "offered")
  BY <1>1, TxFields, SlotOffersAssumption DEF Protected
<1>3. /\ offer' \in [Opps -> [Entries -> OfferStatus]]
      /\ hold' \in [Opps -> [Entries -> HoldStatus]]
      /\ timer' \in [Opps -> [Entries -> TimerStatus]]
      /\ \A p \in Opps, f \in Entries :
            offer'[p][f] = IF p = o /\ f = from THEN kind ELSE offer[p][f]
      /\ \A p \in Opps, f \in Entries :
            hold'[p][f] = IF p = o /\ f = from
                          THEN IF kind = "expired" THEN "expired" ELSE "released"
                          ELSE hold[p][f]
  BY <1>1, ResolvedColumns DEF CommitWithout, SlotInv
<1>4. Commit(t) /\ UNCHANGED <<now, booked, created, entry, expires, aborts>>
  BY DEF CommitWithout
<1>5. /\ event' \in [Opps -> {"none", "pending", "done"}]
      /\ \A p \in Opps : event'[p] = IF p = o /\ kind = "first" THEN "done" ELSE event[p]
      /\ tx' \in [Txs -> Tx \cup {Idle}]
  BY <1>4, CommitEffect
<1>6. opp' = [opp EXCEPT ![o] = status]
  BY DEF CommitWithout
<1>7. /\ opp' \in [Opps -> {"none", "open", "filled", "closed", "expired"}]
      /\ \A p \in Opps : opp'[p] = IF p = o THEN status ELSE opp[p]
  BY <1>2, <1>6 DEF SlotInv, TypeOK
<1>8. \A f \in Entries : /\ offer[o][f] # "accepted"
                         /\ offer[o][f] = "offered" => f = from
                         /\ from = 0 => offer[o][f] = "none"
  BY NothingElse
<1> HIDE DEF o, kind, from
<1>9. TypeOK'
  BY <1>3, <1>4, <1>5, <1>7 DEF SlotInv, TypeOK, OfferStatus, HoldStatus, TimerStatus
<1>10. OffersAgree'
  <2>1. SUFFICES ASSUME NEW p \in Opps, NEW f \in Entries
        PROVE  /\ hold'[p][f] = HoldOf(offer'[p][f])
               /\ offer'[p][f] = "offered" => opp'[p] = "open" /\ entry'[f] = "active"
               /\ offer'[p][f] = "accepted" => opp'[p] = "filled" /\ entry'[f] = "fulfilled"
               /\ offer'[p][f] # "none" => event'[p] = "done"
    BY DEF OffersAgree, HoldOf
  <2>2. /\ hold[p][f] = HoldOf(offer[p][f])
        /\ offer[p][f] = "offered" => opp[p] = "open" /\ entry[f] = "active"
        /\ offer[p][f] = "accepted" => opp[p] = "filled" /\ entry[f] = "fulfilled"
        /\ offer[p][f] # "none" => event[p] = "done"
    BY DEF SlotInv, OffersAgree
  <2>3. CASE p = o /\ f = from
    <3>1. event[o] = "done" /\ kind \in {"declined", "expired"}
      BY <1>2, <2>2, <2>3
    <3>2. offer'[p][f] = kind /\ event'[p] = "done"
      BY <1>3, <1>5, <2>3, <3>1
    <3>3. hold'[p][f] = HoldOf(kind)
      BY <1>3, <2>3, <3>1 DEF HoldOf
    <3>4. QED
      BY <3>1, <3>2, <3>3
  <2>4. CASE p = o /\ f # from
    BY <1>2, <1>3, <1>4, <1>5, <1>7, <1>8, <2>2, <2>4
  <2>5. CASE p # o
    BY <1>3, <1>4, <1>5, <1>7, <2>2, <2>5
  <2>6. QED
    BY <2>3, <2>4, <2>5
<1>11. \A p \in Opps, f \in Entries :
          /\ offer'[p][f] = "accepted" <=> offer[p][f] = "accepted"
          /\ offer'[p][f] = "offered" => offer[p][f] = "offered"
  BY <1>2, <1>3
<1>12. OneOffer'
  <2>1. \A p \in Opps : opp'[p] = "filled" => opp[p] = "filled"
    BY <1>7
  <2>2. QED
    BY <1>11, <2>1 DEF SlotInv, OneOffer
<1>13. OneFulfilment'
  BY <1>4, <1>11 DEF SlotInv, OneFulfilment
<1>14. OneOwner'
  <2>1. \A p \in Opps, f \in Entries : LiveHold(p, f)' => LiveHold(p, f)
    BY <1>3, <1>4 DEF LiveHold
  <2>2. QED
    BY <1>4, <2>1 DEF SlotInv, OneOwner
<1>15. LocksHold'
  BY <1>2, <1>3, <1>4, <1>7, CommitSpares DEF o
<1>16. QED
  BY <1>9, <1>10, <1>12, <1>13, <1>14, <1>15 DEF SlotInv

\* A commit that offers the slot to the candidate it locked: no reservation and
\* no live hold but its own was left on the slot.
LEMMA CommitOfferKeeps ==
    ASSUME SlotInv, NEW t \in Open, CommitOffer(t)
    PROVE  SlotInv'
<1> DEFINE o == tx[t].opp
           kind == tx[t].kind
           from == tx[t].from
           c == tx[t].cand
<1>1. tx[t] \in Tx /\ Protected(tx[t])
  BY OpenRow DEF SlotInv, LocksHold, Open
<1>2. /\ o \in Opps /\ from \in Entries \cup {0} /\ kind \in {"first", "declined", "expired"}
      /\ 0 \notin Entries /\ opp[o] = "open" /\ (kind = "first" <=> from = 0)
      /\ (from # 0 => offer[o][from] = "offered")
  BY <1>1, TxFields, SlotOffersAssumption DEF Protected
<1>3. c \in Entries /\ offer[o][c] = "none" /\ entry[c] = "active" /\ c # from
  BY <1>1, <1>2, TxFields DEF Protected, CommitOffer, Acquires
<1>4. /\ offer' \in [Opps -> [Entries -> OfferStatus]]
      /\ \A p \in Opps, f \in Entries :
            offer'[p][f] = IF p = o /\ f = c THEN "offered"
                           ELSE IF p = o /\ f = from THEN kind ELSE offer[p][f]
  <2>1. /\ ResolvedOffer(t) \in [Opps -> [Entries -> OfferStatus]]
        /\ \A p \in Opps, f \in Entries :
              ResolvedOffer(t)[p][f] = IF p = o /\ f = from THEN kind ELSE offer[p][f]
    BY <1>1, ResolvedColumns DEF SlotInv
  <2>2. offer' = [ResolvedOffer(t) EXCEPT ![o][c] = "offered"]
    BY DEF CommitOffer
  <2> HIDE DEF o, c, kind, from
  <2>3. QED
    BY <1>2, <1>3, <2>1, <2>2 DEF OfferStatus
<1>5. /\ hold' \in [Opps -> [Entries -> HoldStatus]]
      /\ \A p \in Opps, f \in Entries :
            hold'[p][f] = IF p = o /\ f = c THEN "active"
                          ELSE IF p = o /\ f = from
                               THEN IF kind = "expired" THEN "expired" ELSE "released"
                               ELSE hold[p][f]
  <2>1. /\ ResolvedHold(t) \in [Opps -> [Entries -> HoldStatus]]
        /\ \A p \in Opps, f \in Entries :
              ResolvedHold(t)[p][f] = IF p = o /\ f = from
                                      THEN IF kind = "expired" THEN "expired" ELSE "released"
                                      ELSE hold[p][f]
    BY <1>1, ResolvedColumns DEF SlotInv
  <2>2. hold' = [ResolvedHold(t) EXCEPT ![o][c] = "active"]
    BY DEF CommitOffer
  <2> HIDE DEF o, c, kind, from
  <2>3. QED
    BY <1>2, <1>3, <2>1, <2>2 DEF HoldStatus
<1>6. timer' \in [Opps -> [Entries -> TimerStatus]]
  <2>1. ResolvedTimer(t) \in [Opps -> [Entries -> TimerStatus]]
    BY <1>1, ResolvedColumns DEF SlotInv
  <2>2. timer' = [ResolvedTimer(t) EXCEPT ![o][c] = "pending"]
    BY DEF CommitOffer
  <2> HIDE DEF o, c
  <2>3. QED
    BY <1>2, <1>3, <2>1, <2>2 DEF TimerStatus
<1>7. /\ expires' \in [Opps -> [Entries -> 0..MaxTime + OfferTTL]]
      /\ \A p \in Opps, f \in Entries : p # o \/ f # c => expires'[p][f] = expires[p][f]
  <2>1. tx[t].deadline \in 0..MaxTime + OfferTTL
    BY <1>1, TxFields
  <2>2. expires' = [expires EXCEPT ![o][c] = tx[t].deadline]
    BY DEF CommitOffer
  <2>3. expires \in [Opps -> [Entries -> 0..MaxTime + OfferTTL]]
    BY DEF SlotInv, TypeOK
  <2> HIDE DEF o, c
  <2>4. QED
    BY <1>2, <1>3, <2>1, <2>2, <2>3
<1>8. Commit(t) /\ UNCHANGED <<now, booked, opp, created, entry, aborts>>
  BY DEF CommitOffer
<1>9. /\ event' \in [Opps -> {"none", "pending", "done"}]
      /\ \A p \in Opps : event'[p] = IF p = o /\ kind = "first" THEN "done" ELSE event[p]
      /\ tx' \in [Txs -> Tx \cup {Idle}]
  BY <1>8, CommitEffect
<1>10. \A f \in Entries : /\ offer[o][f] # "accepted"
                          /\ offer[o][f] = "offered" => f = from
                          /\ from = 0 => offer[o][f] = "none"
  BY NothingElse
<1>11. /\ booked[SlotOf[o]] = 0
       /\ \A p \in Opps, f \in Entries :
             LiveHold(p, f) /\ SlotOf[p] = SlotOf[o] => p = o /\ f = from
  <2>1. SlotFree(SlotOf[o], {<<o, from>>})
    BY DEF CommitOffer, Vacant
  <2>2. ASSUME NEW p \in Opps, NEW f \in Entries, LiveHold(p, f), SlotOf[p] = SlotOf[o]
        PROVE  p = o /\ f = from
    <3>1. <<p, f>> \in LiveHoldsOn(SlotOf[o])
      BY <2>2 DEF LiveHoldsOn
    <3>2. <<p, f>> = <<o, from>>
      BY <2>1, <3>1 DEF SlotFree
    <3>3. QED
      BY <3>2
  <2>3. QED
    BY <2>1, <2>2 DEF SlotFree
<1> HIDE DEF o, kind, from, c
<1>12. TypeOK'
  BY <1>4, <1>5, <1>6, <1>7, <1>8, <1>9 DEF SlotInv, TypeOK, OfferStatus, HoldStatus, TimerStatus
<1>13. event'[o] = "done"
  <2>1. CASE from = 0
    BY <1>2, <1>9, <2>1
  <2>2. CASE from # 0
    <3>1. event[o] = "done"
      BY <1>2, <2>2 DEF SlotInv, OffersAgree
    <3>2. QED
      BY <1>2, <1>9, <3>1
  <2>3. QED
    BY <2>1, <2>2
<1>14. OffersAgree'
  <2>1. SUFFICES ASSUME NEW p \in Opps, NEW f \in Entries
        PROVE  /\ hold'[p][f] = HoldOf(offer'[p][f])
               /\ offer'[p][f] = "offered" => opp'[p] = "open" /\ entry'[f] = "active"
               /\ offer'[p][f] = "accepted" => opp'[p] = "filled" /\ entry'[f] = "fulfilled"
               /\ offer'[p][f] # "none" => event'[p] = "done"
    BY DEF OffersAgree, HoldOf
  <2>2. /\ hold[p][f] = HoldOf(offer[p][f])
        /\ offer[p][f] = "offered" => opp[p] = "open" /\ entry[f] = "active"
        /\ offer[p][f] = "accepted" => opp[p] = "filled" /\ entry[f] = "fulfilled"
        /\ offer[p][f] # "none" => event[p] = "done"
    BY DEF SlotInv, OffersAgree
  <2>3. CASE p = o /\ f = c
    <3>1. offer'[p][f] = "offered" /\ hold'[p][f] = "active"
      BY <1>4, <1>5, <2>3
    <3>2. opp'[p] = "open" /\ entry'[f] = "active" /\ event'[p] = "done"
      BY <1>2, <1>3, <1>8, <1>13, <2>3
    <3>3. QED
      BY <3>1, <3>2 DEF HoldOf
  <2>4. CASE p = o /\ f = from /\ f # c
    <3>1. kind \in {"declined", "expired"}
      BY <1>2, <2>4
    <3>2. offer'[p][f] = kind /\ event'[p] = "done"
      BY <1>4, <1>13, <2>4, <3>1
    <3>3. hold'[p][f] = HoldOf(kind)
      BY <1>5, <2>4, <3>1 DEF HoldOf
    <3>4. QED
      BY <3>1, <3>2, <3>3
  <2>5. CASE p = o /\ f # from /\ f # c
    <3>1. offer'[p][f] = offer[p][f] /\ hold'[p][f] = hold[p][f]
      BY <1>4, <1>5, <2>5
    <3>2. QED
      BY <1>8, <1>13, <2>2, <2>5, <3>1
  <2>6. CASE p # o
    <3>1. offer'[p][f] = offer[p][f] /\ hold'[p][f] = hold[p][f] /\ event'[p] = event[p]
      BY <1>4, <1>5, <1>9, <2>6
    <3>2. QED
      BY <1>8, <2>2, <3>1
  <2>7. QED
    BY <2>3, <2>4, <2>5, <2>6
<1>15. \A p \in Opps, f \in Entries :
          /\ offer'[p][f] = "accepted" <=> offer[p][f] = "accepted"
          /\ offer'[p][f] = "offered" => (offer[p][f] = "offered" /\ p # o) \/ (p = o /\ f = c)
  BY <1>2, <1>3, <1>4, <1>10
<1>16. OneOffer'
  BY <1>8, <1>15 DEF SlotInv, OneOffer
<1>17. OneFulfilment'
  BY <1>8, <1>15 DEF SlotInv, OneFulfilment
<1>18. OneOwner'
  <2>1. \A p \in Opps, f \in Entries : LiveHold(p, f)' /\ (p # o \/ f # c)
                                       => LiveHold(p, f) /\ (p # o \/ f # from)
    BY <1>5, <1>7, <1>8 DEF LiveHold
  <2>2. \A p \in Opps, f \in Entries :
           LiveHold(p, f)' => SlotOf[p] # SlotOf[o] \/ (p = o /\ f = c)
    BY <1>11, <2>1
  <2>3. \A s \in Slots : booked'[s] <= 1
    BY <1>8 DEF SlotInv, OneOwner
  <2>4. \A p \in Opps, f \in Entries : LiveHold(p, f)' => booked'[SlotOf[p]] = 0
    BY <1>8, <1>11, <2>1 DEF SlotInv, OneOwner
  <2>5. \A p, q \in Opps, e, f \in Entries :
           LiveHold(p, e)' /\ LiveHold(q, f)' /\ SlotOf[p] = SlotOf[q] => p = q /\ e = f
    BY <2>1, <2>2 DEF SlotInv, OneOwner
  <2>6. QED
    BY <2>3, <2>4, <2>5 DEF OneOwner
<1>19. LocksHold'
  BY <1>4, <1>8, CommitSpares DEF o
<1>20. QED
  BY <1>12, <1>14, <1>16, <1>17, <1>18, <1>19 DEF SlotInv

-----------------------------------------------------------------------------
(* Steps outside the offering transactions *)

\* Bookings and their cancellation: the slot was free, or becomes free.
LEMMA BookingKeeps ==
    ASSUME SlotInv,
           \/ \E s \in Slots : BookDirect(s)
           \/ \E o \in Opps : CancelBooking(o)
    PROVE  SlotInv'
<1>1. CASE \E s \in Slots : BookDirect(s)
  <2>1. PICK s \in Slots : BookDirect(s)
    BY <1>1
  <2>2. /\ booked' = [booked EXCEPT ![s] = booked[s] + 1] /\ booked[s] = 0
        /\ UNCHANGED <<now, event, opp, created, entry, offer, hold, expires, timer, tx, aborts>>
    BY <2>1 DEF BookDirect, SlotFree, chain
  <2>3. \A o \in Opps, e \in Entries : LiveHold(o, e) => SlotOf[o] # s
    <3>1. SUFFICES ASSUME NEW o \in Opps, NEW e \in Entries, LiveHold(o, e), SlotOf[o] = s
          PROVE FALSE
      OBVIOUS
    <3>2. <<o, e>> \in LiveHoldsOn(s)
      BY <3>1 DEF LiveHoldsOn
    <3>3. QED
      BY <2>1, <3>2 DEF BookDirect, SlotFree
  <2>4. TypeOK'
    BY <2>2 DEF SlotInv, TypeOK
  <2>5. OffersAgree' /\ OneOffer' /\ OneFulfilment'
    BY <2>2 DEF SlotInv, OffersAgree, OneOffer, OneFulfilment
  <2>6. LocksHold'
    BY <2>2 DEF SlotInv, LocksHold, Open, Protected
  <2>7. \A q \in Slots : booked'[q] = IF q = s THEN 1 ELSE booked[q]
    BY <2>2 DEF SlotInv, TypeOK
  <2>8. OneOwner'
    <3>1. \A o \in Opps, e \in Entries : LiveHold(o, e)' <=> LiveHold(o, e)
      BY <2>2 DEF LiveHold
    <3>2. \A o \in Opps : SlotOf[o] \in Slots
      BY SlotOffersAssumption
    <3>3. QED
      BY <2>3, <2>7, <3>1, <3>2 DEF SlotInv, OneOwner
  <2>9. QED
    BY <2>4, <2>5, <2>6, <2>8 DEF SlotInv
<1>2. CASE \E o \in Opps : CancelBooking(o)
  <2>1. PICK o \in Opps : CancelBooking(o)
    BY <1>2
  <2> DEFINE s == SlotOf[o]
  <2>2. /\ booked' = [booked EXCEPT ![s] = booked[s] - 1] /\ booked[s] > 0
        /\ event[o] = "none" /\ event' = [event EXCEPT ![o] = "pending"]
        /\ UNCHANGED <<now, opp, created, entry, offer, hold, expires, timer, tx, aborts>>
        /\ s \in Slots
    BY <2>1, SlotOffersAssumption DEF CancelBooking, chain
  <2> HIDE DEF s
  <2>3. booked[s] = 1
    BY <2>2 DEF SlotInv, TypeOK, OneOwner
  <2>4. \A q \in Slots : booked'[q] = IF q = s THEN 0 ELSE booked[q]
    BY <2>2, <2>3 DEF SlotInv, TypeOK
  <2>5. booked' \in [Slots -> Nat]
    BY <2>2, <2>3 DEF SlotInv, TypeOK
  <2>6. TypeOK'
    BY <2>2, <2>5 DEF SlotInv, TypeOK
  <2>7. \A p \in Opps : event'[p] = IF p = o THEN "pending" ELSE event[p]
    BY <2>2 DEF SlotInv, TypeOK
  <2>8. OffersAgree'
    BY <2>2, <2>7 DEF SlotInv, OffersAgree
  <2>9. OneOffer' /\ OneFulfilment'
    BY <2>2 DEF SlotInv, OneOffer, OneFulfilment
  <2>10. OneOwner'
    <3>1. \A p \in Opps, e \in Entries : LiveHold(p, e)' <=> LiveHold(p, e)
      BY <2>2 DEF LiveHold
    <3>2. \A p \in Opps : SlotOf[p] \in Slots
      BY SlotOffersAssumption
    <3>3. QED
      BY <2>4, <3>1, <3>2 DEF SlotInv, OneOwner
  <2>11. LocksHold'
    <3>1. \A t \in Open : tx[t].opp \in Opps
      BY OpenRow, TxFields DEF SlotInv, Open
    <3>2. \A t \in Open : Protected(tx[t])'
      BY <2>2, <2>7, <3>1 DEF SlotInv, LocksHold, Protected
    <3>3. Open' = Open
      BY <2>2 DEF Open
    <3>4. QED
      BY <2>2, <3>2, <3>3 DEF SlotInv, LocksHold
  <2>12. QED
    BY <2>6, <2>8, <2>9, <2>10, <2>11 DEF SlotInv
<1>3. QED
  BY <1>1, <1>2

\* Joining and leaving the waitlist: the entry is neither fulfilled, nor
\* offered a slot, nor locked by a transaction.
LEMMA WaitlistKeeps ==
    ASSUME SlotInv, NEW e \in Entries, JoinWaitlist(e) \/ LeaveWaitlist(e)
    PROVE  SlotInv'
<1>1. PICK st \in {"active", "cancelled"} : entry' = [entry EXCEPT ![e] = st]
  BY DEF JoinWaitlist, LeaveWaitlist
<1>2. /\ UNCHANGED <<now, booked, event, opp, created, offer, hold, expires, timer, tx, aborts>>
      /\ entry[e] # "fulfilled" /\ entry[e] \in {"none", "active"}
  BY DEF JoinWaitlist, LeaveWaitlist, chain
<1>3. \A f \in Entries : entry'[f] = IF f = e THEN st ELSE entry[f]
  BY <1>1 DEF SlotInv, TypeOK
<1>4. TypeOK'
  BY <1>1, <1>2 DEF SlotInv, TypeOK
<1>5. \A o \in Opps : offer[o][e] # "offered" /\ offer[o][e] # "accepted"
  BY <1>2 DEF JoinWaitlist, LeaveWaitlist, SlotInv, OffersAgree
<1>6. OffersAgree'
  BY <1>2, <1>3, <1>5 DEF SlotInv, OffersAgree
<1>7. OneOffer'
  BY <1>2 DEF SlotInv, OneOffer
<1>8. OneFulfilment'
  BY <1>2, <1>3 DEF SlotInv, OneFulfilment
<1>9. OneOwner'
  BY <1>2 DEF SlotInv, OneOwner, LiveHold
<1>10. \A t \in Open : tx[t].at = "acquire" => tx[t].cand \in Entries \ {e}
  <2>1. SUFFICES ASSUME NEW t \in Open, tx[t].at = "acquire", tx[t].cand = e PROVE FALSE
    BY OpenRow, TxFields DEF SlotInv, LocksHold, Protected, Open
  <2>2. entry[e] = "active"
    BY <2>1 DEF SlotInv, LocksHold, Protected
  <2>3. EntryLocked(e)
    BY <2>1, SlotOffersAssumption DEF EntryLocked, LockedBy
  <2>4. QED
    BY <2>2, <2>3 DEF JoinWaitlist, LeaveWaitlist
<1>11. LocksHold'
  <2>1. Open' = Open /\ tx' = tx
    BY <1>2 DEF Open
  <2>2. \A t \in Open : Protected(tx[t])'
    BY <1>2, <1>3, <1>10 DEF SlotInv, LocksHold, Protected
  <2>3. QED
    BY <2>1, <2>2 DEF SlotInv, LocksHold
<1>12. QED
  BY <1>4, <1>6, <1>7, <1>8, <1>9, <1>11 DEF SlotInv

\* The handler of a release event creates its opportunity or gives up.
LEMMA HandlerKeeps ==
    ASSUME SlotInv, NEW o \in Opps, CreateOpportunity(o) \/ GiveUp(o)
    PROVE  SlotInv'
<1>1. CASE CreateOpportunity(o)
  <2>1. /\ opp' = [opp EXCEPT ![o] = "open"] /\ created' = [created EXCEPT ![o] = now]
        /\ opp[o] = "none"
        /\ UNCHANGED <<now, booked, event, entry, offer, hold, expires, timer, tx, aborts>>
    BY <1>1 DEF CreateOpportunity, chain
  <2>2. TypeOK'
    BY <2>1 DEF SlotInv, TypeOK
  <2>3. \A p \in Opps : opp'[p] = IF p = o THEN "open" ELSE opp[p]
    BY <2>1 DEF SlotInv, TypeOK
  <2>4. OffersAgree'
    BY <2>1, <2>3 DEF SlotInv, OffersAgree
  <2>5. OneOffer' /\ OneFulfilment'
    BY <2>1, <2>3 DEF SlotInv, OneOffer, OneFulfilment
  <2>6. OneOwner'
    BY <2>1 DEF SlotInv, OneOwner, LiveHold
  <2>7. \A t \in Open : tx[t].opp \in Opps
    BY OpenRow, TxFields DEF SlotInv, Open
  <2>8. LocksHold'
    BY <2>1, <2>3, <2>7 DEF SlotInv, LocksHold, Open, Protected
  <2>9. QED
    BY <2>2, <2>4, <2>5, <2>6, <2>8 DEF SlotInv
<1>2. CASE GiveUp(o)
  <2>1. /\ event' = [event EXCEPT ![o] = "done"] /\ ~OppLocked(o)
        /\ UNCHANGED <<now, booked, opp, created, entry, offer, hold, expires, timer, tx, aborts>>
    BY <1>2 DEF GiveUp, chain
  <2>2. TypeOK'
    BY <2>1 DEF SlotInv, TypeOK
  <2>3. \A p \in Opps : event'[p] = IF p = o THEN "done" ELSE event[p]
    BY <2>1 DEF SlotInv, TypeOK
  <2>4. OffersAgree'
    BY <2>1, <2>3 DEF SlotInv, OffersAgree
  <2>5. OneOffer' /\ OneFulfilment' /\ OneOwner'
    BY <2>1 DEF SlotInv, OneOffer, OneFulfilment, OneOwner, LiveHold
  <2>6. \A t \in Open : tx[t].opp \in Opps \ {o}
    BY <2>1, OpenRow, TxFields DEF SlotInv, Open, OppLocked
  <2>7. LocksHold'
    BY <2>1, <2>3, <2>6 DEF SlotInv, LocksHold, Open, Protected
  <2>8. QED
    BY <2>2, <2>4, <2>5, <2>7 DEF SlotInv
<1>3. QED
  BY <1>1, <1>2

\* The expiry action changes hands, and the clock only ends holds.
LEMMA ClockKeeps ==
    ASSUME SlotInv,
           \/ Tick
           \/ \E o \in Opps, e \in Entries : ClaimTimer(o, e) \/ ExpireResolved(o, e)
    PROVE  SlotInv'
<1>1. /\ UNCHANGED <<booked, event, opp, created, entry, offer, hold, expires, tx, aborts>>
      /\ now' \in 0..MaxTime /\ now' >= now
  BY SlotOffersAssumption DEF Tick, ClaimTimer, ExpireResolved, chain, SlotInv, TypeOK
<1>2. timer' \in [Opps -> [Entries -> TimerStatus]]
  <2>1. timer \in [Opps -> [Entries -> TimerStatus]]
    BY DEF SlotInv, TypeOK, TimerStatus
  <2>2. \/ timer' = timer
        \/ \E o \in Opps, e \in Entries, v \in TimerStatus : timer' = [timer EXCEPT ![o][e] = v]
    BY DEF Tick, ClaimTimer, ExpireResolved, chain, TimerStatus
  <2>3. QED
    BY <2>1, <2>2
<1>3. TypeOK'
  BY <1>1, <1>2 DEF SlotInv, TypeOK, TimerStatus
<1>4. OffersAgree' /\ OneOffer' /\ OneFulfilment' /\ LocksHold'
  BY <1>1 DEF SlotInv, OffersAgree, OneOffer, OneFulfilment, LocksHold, Open, Protected
<1>5. \A o \in Opps, e \in Entries : LiveHold(o, e)' => LiveHold(o, e)
  BY <1>1, SlotOffersAssumption DEF LiveHold, SlotInv, TypeOK
<1>6. OneOwner'
  BY <1>1, <1>5 DEF SlotInv, OneOwner
<1>7. QED
  BY <1>3, <1>4, <1>6 DEF SlotInv

\* Accepting an offered SlotOffer turns its live hold into the Reservation; the
\* entry, the opportunity and the slot are locked by nobody else.
LEMMA AcceptKeeps ==
    ASSUME SlotInv, NEW o \in Opps, NEW e \in Entries, AcceptOffer(o, e)
    PROVE  SlotInv'
<1>1. /\ offer[o][e] = "offered" /\ opp[o] = "open" /\ LiveHold(o, e)
      /\ ~OppLocked(o) /\ ~EntryLocked(e)
      /\ \A p \in Opps \ {o} : offer[p][e] # "offered"
  BY DEF AcceptOffer
<1>2. /\ booked' = [booked EXCEPT ![SlotOf[o]] = booked[SlotOf[o]] + 1]
      /\ hold' = [hold EXCEPT ![o][e] = "consumed"]
      /\ offer' = [offer EXCEPT ![o][e] = "accepted"]
      /\ opp' = [opp EXCEPT ![o] = "filled"]
      /\ entry' = [entry EXCEPT ![e] = "fulfilled"]
      /\ UNCHANGED <<now, event, created, expires, tx, aborts>>
  BY DEF AcceptOffer
<1>3. timer' \in [Opps -> [Entries -> TimerStatus]]
  <2>1. timer \in [Opps -> [Entries -> TimerStatus]]
    BY DEF SlotInv, TypeOK, TimerStatus
  <2> DEFINE v == IF timer[o][e] = "pending" THEN "cancelled" ELSE timer[o][e]
  <2>2. v \in TimerStatus
    BY <2>1 DEF TimerStatus
  <2>3. timer' = [timer EXCEPT ![o][e] = v]
    BY DEF AcceptOffer
  <2> HIDE DEF v
  <2>4. QED
    BY <2>1, <2>2, <2>3
<1>4. /\ offer' \in [Opps -> [Entries -> OfferStatus]]
      /\ \A p \in Opps, f \in Entries :
            offer'[p][f] = IF p = o /\ f = e THEN "accepted" ELSE offer[p][f]
  <2>1. offer \in [Opps -> [Entries -> OfferStatus]] /\ "accepted" \in OfferStatus
    BY DEF SlotInv, TypeOK, OfferStatus
  <2>2. QED
    BY <1>2, <2>1
<1>5. /\ hold' \in [Opps -> [Entries -> HoldStatus]]
      /\ \A p \in Opps, f \in Entries :
            hold'[p][f] = IF p = o /\ f = e THEN "consumed" ELSE hold[p][f]
  <2>1. hold \in [Opps -> [Entries -> HoldStatus]] /\ "consumed" \in HoldStatus
    BY DEF SlotInv, TypeOK, HoldStatus
  <2>2. QED
    BY <1>2, <2>1
<1>6. /\ \A p \in Opps : opp'[p] = IF p = o THEN "filled" ELSE opp[p]
      /\ \A f \in Entries : entry'[f] = IF f = e THEN "fulfilled" ELSE entry[f]
  BY <1>2 DEF SlotInv, TypeOK
<1>7. SlotOf[o] \in Slots /\ booked[SlotOf[o]] = 0
  BY <1>1, SlotOffersAssumption DEF SlotInv, OneOwner
<1>8. /\ booked' \in [Slots -> Nat]
      /\ \A s \in Slots : booked'[s] = IF s = SlotOf[o] THEN 1 ELSE booked[s]
  BY <1>2, <1>7 DEF SlotInv, TypeOK
<1>9. TypeOK'
  BY <1>2, <1>3, <1>4, <1>5, <1>8 DEF SlotInv, TypeOK, OfferStatus, HoldStatus, TimerStatus
<1>10. /\ \A f \in Entries : offer[o][f] # "accepted" /\ (f # e => offer[o][f] # "offered")
       /\ \A p \in Opps : offer[p][e] # "accepted"
  BY <1>1 DEF SlotInv, OffersAgree, OneOffer
<1>11. OffersAgree'
  <2>1. SUFFICES ASSUME NEW p \in Opps, NEW f \in Entries
        PROVE  /\ hold'[p][f] = HoldOf(offer'[p][f])
               /\ offer'[p][f] = "offered" => opp'[p] = "open" /\ entry'[f] = "active"
               /\ offer'[p][f] = "accepted" => opp'[p] = "filled" /\ entry'[f] = "fulfilled"
               /\ offer'[p][f] # "none" => event'[p] = "done"
    BY DEF OffersAgree, HoldOf
  <2>2. /\ hold[p][f] = HoldOf(offer[p][f])
        /\ offer[p][f] = "offered" => opp[p] = "open" /\ entry[f] = "active"
        /\ offer[p][f] = "accepted" => opp[p] = "filled" /\ entry[f] = "fulfilled"
        /\ offer[p][f] # "none" => event[p] = "done"
    BY DEF SlotInv, OffersAgree
  <2>3. CASE p = o /\ f = e
    <3>1. offer'[p][f] = "accepted" /\ hold'[p][f] = "consumed"
      BY <1>4, <1>5, <2>3
    <3>2. opp'[p] = "filled" /\ entry'[f] = "fulfilled" /\ event'[p] = "done"
      BY <1>1, <1>2, <1>6, <2>2, <2>3
    <3>3. QED
      BY <3>1, <3>2 DEF HoldOf
  <2>4. CASE ~(p = o /\ f = e)
    <3>1. offer'[p][f] = offer[p][f] /\ hold'[p][f] = hold[p][f] /\ event'[p] = event[p]
      BY <1>2, <1>4, <1>5, <2>4
    <3>2. p = o => offer[p][f] # "offered"
      BY <1>10, <2>4
    <3>3. f = e => offer[p][f] # "offered"
      BY <1>1, <2>4
    <3>4. QED
      BY <1>6, <2>2, <3>1, <3>2, <3>3
  <2>5. QED
    BY <2>3, <2>4
<1>12. OneOffer'
  <2>1. \A p \in Opps, f, g \in Entries :
           \/ f = g
           \/ ~(offer'[p][f] = "offered" /\ offer'[p][g] = "offered")
              /\ ~(offer'[p][f] = "accepted" /\ offer'[p][g] = "accepted")
    BY <1>4, <1>10 DEF SlotInv, OneOffer
  <2>2. ASSUME NEW p \in Opps, opp'[p] = "filled"
        PROVE  \E f \in Entries : offer'[p][f] = "accepted"
    <3>1. CASE p = o
      BY <1>4, <3>1
    <3>2. CASE p # o
      BY <1>4, <1>6, <2>2, <3>2 DEF SlotInv, OneOffer
    <3>3. QED
      BY <3>1, <3>2
  <2>3. QED
    BY <2>1, <2>2 DEF OneOffer
<1>13. OneFulfilment'
  <2>1. \A p, q \in Opps, f \in Entries :
           offer'[p][f] = "accepted" /\ offer'[q][f] = "accepted" => p = q
    BY <1>4, <1>10 DEF SlotInv, OneFulfilment
  <2>2. ASSUME NEW f \in Entries, entry'[f] = "fulfilled"
        PROVE  \E p \in Opps : offer'[p][f] = "accepted"
    <3>1. CASE f = e
      BY <1>4, <3>1
    <3>2. CASE f # e
      BY <1>4, <1>6, <2>2, <3>2 DEF SlotInv, OneFulfilment
    <3>3. QED
      BY <3>1, <3>2
  <2>3. QED
    BY <2>1, <2>2 DEF OneFulfilment
<1>14. OneOwner'
  <2>1. \A p \in Opps, f \in Entries :
           LiveHold(p, f)' => LiveHold(p, f) /\ ~(p = o /\ f = e)
    BY <1>2, <1>5 DEF LiveHold
  <2>2. \A p \in Opps, f \in Entries : LiveHold(p, f)' => SlotOf[p] # SlotOf[o]
    BY <1>1, <2>1 DEF SlotInv, OneOwner
  <2>3. \A p \in Opps : SlotOf[p] \in Slots
    BY SlotOffersAssumption
  <2>4. QED
    BY <1>8, <2>1, <2>2, <2>3 DEF SlotInv, OneOwner
<1>15. LocksHold'
  <2>1. Open' = Open /\ tx' = tx
    BY <1>2 DEF Open
  <2>2. ASSUME NEW t \in Open PROVE Protected(tx[t])'
    <3>1. tx[t] \in Tx /\ Protected(tx[t])
      BY OpenRow DEF SlotInv, LocksHold, Open
    <3>2. /\ tx[t].opp \in Opps \ {o} /\ tx[t].from \in Entries \cup {0}
          /\ tx[t].snap \in SUBSET Entries
      BY <1>1, <3>1, TxFields DEF OppLocked
    <3>3. tx[t].at = "acquire" => tx[t].cand # e
      BY <1>1, SlotOffersAssumption DEF EntryLocked, LockedBy
    <3>4. \A f \in Entries : offer'[tx[t].opp][f] = offer[tx[t].opp][f]
      BY <1>4, <3>2
    <3>5. QED
      BY <1>2, <1>6, <2>1, <3>1, <3>2, <3>3, <3>4 DEF Protected
  <2>3. QED
    BY <2>1, <2>2 DEF SlotInv, LocksHold
<1>16. QED
  BY <1>9, <1>11, <1>12, <1>13, <1>14, <1>15 DEF SlotInv

-----------------------------------------------------------------------------
(* The theorems *)

\* Nothing is offered before a slot is released.
LEMMA InitHolds ==
    ASSUME Init PROVE SlotInv
<1>1. TypeOK
  BY SlotOffersAssumption DEF Init, TypeOK
<1>2. Open = {}
  BY DEF Init, Open
<1>3. \A o \in Opps, e \in Entries :
         offer[o][e] = "none" /\ hold[o][e] = "none" /\ opp[o] = "none" /\ entry[e] = "none"
  BY DEF Init
<1>4. OffersAgree
  BY <1>3 DEF OffersAgree, HoldOf
<1>5. OneOffer /\ OneFulfilment
  BY <1>3 DEF OneOffer, OneFulfilment, Init
<1>6. OneOwner
  BY <1>3 DEF OneOwner, LiveHold, Init
<1>7. LocksHold
  BY <1>2 DEF LocksHold
<1>8. QED
  BY <1>1, <1>4, <1>5, <1>6, <1>7 DEF SlotInv

\* Every step keeps the invariant.
LEMMA NextKeeps ==
    ASSUME SlotInv, [Next]_vars PROVE SlotInv'
<1>1. CASE \/ \E s \in Slots : BookDirect(s)
           \/ \E o \in Opps : CancelBooking(o)
  BY <1>1, BookingKeeps
<1>2. CASE \E e \in Entries : JoinWaitlist(e) \/ LeaveWaitlist(e)
  BY <1>2, WaitlistKeeps
<1>3. CASE \E o \in Opps : CreateOpportunity(o) \/ GiveUp(o)
  BY <1>3, HandlerKeeps
<1>4. CASE \E t \in Txs, o \in Opps : BeginFirst(t, o)
  BY <1>4, BeginFirstKeeps
<1>5. CASE \E t \in Txs, o \in Opps, e \in Entries : BeginDecline(t, o, e) \/ BeginExpire(t, o, e)
  BY <1>5, BeginResolveKeeps
<1>6. CASE \E t \in Txs : TxStep(t) \/ Abort(t)
  <2>1. PICK t \in Txs : TxStep(t) \/ Abort(t)
    BY <1>6
  <2>2. CASE SelectCandidate(t) \/ LockCandidate(t) \/ SkipCandidate(t)
    BY <2>2, StatementKeeps
  <2>3. CASE RollBackLate(t) \/ Abort(t)
    BY <2>3, EndKeeps
  <2>4. CASE CommitStarted(t) \/ CommitNobody(t) \/ CommitTaken(t)
    <3>1. t \in Open
      BY <2>4, OpenRow DEF SlotInv, CommitStarted, CommitNobody, CommitTaken, Acquires
    <3>2. opp[tx[t].opp] = "open"
      BY <3>1 DEF SlotInv, LocksHold, Protected
    <3>3. \E status \in {"open", "closed", "expired"} : CommitWithout(t, status)
      BY <2>4, <3>2 DEF CommitStarted, CommitNobody, CommitTaken
    <3>4. QED
      BY <3>1, <3>3, CommitWithoutKeeps
  <2>5. CASE CommitOffer(t)
    <3>1. t \in Open
      BY <2>5, OpenRow DEF SlotInv, CommitOffer, Acquires
    <3>2. QED
      BY <2>5, <3>1, CommitOfferKeeps
  <2>6. QED
    BY <2>1, <2>2, <2>3, <2>4, <2>5 DEF TxStep
<1>7. CASE \E o \in Opps, e \in Entries : AcceptOffer(o, e)
  BY <1>7, AcceptKeeps
<1>8. CASE \/ Tick
           \/ \E o \in Opps, e \in Entries : ClaimTimer(o, e) \/ ExpireResolved(o, e)
  BY <1>8, ClockKeeps
<1>9. CASE UNCHANGED vars
  BY <1>9 DEF vars, SlotInv, TypeOK, OffersAgree, OneOffer, OneFulfilment, OneOwner,
              LiveHold, LocksHold, Open, Protected
<1>10. QED
  BY <1>1, <1>2, <1>3, <1>4, <1>5, <1>6, <1>7, <1>8, <1>9 DEF Next

\* The invariant of the offer chain holds in every reachable state: what an
\* open offering transaction has read under its locks is still true, and every
\* slot, opportunity and entry has one owner, one offer and one fulfilment.
THEOREM SlotInvariant == Spec => []SlotInv
<1>1. Init => SlotInv
  BY InitHolds
<1>2. SlotInv /\ [Next]_vars => SlotInv'
  BY NextKeeps
<1>3. QED
  BY <1>1, <1>2, PTL DEF Spec

\* A set without two different elements has at most one.
LEMMA AtMostOne ==
    ASSUME NEW S, \A x, y \in S : x = y
    PROVE  /\ Cardinality(S) \in {0, 1}
           /\ S # {} => Cardinality(S) = 1
           /\ S = {} => Cardinality(S) = 0
<1>1. CASE S = {}
  BY <1>1, FS_EmptySet
<1>2. CASE S # {}
  <2>1. PICK x : S = {x}
    BY <1>2
  <2>2. Cardinality(S) = 1
    BY <2>1, FS_Singleton
  <2>3. QED
    BY <1>2, <2>2
<1>3. QED
  BY <1>1, <1>2

\* No slot has two owners: confirmed Reservations and live holds of all
\* opportunities together (guard_capacity_claim, _assert_live_hold), for any
\* number of slots, releases, entries and concurrent offering transactions.
THEOREM OneOwnerPerSlot == Spec => []NoOverbooking
<1>1. SlotInv => NoOverbooking
  <2>1. SUFFICES ASSUME SlotInv, NEW s \in Slots
        PROVE  booked[s] + Cardinality(LiveHoldsOn(s)) <= 1
    BY DEF NoOverbooking
  <2>2. booked[s] \in Nat /\ booked[s] <= 1
    BY <2>1 DEF SlotInv, TypeOK, OneOwner
  <2>3. ASSUME NEW x \in LiveHoldsOn(s), NEW y \in LiveHoldsOn(s) PROVE x = y
    <3>1. /\ x = <<x[1], x[2]>> /\ x[1] \in Opps /\ x[2] \in Entries
          /\ SlotOf[x[1]] = s /\ LiveHold(x[1], x[2])
      BY DEF LiveHoldsOn
    <3>2. /\ y = <<y[1], y[2]>> /\ y[1] \in Opps /\ y[2] \in Entries
          /\ SlotOf[y[1]] = s /\ LiveHold(y[1], y[2])
      BY DEF LiveHoldsOn
    <3>3. x[1] = y[1] /\ x[2] = y[2]
      BY <2>1, <3>1, <3>2 DEF SlotInv, OneOwner
    <3>4. QED
      BY <3>1, <3>2, <3>3
  <2>4. LiveHoldsOn(s) # {} => booked[s] = 0
    BY <2>1 DEF SlotInv, OneOwner, LiveHoldsOn
  <2>5. /\ Cardinality(LiveHoldsOn(s)) \in {0, 1}
        /\ LiveHoldsOn(s) = {} => Cardinality(LiveHoldsOn(s)) = 0
    BY <2>3, AtMostOne
  <2>6. QED
    BY <2>2, <2>4, <2>5
<1>2. QED
  BY <1>1, SlotInvariant, PTL

\* Offer, hold, opportunity and entry tell the same story in every reachable
\* state (assert_slot_offer_consistency).
THEOREM OneStory == Spec => []ChainConsistent
<1>1. SlotInv => ChainConsistent
  <2>1. SUFFICES ASSUME SlotInv, NEW o \in Opps
        PROVE  /\ Cardinality({e \in Entries : offer[o][e] = "offered"}) <= 1
               /\ opp[o] = "filled" => Cardinality({e \in Entries : offer[o][e] = "accepted"}) = 1
    BY DEF ChainConsistent, SlotInv, OffersAgree
  <2>2. Cardinality({e \in Entries : offer[o][e] = "offered"}) \in {0, 1}
    <3>1. \A x, y \in {e \in Entries : offer[o][e] = "offered"} : x = y
      BY <2>1 DEF SlotInv, OneOffer
    <3>2. QED
      BY <3>1, AtMostOne
  <2>3. opp[o] = "filled" => Cardinality({e \in Entries : offer[o][e] = "accepted"}) = 1
    <3>1. \A x, y \in {e \in Entries : offer[o][e] = "accepted"} : x = y
      BY <2>1 DEF SlotInv, OneOffer
    <3>2. opp[o] = "filled" => {e \in Entries : offer[o][e] = "accepted"} # {}
      BY <2>1 DEF SlotInv, OneOffer
    <3>3. QED
      BY <3>1, <3>2, AtMostOne
  <2>4. QED
    BY <2>2, <2>3
<1>2. QED
  BY <1>1, SlotInvariant, PTL

\* A waitlist entry is fulfilled by exactly one Reservation, although two
\* opportunities may offer to it at the same time.
THEOREM OneReservationPerEntry == Spec => []FulfilledOnce
<1>1. SlotInv => FulfilledOnce
  <2>1. SUFFICES ASSUME SlotInv, NEW e \in Entries
        PROVE  Cardinality({o \in Opps : offer[o][e] = "accepted"})
               = IF entry[e] = "fulfilled" THEN 1 ELSE 0
    BY DEF FulfilledOnce
  <2>2. \A x, y \in {o \in Opps : offer[o][e] = "accepted"} : x = y
    BY <2>1 DEF SlotInv, OneFulfilment
  <2>3. entry[e] = "fulfilled" <=> {o \in Opps : offer[o][e] = "accepted"} # {}
    BY <2>1 DEF SlotInv, OneFulfilment, OffersAgree
  <2>4. QED
    BY <2>2, <2>3, AtMostOne
<1>2. QED
  BY <1>1, SlotInvariant, PTL

\* A commit writes to no offer but the one it resolves and the one it makes.
LEMMA CommitRewritesNothing ==
    ASSUME SlotInv, NEW t \in Open, NEW o \in Opps, NEW e \in Entries,
           offer' = ResolvedOffer(t) \/ CommitOffer(t), offer'[o][e] # offer[o][e]
    PROVE  \/ offer[o][e] = "none" /\ offer'[o][e] = "offered"
           \/ offer[o][e] = "offered"
<1>1. tx[t] \in Tx /\ Protected(tx[t])
  BY OpenRow DEF SlotInv, LocksHold, Open
<1>2. /\ ResolvedOffer(t) \in [Opps -> [Entries -> OfferStatus]]
      /\ ResolvedOffer(t)[o][e] =
            IF o = tx[t].opp /\ e = tx[t].from THEN tx[t].kind ELSE offer[o][e]
  BY <1>1, ResolvedColumns DEF SlotInv
<1>3. o = tx[t].opp /\ e = tx[t].from => offer[o][e] = "offered"
  BY <1>1, SlotOffersAssumption DEF Protected
<1>4. CASE offer' = ResolvedOffer(t)
  BY <1>2, <1>3, <1>4
<1>5. CASE CommitOffer(t)
  <2>1. tx[t].opp \in Opps /\ tx[t].cand \in Entries /\ offer[tx[t].opp][tx[t].cand] = "none"
    BY <1>1, <1>5, TxFields DEF Protected, CommitOffer, Acquires
  <2>2. offer'[o][e] = IF o = tx[t].opp /\ e = tx[t].cand THEN "offered"
                       ELSE ResolvedOffer(t)[o][e]
    BY <1>2, <1>5, <2>1 DEF CommitOffer
  <2>3. QED
    BY <1>2, <1>3, <2>1, <2>2
<1>6. QED
  BY <1>4, <1>5

\* A resolved offer is history: no step offers an opportunity to the same entry
\* again, and accept, decline and expiry never overwrite one another.
THEOREM ResolvedIsFinal == Spec => NeverReoffered
<1> DEFINE Lawful == \A o \in Opps, e \in Entries :
              offer'[o][e] # offer[o][e] => \/ offer[o][e] = "none" /\ offer'[o][e] = "offered"
                                            \/ offer[o][e] = "offered"
<1>1. SlotInv /\ [Next]_vars => [Lawful]_vars
  <2>1. SUFFICES ASSUME SlotInv, Next, NEW o \in Opps, NEW e \in Entries,
                        offer'[o][e] # offer[o][e]
        PROVE  \/ offer[o][e] = "none" /\ offer'[o][e] = "offered"
               \/ offer[o][e] = "offered"
    BY DEF vars
  <2>2. CASE \E p \in Opps, f \in Entries : AcceptOffer(p, f)
    BY <2>1, <2>2 DEF AcceptOffer, SlotInv, TypeOK
  <2>3. CASE \E t \in Txs : CommitStarted(t) \/ CommitNobody(t) \/ CommitTaken(t) \/ CommitOffer(t)
    <3>1. PICK t \in Txs : CommitStarted(t) \/ CommitNobody(t) \/ CommitTaken(t) \/ CommitOffer(t)
      BY <2>3
    <3>2. t \in Open
      BY <2>1, <3>1, OpenRow
         DEF SlotInv, CommitStarted, CommitNobody, CommitTaken, CommitOffer, Acquires
    <3>3. offer' = ResolvedOffer(t) \/ CommitOffer(t)
      BY <3>1 DEF CommitStarted, CommitNobody, CommitTaken, CommitWithout
    <3>4. QED
      BY <2>1, <3>2, <3>3, CommitRewritesNothing
  <2>4. QED
    <3>1. \/ \E p \in Opps, f \in Entries : AcceptOffer(p, f)
          \/ \E t \in Txs : CommitStarted(t) \/ CommitNobody(t) \/ CommitTaken(t) \/ CommitOffer(t)
          \/ offer' = offer
      BY ZenonT(40), <2>1 DEF Next, TxStep, BookDirect, JoinWaitlist, LeaveWaitlist, CancelBooking,
                  CreateOpportunity, GiveUp, BeginFirst, BeginDecline, BeginExpire, Begin,
                  SelectCandidate, LockCandidate, SkipCandidate, RollBackLate, Abort,
                  ClaimTimer, ExpireResolved, Tick, chain
    <3>2. QED
      BY SMTT(30), <2>1, <2>2, <2>3, <3>1
<1>2. QED
  BY <1>1, SlotInvariant, PTL DEF Spec, NeverReoffered

=============================================================================
