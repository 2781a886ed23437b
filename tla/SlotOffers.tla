------------------------------ MODULE SlotOffers ------------------------------
(***************************************************************************)
(* Recovery of released appointment slots: a cancelled Reservation frees   *)
(* its slot, the lifecycle worker opens a SlotOpportunity for it, and the  *)
(* opportunity is offered to one waitlist entry after another.  An offer   *)
(* holds the slot's capacity until it expires; direct bookings compete for *)
(* the same capacity.                                                      *)
(*                                                                         *)
(* Offering a slot to the next candidate is a transaction of several       *)
(* statements (PostgresSlotOfferCommands._issue_next_locked), modelled     *)
(* step by step: other transactions run between two of them, under READ    *)
(* COMMITTED and the row locks taken so far.  What a transaction writes is *)
(* applied by its last step, because nobody sees it before the commit.     *)
(* Everything else is a transaction that takes all its locks before it     *)
(* reads what it decides on, and is one step.                              *)
(*                                                                         *)
(* A slot is one interval of one exclusive Resource.  Waitlist entries are *)
(* numbered by (created_at, id).                                           *)
(***************************************************************************)
EXTENDS Integers, FiniteSets, FiniteSetsExt

CONSTANTS
    Slots,      \* intervals of an exclusive Resource
    Opps,       \* SlotOpportunities, one per release event
    SlotOf,     \* slot an opportunity offers
    Entries,    \* waitlist entries 1..n
    Wants,      \* pairs <<e, o>>: offering, location and time window match
    Suits,      \* pairs <<e, o>>: the preferred Resource is the slot's
    StartAt,    \* start of every slot
    OfferTTL,   \* offer_ttl_seconds
    MinTTL,     \* the 30 seconds an offer lasts at least
    MaxTime,    \* bound on clock_timestamp()
    Txs,        \* concurrent offering transactions
    MaxAborts   \* bound on offering transactions that roll back

ASSUME SlotOffersAssumption ==
    /\ SlotOf \in [Opps -> Slots]
    /\ Entries \subseteq Nat \ {0}
    /\ Wants \subseteq Entries \X Opps
    /\ Suits \subseteq Entries \X Opps
    /\ StartAt \in Nat \ {0}
    /\ OfferTTL \in Nat \ {0}
    /\ MinTTL \in 1..OfferTTL
    /\ MaxTime \in Nat
    /\ MaxAborts \in Nat

VARIABLES
    now,      \* clock_timestamp()
    booked,   \* confirmed Reservations whose claims occupy the slot
    event,    \* the release event of an opportunity, in the outbox
    opp,      \* slot_opportunities.status, "none" before the insert
    created,  \* slot_opportunities.created_at
    entry,    \* waitlist_entries.status, "none" before the insert
    offer,    \* offer[o][e]: slot_offers.status, "none" before the insert
    hold,     \* hold[o][e]: capacity_holds.status of the offer's hold
    expires,  \* expires[o][e]: expires_at of the offer and of its hold
    timer,    \* timer[o][e]: status of the expiry scheduled action
    tx,       \* tx[t]: an open offering transaction, or Idle
    aborts    \* offering transactions rolled back so far

vars == <<now, booked, event, opp, created, entry, offer, hold, expires, timer,
          tx, aborts>>
chain == <<offer, hold, expires, timer>>

Idle == [at |-> "idle"]

\* kind: what the transaction does before it looks for the next candidate;
\* from: the entry whose offer it resolves, 0 for a first offer.
Tx == [at: {"started", "select", "lock", "acquire"}, kind: {"first", "declined", "expired"},
       opp: Opps, from: Entries \cup {0}, deadline: 0..MaxTime + OfferTTL,
       snap: SUBSET Entries, skipped: SUBSET Entries, cand: Entries \cup {0}]

TypeOK ==
    /\ now \in 0..MaxTime
    /\ booked \in [Slots -> Nat]
    /\ event \in [Opps -> {"none", "pending", "done"}]
    /\ opp \in [Opps -> {"none", "open", "filled", "closed", "expired"}]
    /\ created \in [Opps -> 0..MaxTime]
    /\ entry \in [Entries -> {"none", "active", "fulfilled", "cancelled"}]
    /\ offer \in [Opps -> [Entries ->
          {"none", "offered", "accepted", "declined", "expired"}]]
    /\ hold \in [Opps -> [Entries ->
          {"none", "active", "consumed", "released", "expired"}]]
    /\ expires \in [Opps -> [Entries -> 0..MaxTime + OfferTTL]]
    /\ timer \in [Opps -> [Entries ->
          {"none", "pending", "leased", "completed", "cancelled"}]]
    /\ tx \in [Txs -> Tx \cup {Idle}]
    /\ aborts \in 0..MaxAborts

\* Every slot is taken and nobody waits yet.
Init ==
    /\ now = 0
    /\ booked = [s \in Slots |-> 1]
    /\ event = [o \in Opps |-> "none"]
    /\ opp = [o \in Opps |-> "none"]
    /\ created = [o \in Opps |-> 0]
    /\ entry = [e \in Entries |-> "none"]
    /\ offer = [o \in Opps |-> [e \in Entries |-> "none"]]
    /\ hold = [o \in Opps |-> [e \in Entries |-> "none"]]
    /\ expires = [o \in Opps |-> [e \in Entries |-> 0]]
    /\ timer = [o \in Opps |-> [e \in Entries |-> "none"]]
    /\ tx = [t \in Txs |-> Idle]
    /\ aborts = 0

-----------------------------------------------------------------------------
(* Row locks of the open offering transactions *)

Open == {t \in Txs : tx[t] # Idle}

OppLocked(o) == \E t \in Open : tx[t].opp = o

\* The candidate's row and the rows skipped for their preference.
LockedBy(t) == tx[t].skipped \cup (IF tx[t].cand = 0 THEN {} ELSE {tx[t].cand})

EntryLocked(e) == \E t \in Open : e \in LockedBy(t)

\* release_slot_offer_hold locks the Resource of the hold it ends.
HoldsResource(t, s) == tx[t].from # 0 /\ SlotOf[tx[t].opp] = s

ResourceLocked(s) == \E t \in Open : HoldsResource(t, s)

\* h.status = 'active' AND h.expires_at > clock_timestamp()
LiveHold(o, e) == hold[o][e] = "active" /\ expires[o][e] > now

LiveHoldsOn(s) == {h \in Opps \X Entries : SlotOf[h[1]] = s /\ LiveHold(h[1], h[2])}

\* guard_capacity_claim and load_live_capacity_claims: no confirmed
\* Reservation and no live hold outside mine occupies the slot.
SlotFree(s, mine) == booked[s] = 0 /\ LiveHoldsOn(s) \subseteq mine

-----------------------------------------------------------------------------
(* Booking and the waitlist *)

\* book_appointment: Resource lock, revalidation, guard_capacity_claim.
BookDirect(s) ==
    /\ now < StartAt
    /\ ~ResourceLocked(s)
    /\ SlotFree(s, {})
    /\ booked' = [booked EXCEPT ![s] = @ + 1]
    /\ UNCHANGED <<now, event, opp, created, entry, chain, tx, aborts>>

\* cancel_reservation releases the claim and appends the release event.
CancelBooking(o) ==
    /\ event[o] = "none"
    /\ booked[SlotOf[o]] > 0
    /\ ~ResourceLocked(SlotOf[o])
    /\ booked' = [booked EXCEPT ![SlotOf[o]] = @ - 1]
    /\ event' = [event EXCEPT ![o] = "pending"]
    /\ UNCHANGED <<now, opp, created, entry, chain, tx, aborts>>

\* join_waitlist; a number is a position in (created_at, id) order.
JoinWaitlist(e) ==
    /\ entry[e] = "none"
    /\ \A f \in Entries : f < e => entry[f] # "none"
    /\ entry' = [entry EXCEPT ![e] = "active"]
    /\ UNCHANGED <<now, booked, event, opp, created, chain, tx, aborts>>

\* Defect: without the deferred source-consistency trigger.
LeaveAnytime(e) ==
    /\ entry[e] = "active"
    /\ ~EntryLocked(e)
    /\ entry' = [entry EXCEPT ![e] = "cancelled"]
    /\ UNCHANGED <<now, booked, event, opp, created, chain, tx, aborts>>

\* leave_waitlist; at the commit the deferred source-consistency trigger
\* refuses to cancel an entry that an offered SlotOffer points to.
LeaveWaitlist(e) ==
    /\ entry[e] = "active"
    /\ ~EntryLocked(e)
    /\ \A o \in Opps : offer[o][e] # "offered"
    /\ entry' = [entry EXCEPT ![e] = "cancelled"]
    /\ UNCHANGED <<now, booked, event, opp, created, chain, tx, aborts>>

-----------------------------------------------------------------------------
(* recover_released_slot, run by the lifecycle handler of the release event *)

CreateOpportunity(o) ==
    /\ event[o] = "pending"
    /\ opp[o] = "none"
    /\ now < StartAt
    /\ opp' = [opp EXCEPT ![o] = "open"]
    /\ created' = [created EXCEPT ![o] = now]
    /\ UNCHANGED <<now, booked, event, entry, chain, tx, aborts>>

Earlier(a, b) == IF a < b THEN a ELSE b

\* The slot has started, or the time to offer it is over because the handler
\* was delayed after creating the opportunity: no offer is attempted.
GiveUp(o) ==
    /\ event[o] = "pending"
    /\ ~OppLocked(o)
    /\ \/ opp[o] = "none" /\ now >= StartAt
       \/ opp[o] = "open" /\ now >= Earlier(created[o] + OfferTTL, StartAt)
    /\ event' = [event EXCEPT ![o] = "done"]
    /\ UNCHANGED <<now, booked, opp, created, entry, chain, tx, aborts>>

-----------------------------------------------------------------------------
(* Offering transactions *)

\* effective_expires_at of _issue_next_locked.
Deadline(asked) ==
    LET d == Earlier(asked, StartAt)
    IN  IF d <= now THEN Earlier(now + MinTTL, StartAt) ELSE d

\* Lock the opportunity and what the command resolves, then enter
\* _issue_next_locked.
Begin(t, o, kind, from, asked) ==
    /\ tx[t] = Idle
    /\ ~OppLocked(o)
    /\ tx' = [tx EXCEPT ![t] =
          [at |-> IF now >= StartAt THEN "started" ELSE "select",
           kind |-> kind, opp |-> o, from |-> from, deadline |-> Deadline(asked),
           snap |-> {}, skipped |-> {}, cand |-> 0]]
    /\ UNCHANGED <<now, booked, event, opp, created, entry, chain, aborts>>

\* offer_next_waitlist_candidate, called once per release event.  The caller
\* compared the deadline with its own clock some time before.
BeginFirst(t, o) ==
    /\ event[o] = "pending"
    /\ opp[o] = "open"
    /\ Begin(t, o, "first", 0, created[o] + OfferTTL)

\* The next offer lasts as long as the resolved one did, at least MinTTL.
\* slot_offers.created_at is not kept; every offer lasts at most OfferTTL.
NextTTLs == MinTTL..OfferTTL

\* decline_slot_offer, in time.
BeginDecline(t, o, e) ==
    /\ offer[o][e] = "offered"
    /\ expires[o][e] > now
    /\ ~ResourceLocked(SlotOf[o])
    /\ \E ttl \in NextTTLs : Begin(t, o, "declined", e, now + ttl)

\* expire_slot_offer, under a live claim of the expiry action.
BeginExpire(t, o, e) ==
    /\ timer[o][e] = "leased"
    /\ offer[o][e] = "offered"
    /\ expires[o][e] <= now
    /\ ~ResourceLocked(SlotOf[o])
    /\ \E ttl \in NextTTLs : Begin(t, o, "expired", e, now + ttl)

\* Defect: without NOT EXISTS (prior_offer).
CandidatesAgain(o, skipped) ==
    {e \in Entries \ skipped :
        /\ entry[e] = "active"
        /\ <<e, o>> \in Wants
        /\ \A p \in Opps : offer[p][e] # "offered"}

\* The WHERE clause of _select_candidate.
Candidates(o, skipped) ==
    {e \in Entries \ skipped :
        /\ entry[e] = "active"
        /\ <<e, o>> \in Wants
        /\ offer[o][e] = "none"
        /\ \A p \in Opps : offer[p][e] # "offered"}

\* _select_candidate starts: the statement's snapshot is taken.
SelectCandidate(t) ==
    /\ tx[t].at = "select"
    /\ tx' = [tx EXCEPT ![t].at = "lock",
                        ![t].snap = Candidates(tx[t].opp, tx[t].skipped)]
    /\ UNCHANGED <<now, booked, event, opp, created, entry, chain, aborts>>

\* FOR UPDATE SKIP LOCKED LIMIT 1 in (created_at, id) order.  A row updated
\* since the snapshot is evaluated again; offers made since then do not
\* update the row.
Lockable(t) == {e \in tx[t].snap : ~EntryLocked(e) /\ entry[e] = "active"}

LockCandidate(t) ==
    /\ tx[t].at = "lock"
    /\ Lockable(t) # {}
    /\ tx' = [tx EXCEPT ![t].at = "acquire", ![t].cand = Min(Lockable(t))]
    /\ UNCHANGED <<now, booked, event, opp, created, entry, chain, aborts>>

\* What the transaction wrote before it looked for a candidate, applied to
\* one column of the offer it resolves; the expiry action is cancelled only
\* while pending, and completed if this is its own handler.
Resolved(t, column, value) ==
    IF tx[t].from = 0 THEN column
    ELSE [column EXCEPT ![tx[t].opp][tx[t].from] = value]

ResolvedOffer(t) == Resolved(t, offer, tx[t].kind)
ResolvedHold(t) ==
    Resolved(t, hold, IF tx[t].kind = "expired" THEN "expired" ELSE "released")
ResolvedTimer(t) ==
    LET old == timer[tx[t].opp][tx[t].from]
    IN  Resolved(t, timer, IF tx[t].kind = "expired" THEN "completed"
                           ELSE IF old = "pending" THEN "cancelled" ELSE old)

Commit(t) ==
    /\ event' = IF tx[t].kind = "first"
                THEN [event EXCEPT ![tx[t].opp] = "done"] ELSE event
    /\ tx' = [tx EXCEPT ![t] = Idle]

\* The opportunity gets no further offer from this transaction.
CommitWithout(t, status) ==
    /\ opp' = [opp EXCEPT ![tx[t].opp] = status]
    /\ offer' = ResolvedOffer(t)
    /\ hold' = ResolvedHold(t)
    /\ timer' = ResolvedTimer(t)
    /\ Commit(t)
    /\ UNCHANGED <<now, booked, created, entry, expires, aborts>>

\* start_at <= db_now: _close_opportunity(..., "expired")
CommitStarted(t) ==
    /\ tx[t].at = "started"
    /\ CommitWithout(t, "expired")

\* No candidate: the opportunity stays open.
CommitNobody(t) ==
    /\ tx[t].at = "lock"
    /\ Lockable(t) = {}
    /\ CommitWithout(t, opp[tx[t].opp])

\* acquire_slot_offer_hold starts: a hold created now would not be expired.
Acquires(t) == tx[t].at = "acquire" /\ tx[t].deadline > now

\* The slot is free once the transaction's own hold is gone.
Vacant(t) == SlotFree(SlotOf[tx[t].opp], {<<tx[t].opp, tx[t].from>>})

\* SlotOfferCapacityUnavailable: _close_opportunity(..., "closed")
CommitTaken(t) ==
    /\ Acquires(t)
    /\ ~Vacant(t)
    /\ CommitWithout(t, "closed")

\* SlotOfferCandidatePreferenceUnavailable: look for another candidate,
\* keeping the lock on this one.
SkipCandidate(t) ==
    /\ Acquires(t)
    /\ Vacant(t)
    /\ <<tx[t].cand, tx[t].opp>> \notin Suits
    /\ tx' = [tx EXCEPT ![t].at = "select", ![t].skipped = @ \cup {tx[t].cand},
                        ![t].cand = 0, ![t].snap = {}]
    /\ UNCHANGED <<now, booked, event, opp, created, entry, chain, aborts>>

\* Defect: the expiry action is not scheduled.
CommitOfferUntimed(t) ==
    LET o == tx[t].opp
        e == tx[t].cand
    IN  /\ Acquires(t)
        /\ Vacant(t)
        /\ <<e, o>> \in Suits
        /\ \A u \in Open \ {t} : ~HoldsResource(u, SlotOf[o])
        /\ offer' = [ResolvedOffer(t) EXCEPT ![o][e] = "offered"]
        /\ hold' = [ResolvedHold(t) EXCEPT ![o][e] = "active"]
        /\ timer' = ResolvedTimer(t)
        /\ expires' = [expires EXCEPT ![o][e] = tx[t].deadline]
        /\ Commit(t)
        /\ UNCHANGED <<now, booked, opp, created, entry, aborts>>

\* acquire_slot_offer_hold under the Resource lock, the offer with its expiry
\* action, and the commit with its deferred checks.
CommitOffer(t) ==
    LET o == tx[t].opp
        e == tx[t].cand
    IN  /\ Acquires(t)
        /\ Vacant(t)
        /\ <<e, o>> \in Suits
        /\ \A u \in Open \ {t} : ~HoldsResource(u, SlotOf[o])
        /\ offer' = [ResolvedOffer(t) EXCEPT ![o][e] = "offered"]
        /\ hold' = [ResolvedHold(t) EXCEPT ![o][e] = "active"]
        /\ timer' = [ResolvedTimer(t) EXCEPT ![o][e] = "pending"]
        /\ expires' = [expires EXCEPT ![o][e] = tx[t].deadline]
        /\ Commit(t)
        /\ UNCHANGED <<now, booked, opp, created, entry, aborts>>

\* InvalidHoldExpiration, or guard_slot_offer_live_hold: the deadline passed
\* while the transaction was running, and everything rolls back.
RollBackLate(t) ==
    /\ tx[t].at = "acquire"
    /\ tx[t].deadline <= now
    /\ tx' = [tx EXCEPT ![t] = Idle]
    /\ UNCHANGED <<now, booked, event, opp, created, entry, chain, aborts>>

\* A crash, or a deadlock that the database resolves.
Abort(t) ==
    /\ tx[t] # Idle
    /\ aborts < MaxAborts
    /\ aborts' = aborts + 1
    /\ tx' = [tx EXCEPT ![t] = Idle]
    /\ UNCHANGED <<now, booked, event, opp, created, entry, chain>>

-----------------------------------------------------------------------------
(* Accepting an offer, and the expiry action *)

\* Defect: does not compare expires_at with the clock.
AcceptExpired(o, e) ==
    /\ offer[o][e] = "offered"
    /\ opp[o] = "open"
    /\ hold[o][e] = "active"
    /\ ~OppLocked(o) /\ ~ResourceLocked(SlotOf[o]) /\ ~EntryLocked(e)
    /\ \A p \in Opps \ {o} : offer[p][e] # "offered"
    /\ booked' = [booked EXCEPT ![SlotOf[o]] = @ + 1]
    /\ hold' = [hold EXCEPT ![o][e] = "consumed"]
    /\ offer' = [offer EXCEPT ![o][e] = "accepted"]
    /\ opp' = [opp EXCEPT ![o] = "filled"]
    /\ entry' = [entry EXCEPT ![e] = "fulfilled"]
    /\ timer' = [timer EXCEPT ![o][e] = IF @ = "pending" THEN "cancelled" ELSE @]
    /\ UNCHANGED <<now, event, created, expires, tx, aborts>>

\* Defect: without the deferred source-consistency trigger.
AcceptUnchecked(o, e) ==
    /\ offer[o][e] = "offered"
    /\ opp[o] = "open"
    /\ LiveHold(o, e)
    /\ ~OppLocked(o) /\ ~ResourceLocked(SlotOf[o]) /\ ~EntryLocked(e)
    /\ booked' = [booked EXCEPT ![SlotOf[o]] = @ + 1]
    /\ hold' = [hold EXCEPT ![o][e] = "consumed"]
    /\ offer' = [offer EXCEPT ![o][e] = "accepted"]
    /\ opp' = [opp EXCEPT ![o] = "filled"]
    /\ entry' = [entry EXCEPT ![e] = "fulfilled"]
    /\ timer' = [timer EXCEPT ![o][e] = IF @ = "pending" THEN "cancelled" ELSE @]
    /\ UNCHANGED <<now, event, created, expires, tx, aborts>>

\* accept_slot_offer and consume_slot_offer_hold.  Fulfilling the entry is
\* refused at the commit while another offered SlotOffer points to it.
AcceptOffer(o, e) ==
    /\ offer[o][e] = "offered"
    /\ opp[o] = "open"
    /\ LiveHold(o, e)
    /\ ~OppLocked(o) /\ ~ResourceLocked(SlotOf[o]) /\ ~EntryLocked(e)
    /\ \A p \in Opps \ {o} : offer[p][e] # "offered"
    /\ booked' = [booked EXCEPT ![SlotOf[o]] = @ + 1]
    /\ hold' = [hold EXCEPT ![o][e] = "consumed"]
    /\ offer' = [offer EXCEPT ![o][e] = "accepted"]
    /\ opp' = [opp EXCEPT ![o] = "filled"]
    /\ entry' = [entry EXCEPT ![e] = "fulfilled"]
    /\ timer' = [timer EXCEPT ![o][e] = IF @ = "pending" THEN "cancelled" ELSE @]
    /\ UNCHANGED <<now, event, created, expires, tx, aborts>>

\* The scheduler claims the due expiry action.
ClaimTimer(o, e) ==
    /\ timer[o][e] = "pending"
    /\ expires[o][e] <= now
    /\ timer' = [timer EXCEPT ![o][e] = "leased"]
    /\ UNCHANGED <<now, booked, event, opp, created, entry, offer, hold, expires,
                   tx, aborts>>

\* expire_slot_offer finds the offer already resolved.
ExpireResolved(o, e) ==
    /\ timer[o][e] = "leased"
    /\ offer[o][e] # "offered"
    /\ ~OppLocked(o)
    /\ timer' = [timer EXCEPT ![o][e] = "completed"]
    /\ UNCHANGED <<now, booked, event, opp, created, entry, offer, hold, expires,
                   tx, aborts>>

Tick ==
    /\ now < MaxTime
    /\ now' = now + 1
    /\ UNCHANGED <<booked, event, opp, created, entry, chain, tx, aborts>>

-----------------------------------------------------------------------------

TxStep(t) ==
    \/ SelectCandidate(t)
    \/ LockCandidate(t)
    \/ SkipCandidate(t)
    \/ CommitStarted(t)
    \/ CommitNobody(t)
    \/ CommitTaken(t)
    \/ CommitOffer(t)
    \/ RollBackLate(t)

Next ==
    \/ \E s \in Slots : BookDirect(s)
    \/ \E e \in Entries : JoinWaitlist(e) \/ LeaveWaitlist(e)
    \/ \E o \in Opps : CancelBooking(o) \/ CreateOpportunity(o) \/ GiveUp(o)
    \/ \E t \in Txs, o \in Opps : BeginFirst(t, o)
    \/ \E t \in Txs, o \in Opps, e \in Entries :
          BeginDecline(t, o, e) \/ BeginExpire(t, o, e)
    \/ \E t \in Txs : TxStep(t) \/ Abort(t)
    \/ \E o \in Opps, e \in Entries :
          AcceptOffer(o, e) \/ ClaimTimer(o, e) \/ ExpireResolved(o, e)
    \/ Tick

Spec == Init /\ [][Next]_vars

\* Time passes, statements finish, and the scheduler keeps claiming and
\* running the expiry action; MaxAborts stands for its attempts.
Fairness ==
    /\ WF_vars(Tick)
    /\ \A t \in Txs : WF_vars(TxStep(t))
    /\ \A o \in Opps, e \in Entries :
          /\ WF_vars(ClaimTimer(o, e))
          /\ WF_vars(\E t \in Txs : BeginExpire(t, o, e))
          /\ WF_vars(ExpireResolved(o, e))

FairSpec == Spec /\ Fairness

-----------------------------------------------------------------------------
(* Properties *)

\* A slot never has two owners, whatever mix of direct bookings, live holds
\* of several opportunities and accepted offers competes for it; an expired
\* hold does not count, and must therefore never be promoted
\* (guard_capacity_claim, _assert_live_hold).
NoOverbooking ==
    \A s \in Slots : booked[s] + Cardinality(LiveHoldsOn(s)) <= 1

HoldOf(status) ==
    CASE status = "none" -> "none"
      [] status = "offered" -> "active"
      [] status = "accepted" -> "consumed"
      [] status = "declined" -> "released"
      [] status = "expired" -> "expired"

\* The offer, its hold, its opportunity and its waitlist entry always tell the
\* same story: an open offer needs an open opportunity and a waiting entry, an
\* opportunity is filled by one accepted offer and offered to one entry at a
\* time, and no hold outlives its offer (assert_slot_offer_consistency).
\* Checked together with the types of the state.
ChainConsistent ==
    /\ TypeOK
    /\ \A o \in Opps, e \in Entries :
          /\ hold[o][e] = HoldOf(offer[o][e])
          /\ offer[o][e] = "offered" => opp[o] = "open" /\ entry[e] = "active"
          /\ offer[o][e] = "accepted" => opp[o] = "filled" /\ entry[e] = "fulfilled"
    /\ \A o \in Opps :
          /\ Cardinality({e \in Entries : offer[o][e] = "offered"}) <= 1
          /\ opp[o] = "filled" => Cardinality({e \in Entries : offer[o][e] = "accepted"}) = 1

\* A waitlist entry is fulfilled by exactly one Reservation, although two
\* opportunities selecting at the same time may both offer to it
\* (the NOT EXISTS of _select_candidate reads a snapshot).
FulfilledOnce ==
    \A e \in Entries :
        Cardinality({o \in Opps : offer[o][e] = "accepted"})
        = IF entry[e] = "fulfilled" THEN 1 ELSE 0

\* Resolved offers are history: an opportunity is never offered to the same
\* entry twice, and accept, decline and expiry never overwrite one another.
NeverReoffered ==
    [][\A o \in Opps, e \in Entries :
          offer'[o][e] # offer[o][e] => \/ offer[o][e] = "none" /\ offer'[o][e] = "offered"
                                        \/ offer[o][e] = "offered"
      ]_vars

\* Every offer is eventually accepted, declined or expired: no candidate and
\* no opportunity stays blocked by an offer nobody answers.
OfferResolved ==
    \A o \in Opps, e \in Entries : offer[o][e] = "offered" ~> offer[o][e] # "offered"

\* "Candidate selection is deterministic FIFO among eligible active entries":
\* no offer goes to a younger entry past an older one that was eligible when
\* the candidates were read and still is, and that nobody holds a lock on.
FirstInFirstOut ==
    [][\A t \in Txs :
          LET o == tx[t].opp
          IN  tx[t].at = "acquire" /\ offer'[o][tx[t].cand] # offer[o][tx[t].cand]
              => \A f \in Candidates(o, tx[t].skipped) \cap tx[t].snap :
                    f < tx[t].cand => EntryLocked(f) \/ <<f, o>> \notin Suits
      ]_vars

-----------------------------------------------------------------------------
(* The inductive invariant *)

\* Offer, hold, opportunity and entry agree, and nothing was offered before
\* the handler of the release event committed its first offer.
OffersAgree ==
    \A o \in Opps, e \in Entries :
        /\ hold[o][e] = HoldOf(offer[o][e])
        /\ offer[o][e] = "offered" => opp[o] = "open" /\ entry[e] = "active"
        /\ offer[o][e] = "accepted" => opp[o] = "filled" /\ entry[e] = "fulfilled"
        /\ offer[o][e] # "none" => event[o] = "done"

\* An opportunity has one offered and one accepted SlotOffer at most.
OneOffer ==
    /\ \A o \in Opps, e, f \in Entries :
          \/ e = f
          \/ ~(offer[o][e] = "offered" /\ offer[o][f] = "offered")
             /\ ~(offer[o][e] = "accepted" /\ offer[o][f] = "accepted")
    /\ \A o \in Opps : opp[o] = "filled" => \E e \in Entries : offer[o][e] = "accepted"

\* An entry has accepted one offer at most.
OneFulfilment ==
    /\ \A o, p \in Opps, e \in Entries :
          offer[o][e] = "accepted" /\ offer[p][e] = "accepted" => o = p
    /\ \A e \in Entries :
          entry[e] = "fulfilled" => \E o \in Opps : offer[o][e] = "accepted"

\* A slot is booked, held or neither.
OneOwner ==
    /\ \A s \in Slots : booked[s] <= 1
    /\ \A o \in Opps, e \in Entries : LiveHold(o, e) => booked[SlotOf[o]] = 0
    /\ \A o, p \in Opps, e, f \in Entries :
          LiveHold(o, e) /\ LiveHold(p, f) /\ SlotOf[o] = SlotOf[p] => o = p /\ e = f

\* What an open transaction has read and locked stays as it was read.
Protected(r) ==
    /\ opp[r.opp] = "open"
    /\ r.kind = "first" <=> r.from = 0
    /\ r.from = 0 => event[r.opp] = "pending"
    /\ r.from # 0 => offer[r.opp][r.from] = "offered"
    /\ \A e \in r.snap : offer[r.opp][e] = "none"
    /\ r.at = "acquire" => r.cand \in r.snap /\ entry[r.cand] = "active"

LocksHold ==
    /\ \A t \in Open : Protected(tx[t])
    /\ \A t, u \in Open : tx[t].opp = tx[u].opp => t = u

SlotInv ==
    /\ TypeOK
    /\ OffersAgree
    /\ OneOffer
    /\ OneFulfilment
    /\ OneOwner
    /\ LocksHold

=============================================================================
