--------------------------- MODULE RequestsProofs ---------------------------
(***************************************************************************)
(* Proofs about Requests for any clients, commands and number of aborts.   *)
(***************************************************************************)
EXTENDS Requests, SequenceTheorems, WellFoundedInduction, TLAPS

\* A command has an identity, which is a pair, and a fingerprint; neither is the
\* empty sequence that stands for their absence.
LEMMA IdentityType ==
    ASSUME NEW cmd \in Commands
    PROVE  /\ Identity(cmd) \in Identities /\ Identity(cmd) # NoResult
           /\ Fingerprint(cmd) # NoRecord
BY DEF Identity, Identities, NoResult, Fingerprint, NoRecord

\* The external keys of a command are numbers.
LEMMA CorrelationType ==
    ASSUME NEW cmd \in Commands
    PROVE  Range(cmd.corr) \subseteq Nat
<1>1. cmd.corr \in Seq(Nat)
  BY CommandsAssumption
<1>2. \A i \in DOMAIN cmd.corr : cmd.corr[i] \in Nat
  BY <1>1, LenProperties
<1>3. QED
  BY <1>2 DEF Range

\* A transaction that goes on keeps its command and adds to its locks.
LEMMA GoType ==
    ASSUME TypeOK, NEW c \in Clients, NEW p \in Points, NEW L \in SUBSET Locks,
           tx[c].pc # "idle", Go(c, p, L)
    PROVE  /\ tx' \in [Clients -> [pc : Points, cmd : Commands \cup {<<>>}, held : SUBSET Locks]]
           /\ \A d \in Clients : tx'[d].pc # "idle" => tx'[d].cmd \in Commands
           /\ \A d \in Clients \ {c} : tx'[d] = tx[d]
           /\ tx'[c].pc = p /\ tx'[c].cmd = tx[c].cmd /\ tx'[c].held = tx[c].held \cup L
BY ZenonT(40) DEF TypeOK, Go

\* A transaction that is refused or commits ends without locks.
LEMMA EndType ==
    ASSUME TypeOK, NEW c \in Clients, tx' = [tx EXCEPT ![c] = Idle]
    PROVE  /\ tx' \in [Clients -> [pc : Points, cmd : Commands \cup {<<>>}, held : SUBSET Locks]]
           /\ \A d \in Clients : tx'[d].pc # "idle" => tx'[d].cmd \in Commands
           /\ \A d \in Clients \ {c} : tx'[d] = tx[d]
           /\ tx'[c] = Idle /\ tx'[c].pc = "idle" /\ tx'[c].held = {}
BY DEF TypeOK, Idle, Points

-----------------------------------------------------------------------------
(* What the actions do, in the terms of the invariant *)

\* The steps of a transaction that write no table.
Prepares(c) ==
    Acquire(c) \/ Authorize(c) \/ ReadDefinition(c) \/ ValidateParties(c)
    \/ LockCorrelation(c) \/ AssertAvailable(c)

Lifecycle(c) ==
    RecordRequestResult(c) \/ CompleteRequest(c) \/ CancelRequest(c) \/ FailRequest(c)

Administration(c) == CreateDefinition(c) \/ PublishVersion(c) \/ SetActive(c)

\* A set of numbers that is not empty has a least element.
LEMMA LeastElement ==
    ASSUME NEW S \in SUBSET Nat, S # {}
    PROVE  \E x \in S : \A y \in S : x <= y
<1>1. PICK x \in S : \A y \in S : ~ (<<y, x>> \in OpToRel(<, Nat))
  BY NatLessThanWellFounded, WFMin
<1>2. \A y \in S : ~ (y < x)
  BY <1>1 DEF OpToRel
<1>3. QED
  BY <1>2

\* A correlation that is not locked yet is one of the command's.
LEMMA NextCorrelationType ==
    ASSUME NEW c \in Clients, Cmd(c) \in Commands, Unlocked(c) # {}
    PROVE  NextCorrelation(c) \in Range(Cmd(c).corr) /\ NextCorrelation(c) \in Nat
<1>1. Unlocked(c) \subseteq Range(Cmd(c).corr) /\ Unlocked(c) \subseteq Nat
  BY CorrelationType DEF Unlocked
<1>2. \E x \in Unlocked(c) : \A y \in Unlocked(c) : x <= y
  BY <1>1, LeastElement
<1>3. NextCorrelation(c) \in Unlocked(c)
  BY <1>2 DEF NextCorrelation
<1>4. QED
  BY <1>1, <1>3

\* Where a transaction may go while it writes nothing, and with which locks: the
\* new ones are shares, or nobody else holds them.
LEMMA PrepareEffect ==
    ASSUME TypeOK, NEW c \in Clients, Prepares(c)
    PROVE  /\ UNCHANGED <<tables, standing, faults>>
           /\ tx[c].pc \notin {"idle", "insert", "execute"}
           /\ \/ tx' = [tx EXCEPT ![c] = Idle]
              \/ \E p \in Points \ {"idle"}, L \in SUBSET Locks :
                    /\ Go(c, p, L)
                    /\ \A l \in L : l \in {DefinitionShare, AuthorityShare} \/ Free(c, l)
<1> USE DEF At, Points, Refuse
<1>1. CASE Acquire(c)
  <2>1. Cmd(c) \in Commands
    BY <1>1 DEF Acquire, TypeOK, Cmd
  <2>2. {Key(c)} \in SUBSET Locks
    BY <2>1, IdentityType DEF Key, Locks
  <2>3. QED
    BY <1>1, <2>2 DEF Acquire, tables
<1>2. CASE Authorize(c)
  <2>1. AuthorityLocks(c) \in SUBSET Locks /\ {} \in SUBSET Locks
    BY DEF AuthorityLocks, AuthorityShare, Locks
  <2>2. QED
    BY <1>2, <2>1 DEF Authorize, AuthorityLocks, tables
<1>3. CASE ReadDefinition(c)
  <2>1. DefinitionLocks(c) \in SUBSET Locks
    BY DEF DefinitionLocks, DefinitionShare, Locks
  <2>2. QED
    BY <1>3, <2>1 DEF ReadDefinition, DefinitionLocks, tables
<1>4. CASE ValidateParties(c)
  <2>1. {} \in SUBSET Locks
    OBVIOUS
  <2>2. QED
    BY <1>4, <2>1 DEF ValidateParties, tables
<1>5. CASE LockCorrelation(c)
  <2>1. Cmd(c) \in Commands
    BY <1>5 DEF LockCorrelation, TypeOK, Cmd
  <2>2. {Correlation(NextCorrelation(c))} \in SUBSET Locks
    BY <1>5, <2>1, NextCorrelationType DEF LockCorrelation, Correlation, Locks
  <2>3. QED
    BY <1>5, <2>2 DEF LockCorrelation, tables
<1>6. CASE AssertAvailable(c)
  <2>1. {} \in SUBSET Locks
    OBVIOUS
  <2>2. QED
    BY <1>6, <2>1 DEF AssertAvailable, tables
<1>7. QED
  BY <1>1, <1>2, <1>3, <1>4, <1>5, <1>6 DEF Prepares

\* The rows of the requests.
Row == [ver : Nat, st : Statuses, result : {NoResult} \cup Identities,
        rev : Nat \ {0}, corr : SUBSET Nat, party : BOOLEAN]

\* A row with a new status and result, one revision on, is a row.
Updated(x, st, result) == [x EXCEPT !.st = st, !.result = result, !.rev = @ + 1]

LEMMA RowUpdate ==
    ASSUME NEW x \in Row, NEW st \in Statuses, NEW result \in {NoResult} \cup Identities, NEW y,
           y = Updated(x, st, result)
    PROVE  y \in Row /\ y.ver = x.ver /\ y.corr = x.corr /\ y.st = st /\ y.result = result
<1>1. y = [ver |-> x.ver, st |-> st, result |-> result, rev |-> x.rev + 1,
           corr |-> x.corr, party |-> x.party]
  BY DEF Row, Updated
<1>2. x.ver \in Nat /\ x.rev + 1 \in Nat \ {0} /\ x.corr \in SUBSET Nat
  BY DEF Row
<1>3. x.party \in BOOLEAN
  BY DEF Row
<1>4. [ver |-> x.ver, st |-> st, result |-> result, rev |-> x.rev + 1,
       corr |-> x.corr, party |-> x.party] \in Row
  BY <1>2, <1>3, ZenonT(30) DEF Row
<1>5. QED
  BY <1>1, <1>4

\* An update of request r changes nothing else.
LEMMA UpdateEffect ==
    ASSUME TypeOK, NEW r \in DOMAIN request, NEW st \in Statuses,
           NEW result \in {NoResult} \cup Identities, Update(r, st, result)
    PROVE  /\ request' \in Seq(Row)
           /\ DOMAIN request' = DOMAIN request
           /\ \A s \in DOMAIN request : s # r => request'[s] = request[s]
           /\ \A s \in DOMAIN request : request'[s].ver = request[s].ver
                                        /\ request'[s].corr = request[s].corr
           /\ request'[r].st = st /\ request'[r].result = result
<1>1. request \in Seq(Row) /\ DOMAIN request = 1..Len(request)
  BY LenProperties DEF TypeOK, Row
<1>2. request[r] \in Row
  BY <1>1, ElementOfSeq
<1> DEFINE new == Updated(request[r], st, result)
<1>3. /\ new \in Row
      /\ new.ver = request[r].ver /\ new.corr = request[r].corr
      /\ new.st = st /\ new.result = result
  BY <1>2, RowUpdate
<1>4. request' = [request EXCEPT ![r] = new]
  BY DEF Update, Updated
<1>5. request' \in Seq(Row) /\ Len(request') = Len(request)
  BY <1>1, <1>3, <1>4, ExceptSeq
<1>6. DOMAIN request' = DOMAIN request
  BY <1>1, <1>4
<1>7. QED
  BY <1>1, <1>3, <1>4, <1>5, <1>6

\* A lifecycle command is refused, or updates one open request in a way that
\* leaves its result honest.
LEMMA LifecycleEffect ==
    ASSUME TypeOK, CompletionHonest, NEW c \in Clients, Lifecycle(c)
    PROVE  /\ tx[c].pc = "execute" /\ UNCHANGED <<def, standing, faults>>
           /\ \/ Refuse(c)
              \/ /\ Commit(c)
                 /\ \E r \in DOMAIN request, st \in Statuses, result \in {NoResult} \cup Identities :
                       /\ Update(r, st, result)
                       /\ st = "completed" => (result # NoResult <=> HasResultSchema(r))
                       /\ result # NoResult => HasResultSchema(r)
<1> USE DEF At, Execute, Statuses, Closed
<1> DEFINE cmd == Cmd(c)
           r == Cmd(c).on
<1>1. tx[c].pc = "execute" /\ Cmd(c) \in Commands
  BY DEF Lifecycle, RecordRequestResult, CompleteRequest, CancelRequest, FailRequest, TypeOK, Cmd
<1>2. Identity(cmd) \in Identities /\ Identity(cmd) # NoResult
  BY <1>1, IdentityType
<1>3. ASSUME r \in DOMAIN request
      PROVE  /\ request[r].result \in {NoResult} \cup Identities
             /\ request[r].result # NoResult => HasResultSchema(r)
  <2>1. request \in Seq(Row) /\ r \in 1..Len(request)
    BY <1>3, LenProperties DEF TypeOK, Row
  <2>2. request[r] \in Row
    BY <2>1, ElementOfSeq
  <2>3. QED
    BY <1>3, <2>2 DEF Row, CompletionHonest
<1>4. UNCHANGED <<def, standing, faults>>
  BY DEF Lifecycle, RecordRequestResult, CompleteRequest, CancelRequest, FailRequest, Refuse, tables
<1>5. CASE RecordRequestResult(c)
  <2>1. CASE LockOpen(cmd) /\ request[r].result = NoResult /\ HasResultSchema(r)
    <3>1. Commit(c) /\ Update(r, "open", Identity(cmd)) /\ r \in DOMAIN request
      BY <1>5, <2>1 DEF RecordRequestResult, LockOpen
    <3>2. QED
      BY <1>1, <1>2, <1>4, <2>1, <3>1
  <2>2. CASE ~ (LockOpen(cmd) /\ request[r].result = NoResult /\ HasResultSchema(r))
    BY <1>1, <1>4, <1>5, <2>2 DEF RecordRequestResult
  <2>3. QED
    BY <2>1, <2>2
<1>6. CASE CompleteRequest(c)
  <2> DEFINE result == IF cmd.with THEN Identity(cmd) ELSE request[r].result
  <2>1. CASE LockOpen(cmd) /\ CompletionResultValid(cmd)
    <3>1. Commit(c) /\ Update(r, "completed", result) /\ r \in DOMAIN request
      BY <1>6, <2>1 DEF CompleteRequest, LockOpen
    <3>2. result \in {NoResult} \cup Identities /\ (result # NoResult <=> HasResultSchema(r))
      BY <1>2, <1>3, <2>1, <3>1 DEF CompletionResultValid
    <3>3. QED
      BY <1>1, <1>4, <3>1, <3>2
  <2>2. CASE ~ (LockOpen(cmd) /\ CompletionResultValid(cmd))
    BY <1>1, <1>4, <1>6, <2>2 DEF CompleteRequest
  <2>3. QED
    BY <2>1, <2>2
<1>7. CASE CancelRequest(c)
  <2>1. CASE Refuse(c)
    BY <1>1, <1>4, <2>1
  <2>2. CASE Commit(c) /\ Update(r, "cancelled", request[r].result) /\ LockOpen(cmd)
    BY <1>1, <1>3, <1>4, <2>2 DEF LockOpen
  <2>3. QED
    BY <1>7, <2>1, <2>2 DEF CancelRequest
<1>8. CASE FailRequest(c)
  <2>1. CASE Refuse(c)
    BY <1>1, <1>4, <2>1
  <2>2. CASE Commit(c) /\ Update(r, "failed", request[r].result) /\ LockOpen(cmd)
    BY <1>1, <1>3, <1>4, <2>2 DEF LockOpen
  <2>3. QED
    BY <1>8, <2>1, <2>2 DEF FailRequest
<1>9. QED
  BY <1>5, <1>6, <1>7, <1>8 DEF Lifecycle

\* A definition command is refused, or it finds the definition unshared and
\* keeps the versions that are there.
LEMMA AdministrationEffect ==
    ASSUME TypeOK, NEW c \in Clients, Administration(c)
    PROVE  /\ tx[c].pc = "execute" /\ UNCHANGED <<request, standing, faults>>
           /\ \/ Refuse(c)
              \/ /\ Commit(c) /\ Free(c, DefinitionShare)
                 /\ def' \in [active : BOOLEAN, rev : Nat, versions : Seq(BOOLEAN)]
                 /\ \A v \in DOMAIN def.versions :
                       v \in DOMAIN def'.versions /\ def'.versions[v] = def.versions[v]
<1> USE DEF At, Administer
<1>1. tx[c].pc = "execute" /\ Cmd(c) \in Commands
  BY DEF Administration, CreateDefinition, PublishVersion, SetActive, TypeOK, Cmd
<1>2. Cmd(c).with \in BOOLEAN
  BY <1>1, CommandsAssumption
<1>3. UNCHANGED <<request, standing, faults>>
  BY DEF Administration, CreateDefinition, PublishVersion, SetActive, Refuse, tables
<1>4. def.versions \in Seq(BOOLEAN) /\ def.rev \in Nat /\ def.active \in BOOLEAN
  BY DEF TypeOK
<1>5. CASE Refuse(c)
  BY <1>1, <1>3, <1>5
<1>6. CASE CreateDefinition(c) /\ ~Refuse(c)
  <2>1. /\ Commit(c) /\ Free(c, DefinitionShare) /\ def.versions = <<>>
        /\ def' = [active |-> TRUE, rev |-> 1, versions |-> <<Cmd(c).with>>]
    BY <1>6 DEF CreateDefinition
  <2>2. QED
    BY <1>1, <1>2, <1>3, <2>1
<1>7. CASE PublishVersion(c) /\ ~Refuse(c)
  <2>1. /\ Commit(c) /\ Free(c, DefinitionShare)
        /\ def' = [def EXCEPT !.rev = @ + 1, !.versions = Append(@, Cmd(c).with)]
    BY <1>7 DEF PublishVersion
  <2>2. def' \in [active : BOOLEAN, rev : Nat, versions : Seq(BOOLEAN)]
        /\ def'.versions = Append(def.versions, Cmd(c).with)
    <3>1. def' = [active |-> def.active, rev |-> def.rev + 1,
                  versions |-> Append(def.versions, Cmd(c).with)]
      BY <2>1 DEF TypeOK
    <3>2. def.rev + 1 \in Nat /\ Append(def.versions, Cmd(c).with) \in Seq(BOOLEAN)
      BY <1>2, <1>4
    <3>3. def' \in [active : BOOLEAN, rev : Nat, versions : Seq(BOOLEAN)]
      BY <1>4, <3>1, <3>2, Zenon
    <3>4. QED
      BY <3>1, <3>3
  <2>3. \A v \in DOMAIN def.versions :
           v \in DOMAIN def'.versions /\ def'.versions[v] = def.versions[v]
    BY <1>2, <1>4, <2>2
  <2>4. QED
    BY <1>1, <1>3, <2>1, <2>2, <2>3
<1>8. CASE SetActive(c) /\ ~Refuse(c)
  <2>1. /\ Commit(c) /\ Free(c, DefinitionShare)
        /\ def' = [def EXCEPT !.rev = @ + 1, !.active = Cmd(c).with]
    BY <1>8 DEF SetActive
  <2>2. def' \in [active : BOOLEAN, rev : Nat, versions : Seq(BOOLEAN)]
        /\ def'.versions = def.versions
    <3>1. def' = [active |-> Cmd(c).with, rev |-> def.rev + 1, versions |-> def.versions]
      BY <2>1 DEF TypeOK
    <3>2. def.rev + 1 \in Nat
      BY <1>4
    <3>3. def' \in [active : BOOLEAN, rev : Nat, versions : Seq(BOOLEAN)]
      BY <1>2, <1>4, <3>1, <3>2, Zenon
    <3>4. QED
      BY <3>1, <3>3
  <2>3. QED
    BY <1>1, <1>3, <2>1, <2>2
<1>9. QED
  BY <1>5, <1>6, <1>7, <1>8 DEF Administration

\* A submission appends one open request without a result.
LEMMA InsertEffect ==
    ASSUME TypeOK, NEW c \in Clients, InsertRequest(c)
    PROVE  /\ tx[c].pc = "insert" /\ Commit(c) /\ UNCHANGED <<def, standing, faults>>
           /\ request' \in Seq(Row)
           /\ DOMAIN request' = DOMAIN request \cup {Len(request) + 1}
           /\ Len(request) + 1 \notin DOMAIN request
           /\ \A s \in DOMAIN request : request'[s] = request[s]
           /\ request'[Len(request) + 1].ver = Cmd(c).on
           /\ request'[Len(request) + 1].st = "open"
           /\ request'[Len(request) + 1].result = NoResult
           /\ request'[Len(request) + 1].corr = Range(Cmd(c).corr)
<1> DEFINE new == [ver |-> Cmd(c).on, st |-> "open", result |-> NoResult, rev |-> 1,
                   corr |-> Range(Cmd(c).corr), party |-> Cmd(c).who # "nobody"]
<1>1. tx[c].pc = "insert" /\ Cmd(c) \in Commands
  BY DEF InsertRequest, At, TypeOK, Cmd
<1>2. Cmd(c).on \in Nat /\ Range(Cmd(c).corr) \in SUBSET Nat
  BY <1>1, CommandsAssumption, CorrelationType
<1>3. new \in Row
  <2>1. 1 \in Nat \ {0}
    OBVIOUS
  <2>2. QED
    BY <1>2, <2>1, Zenon DEF Row, Statuses
<1>4. request \in Seq(Row) /\ DOMAIN request = 1..Len(request) /\ Len(request) \in Nat
  BY LenProperties DEF TypeOK, Row
<1>5. request' = Append(request, new)
  BY DEF InsertRequest
<1> HIDE DEF new
<1>6. /\ request' \in Seq(Row) /\ DOMAIN request' = 1..(Len(request) + 1)
      /\ \A s \in 1..Len(request) : request'[s] = request[s]
      /\ request'[Len(request) + 1] = new
  BY <1>3, <1>4, <1>5
<1>7. new.ver = Cmd(c).on /\ new.st = "open" /\ new.result = NoResult
      /\ new.corr = Range(Cmd(c).corr)
  BY DEF new
<1>8. QED
  BY <1>1, <1>4, <1>6, <1>7 DEF InsertRequest

\* A commit turns the absence of a record into a record, and counts the effect.
LEMMA CommitEffect ==
    ASSUME TypeOK, NEW c \in Clients, tx[c].pc # "idle", Commit(c)
    PROVE  /\ Identity(Cmd(c)) \in Identities
           /\ record' \in [Identities -> {NoRecord} \cup {Fingerprint(cmd) : cmd \in Commands}]
           /\ applied' \in [Identities -> Nat]
           /\ record'[Identity(Cmd(c))] # NoRecord
           /\ applied'[Identity(Cmd(c))] = applied[Identity(Cmd(c))] + 1
           /\ \A i \in Identities \ {Identity(Cmd(c))} :
                 record'[i] = record[i] /\ applied'[i] = applied[i]
           /\ tx' = [tx EXCEPT ![c] = Idle]
<1>1. Cmd(c) \in Commands
  BY DEF TypeOK, Cmd
<1>2. Identity(Cmd(c)) \in Identities /\ Fingerprint(Cmd(c)) # NoRecord
  BY <1>1, IdentityType
<1>3. QED
  BY <1>1, <1>2 DEF Commit, TypeOK

\* The steps of the specification, by what they do.
LEMMA NextCases ==
    ASSUME [Next]_vars
    PROVE  \/ \E c \in Clients, cmd \in Commands : Start(c, cmd)
           \/ \E c \in Clients : Prepares(c)
           \/ \E c \in Clients : InsertRequest(c)
           \/ \E c \in Clients : Lifecycle(c)
           \/ \E c \in Clients : Administration(c)
           \/ \E c \in Clients : Abort(c)
           \/ \E x \in Full : Withdraw(x)
           \/ UNCHANGED vars
BY DEF Next, Step, Prepares, Lifecycle, Administration

-----------------------------------------------------------------------------
(* Preservation, conjunct by conjunct *)

\* Every step keeps the types of the state.
LEMMA TypePreserved ==
    ASSUME TypeOK, Established, CompletionHonest, [Next]_vars
    PROVE  TypeOK'
<1>1. ASSUME NEW c \in Clients, tx' = [tx EXCEPT ![c] = Idle],
             UNCHANGED <<def, request, record, applied>>, standing' = standing,
             faults' \in 0..MaxFaults
      PROVE  TypeOK'
  BY <1>1, EndType DEF TypeOK
<1>2. ASSUME NEW c \in Clients, NEW cmd \in Commands, Start(c, cmd) PROVE TypeOK'
  BY <1>2 DEF Start, tables, TypeOK, Points
<1>3. ASSUME NEW c \in Clients, Prepares(c) PROVE TypeOK'
  <2>1. UNCHANGED <<def, request, record, applied>> /\ UNCHANGED <<standing, faults>>
    BY <1>3, PrepareEffect DEF tables
  <2>2. CASE tx' = [tx EXCEPT ![c] = Idle]
    BY <1>1, <2>1, <2>2 DEF TypeOK
  <2>3. ASSUME NEW p \in Points \ {"idle"}, NEW L \in SUBSET Locks, Go(c, p, L) PROVE TypeOK'
    <3>1. tx[c].pc # "idle"
      BY <1>3, PrepareEffect
    <3>2. QED
      BY <2>1, <2>3, <3>1, GoType DEF TypeOK
  <2>4. QED
    BY <1>3, <2>2, <2>3, PrepareEffect
<1>4. ASSUME NEW c \in Clients, InsertRequest(c) PROVE TypeOK'
  <2>1. \A r \in DOMAIN request' : request'[r].ver \in DOMAIN def.versions
    BY ZenonT(40), <1>4, InsertEffect DEF TypeOK, Established, EstablishedBy
  <2>2. tx[c].pc # "idle" /\ request' \in Seq(Row) /\ Commit(c) /\ UNCHANGED <<def, standing, faults>>
    BY <1>4, InsertEffect
  <2>3. QED
    BY <2>1, <2>2, CommitEffect, EndType DEF TypeOK, Row
<1>5. ASSUME NEW c \in Clients, Lifecycle(c) PROVE TypeOK'
  <2>1. tx[c].pc = "execute" /\ UNCHANGED <<def, standing, faults>>
    BY <1>5, LifecycleEffect
  <2>2. CASE Refuse(c)
    BY <1>1, <2>1, <2>2 DEF Refuse, tables, TypeOK
  <2>3. ASSUME Commit(c), NEW r \in DOMAIN request, NEW st \in Statuses,
               NEW result \in {NoResult} \cup Identities, Update(r, st, result)
        PROVE  TypeOK'
    <3>1. request' \in Seq(Row) /\ \A s \in DOMAIN request' : request'[s].ver \in DOMAIN def.versions
      BY <2>3, UpdateEffect DEF TypeOK
    <3>2. QED
      BY <2>1, <2>3, <3>1, CommitEffect, EndType DEF TypeOK, Row
  <2>4. QED
    BY <1>5, <2>2, <2>3, LifecycleEffect
<1>6. ASSUME NEW c \in Clients, Administration(c) PROVE TypeOK'
  <2>1. tx[c].pc = "execute" /\ UNCHANGED <<request, standing, faults>>
    BY <1>6, AdministrationEffect
  <2>2. CASE Refuse(c)
    BY <1>1, <2>1, <2>2 DEF Refuse, tables, TypeOK
  <2>3. CASE Commit(c) /\ ~Refuse(c)
    BY <1>6, <2>1, <2>3, AdministrationEffect, CommitEffect, EndType DEF TypeOK
  <2>4. QED
    BY <1>6, <2>2, <2>3, AdministrationEffect
<1>7. ASSUME NEW c \in Clients, Abort(c) PROVE TypeOK'
  <2>1. faults' \in 0..MaxFaults
    BY <1>7, CommandsAssumption DEF Abort, TypeOK
  <2>2. QED
    BY <1>1, <1>7, <2>1 DEF Abort, Refuse, tables
<1>8. ASSUME NEW x \in Full, Withdraw(x) PROVE TypeOK'
  BY <1>8 DEF Withdraw, tables, TypeOK
<1>9. CASE UNCHANGED vars
  BY <1>9 DEF vars, TypeOK
<1>10. QED
  BY <1>2, <1>3, <1>4, <1>5, <1>6, <1>7, <1>8, <1>9, NextCases

\* No lock but a share is held twice.
LEMMA LocksPreserved ==
    ASSUME TypeOK, LocksExclusive, CompletionHonest, [Next]_vars
    PROVE  LocksExclusive'
<1> USE DEF LocksExclusive
<1>1. ASSUME NEW c \in Clients, tx' = [tx EXCEPT ![c] = Idle] PROVE LocksExclusive'
  BY <1>1, EndType DEF Idle, DefinitionShare, AuthorityShare
<1>2. ASSUME NEW c \in Clients, NEW cmd \in Commands, Start(c, cmd) PROVE LocksExclusive'
  BY <1>2 DEF Start, TypeOK, DefinitionShare, AuthorityShare
<1>3. ASSUME NEW c \in Clients, Prepares(c) PROVE LocksExclusive'
  <2>1. tx[c].pc # "idle"
    BY <1>3, PrepareEffect
  <2>2. ASSUME NEW p \in Points \ {"idle"}, NEW L \in SUBSET Locks, Go(c, p, L),
               \A l \in L : l \in {DefinitionShare, AuthorityShare} \/ Free(c, l)
        PROVE  LocksExclusive'
    BY <2>1, <2>2, GoType DEF Free, DefinitionShare, AuthorityShare
  <2>3. QED
    BY <1>1, <1>3, <2>2, PrepareEffect
<1>4. ASSUME NEW c \in Clients, InsertRequest(c) PROVE LocksExclusive'
  BY <1>1, <1>4 DEF InsertRequest, Commit
<1>5. ASSUME NEW c \in Clients, Lifecycle(c) PROVE LocksExclusive'
  BY <1>1, <1>5, LifecycleEffect DEF Commit, Refuse
<1>6. ASSUME NEW c \in Clients, Administration(c) PROVE LocksExclusive'
  BY <1>1, <1>6, AdministrationEffect DEF Commit, Refuse
<1>7. ASSUME NEW c \in Clients, Abort(c) PROVE LocksExclusive'
  BY <1>1, <1>7 DEF Abort, Refuse
<1>8. ASSUME NEW x \in Full, Withdraw(x) PROVE LocksExclusive'
  BY <1>8 DEF Withdraw, DefinitionShare, AuthorityShare
<1>9. CASE UNCHANGED vars
  BY <1>9 DEF vars, DefinitionShare, AuthorityShare
<1>10. QED
  BY <1>2, <1>3, <1>4, <1>5, <1>6, <1>7, <1>8, <1>9, NextCases

\* A transaction executes under its key, which is not recorded before it commits.
LEMMA KeyPreserved ==
    ASSUME TypeOK, LocksExclusive, KeyHeld, Established, CompletionHonest, [Next]_vars
    PROVE  KeyHeld'
<1> USE DEF KeyHeld, Keyed, Key, Cmd
<1>1. ASSUME NEW c \in Clients, tx' = [tx EXCEPT ![c] = Idle], UNCHANGED <<record, applied>>
      PROVE  KeyHeld'
  BY <1>1, EndType DEF Idle
<1>2. ASSUME NEW c \in Clients, Keyed(c), Commit(c) PROVE KeyHeld'
  <2>1. tx[c].pc # "idle" /\ record[Identity(Cmd(c))] = NoRecord
    BY <1>2
  <2>2. \A i \in Identities : applied'[i] = IF record'[i] = NoRecord THEN 0 ELSE 1
    BY <1>2, <2>1, CommitEffect
  <2>3. ASSUME NEW d \in Clients, Keyed(d)'
        PROVE  Key(d)' \in tx'[d].held /\ record'[Identity(Cmd(d)')] = NoRecord
    <3>1. d # c /\ tx'[d] = tx[d] /\ Keyed(d)
      BY <1>2, <2>1, <2>3, CommitEffect, EndType
    <3>2. Identity(Cmd(d)) # Identity(Cmd(c))
      <4>1. Key(c) \in tx[c].held /\ Key(d) \in tx[d].held
        BY <1>2, <3>1
      <4>2. Key(c) \notin {DefinitionShare, AuthorityShare}
        BY DEF DefinitionShare, AuthorityShare
      <4>3. Key(c) # Key(d)
        BY <3>1, <4>1, <4>2 DEF LocksExclusive
      <4>4. QED
        BY <4>3
    <3>3. Identity(Cmd(d)) \in Identities
      BY <3>1, IdentityType DEF TypeOK
    <3>4. QED
      BY <1>2, <2>1, <3>1, <3>2, <3>3, CommitEffect
  <2>4. QED
    BY <2>2, <2>3
<1>3. ASSUME NEW c \in Clients, NEW cmd \in Commands, Start(c, cmd) PROVE KeyHeld'
  <2>1. tx'[c].pc \in {"authorize", "acquire"} /\ tx'[c].cmd = cmd
        /\ (tx'[c].pc = "authorize" => cmd.kind \in DefinitionKinds)
    BY <1>3 DEF Start, TypeOK
  <2>2. \A d \in Clients \ {c} : tx'[d] = tx[d]
    BY <1>3 DEF Start, TypeOK
  <2>3. QED
    BY <1>3, <2>1, <2>2 DEF Start, tables, DefinitionKinds
<1>4. ASSUME NEW c \in Clients, Prepares(c) PROVE KeyHeld'
  <2>1. tx[c].pc # "idle" /\ UNCHANGED <<record, applied>>
    BY <1>4, PrepareEffect DEF tables
  <2>2. CASE tx' = [tx EXCEPT ![c] = Idle]
    BY <1>1, <2>1, <2>2
  <2>3. ASSUME NEW p \in Points \ {"idle"}, NEW L \in SUBSET Locks, Go(c, p, L) PROVE KeyHeld'
    <3>1. /\ \A d \in Clients \ {c} : tx'[d] = tx[d]
          /\ tx'[c].pc = p /\ tx'[c].cmd = tx[c].cmd /\ tx'[c].held = tx[c].held \cup L
      BY <2>1, <2>3, GoType
    <3>2. CASE Keyed(c)
      BY <2>1, <3>1, <3>2
    <3>3. CASE ~Keyed(c) /\ Keyed(c)'
      <4>1. Acquire(c) /\ tx[c].pc = "acquire"
        <5>1. ~Authorize(c)
          <6>1. SUFFICES ASSUME Authorize(c), Cmd(c).kind # "submit" PROVE tx'[c].pc = "acquire"
            BY <3>1, <3>3 DEF Authorize, At
          <6>2. Go(c, "acquire", AuthorityLocks(c))
            BY <2>3, <3>1, <6>1, EndType DEF Authorize, Refuse, Idle
          <6>3. QED
            BY <6>2 DEF Go, TypeOK
        <5>2. ~ReadDefinition(c) /\ ~ValidateParties(c) /\ ~LockCorrelation(c) /\ ~AssertAvailable(c)
          BY <3>3 DEF ReadDefinition, ValidateParties, LockCorrelation, AssertAvailable, At
        <5>3. QED
          BY <1>4, <5>1, <5>2 DEF Prepares, Acquire, At
      <4>2. record[Identity(Cmd(c))] = NoRecord /\ Key(c) \in tx'[c].held
        BY <2>1, <3>1, <3>3, <4>1, EndType, GoType DEF Acquire, Refuse, Go, Idle, TypeOK
      <4>3. QED
        BY <2>1, <3>1, <4>2
    <3>4. CASE ~Keyed(c) /\ ~Keyed(c)'
      BY <2>1, <3>1, <3>4
    <3>5. QED
      BY <3>2, <3>3, <3>4
  <2>4. QED
    BY <1>4, <2>2, <2>3, PrepareEffect
<1>5. ASSUME NEW c \in Clients, InsertRequest(c) PROVE KeyHeld'
  BY <1>2, <1>5, InsertEffect
<1>6. ASSUME NEW c \in Clients, Lifecycle(c) PROVE KeyHeld'
  BY <1>1, <1>2, <1>6, LifecycleEffect DEF Refuse, tables
<1>7. ASSUME NEW c \in Clients, Administration(c) PROVE KeyHeld'
  BY <1>1, <1>2, <1>7, AdministrationEffect DEF Refuse, tables
<1>8. ASSUME NEW c \in Clients, Abort(c) PROVE KeyHeld'
  BY <1>1, <1>8 DEF Abort, Refuse, tables
<1>9. ASSUME NEW x \in Full, Withdraw(x) PROVE KeyHeld'
  BY <1>9 DEF Withdraw, tables
<1>10. CASE UNCHANGED vars
  BY <1>10 DEF vars
<1>11. QED
  BY <1>3, <1>4, <1>5, <1>6, <1>7, <1>8, <1>9, <1>10, NextCases

\* What the external keys of the requests become.
LEMMA TakenUpdate ==
    ASSUME TypeOK, NEW r \in DOMAIN request, NEW st \in Statuses,
           NEW result \in {NoResult} \cup Identities, Update(r, st, result)
    PROVE  Taken' = Taken
<1>1. DOMAIN request' = DOMAIN request /\ \A s \in DOMAIN request : request'[s].corr = request[s].corr
  BY UpdateEffect
<1>2. QED
  BY <1>1 DEF Taken

LEMMA TakenInsert ==
    ASSUME TypeOK, NEW c \in Clients, InsertRequest(c)
    PROVE  Taken' = Taken \cup Range(Cmd(c).corr)
<1>1. /\ DOMAIN request' = DOMAIN request \cup {Len(request) + 1}
      /\ \A s \in DOMAIN request : request'[s].corr = request[s].corr
      /\ request'[Len(request) + 1].corr = Range(Cmd(c).corr)
  BY InsertEffect
<1>2. QED
  BY <1>1 DEF Taken

\* What a transaction has established stays when nothing it rests on changes.
LEMMA EstablishedFrame ==
    ASSUME NEW d \in Clients, EstablishedBy(d), tx'[d] = tx[d], UNCHANGED <<def, standing>>,
           Taken' = Taken
    PROVE  EstablishedBy(d)'
BY DEF EstablishedBy, Cmd

\* A transaction that is not under way has established nothing.
LEMMA EstablishedIdle ==
    ASSUME NEW c \in Clients, tx'[c].pc = "idle"
    PROVE  EstablishedBy(c)'
BY DEF EstablishedBy

\* Each step of a submission establishes what the next one relies on.
LEMMA EstablishedByGoing ==
    ASSUME TypeOK, Established, NEW c \in Clients, Prepares(c), tx'[c].pc # "idle"
    PROVE  EstablishedBy(c)'
<1> USE DEF At, Cmd
<1>1. UNCHANGED <<def, request, standing>> /\ Taken' = Taken
  BY PrepareEffect DEF tables, Taken
<1>2. tx[c].pc # "idle" /\ EstablishedBy(c) /\ ~Refuse(c)
  BY PrepareEffect, EndType DEF Established, Refuse
<1>3. ASSUME NEW p, NEW L, Go(c, p, L)
      PROVE  tx'[c].pc = p /\ tx'[c].cmd = tx[c].cmd /\ tx'[c].held = tx[c].held \cup L
  BY <1>3 DEF Go, TypeOK
<1>4. CASE Acquire(c)
  <2>1. tx'[c].pc = IF Cmd(c).kind = "submit" THEN "definition" ELSE "execute"
    BY <1>2, <1>3, <1>4 DEF Acquire
  <2>2. tx'[c].cmd = tx[c].cmd
    BY <1>2, <1>3, <1>4 DEF Acquire
  <2>3. QED
    BY <2>1, <2>2 DEF EstablishedBy
<1>5. CASE Authorize(c)
  <2> DEFINE next == IF Cmd(c).kind = "submit" THEN "correlate" ELSE "acquire"
  <2>1. CASE Cmd(c).kind = "submit" /\ Cmd(c).who # "party"
    <3>1. tx'[c].pc = "correlate" /\ tx'[c].cmd = tx[c].cmd /\ tx'[c].held = tx[c].held \cup {}
      BY <1>3, <1>5, <2>1 DEF Authorize
    <3>2. QED
      BY <1>1, <1>2, <1>5, <2>1, <3>1 DEF EstablishedBy, Authorize
  <2>2. CASE ~ (Cmd(c).kind = "submit" /\ Cmd(c).who # "party")
    <3>1. Go(c, next, {AuthorityShare}) /\ standing = Full
      BY <1>2, <1>5, <2>2 DEF Authorize, AuthorityLocks
    <3>2. tx'[c].pc = next /\ tx'[c].cmd = tx[c].cmd /\ tx'[c].held = tx[c].held \cup {AuthorityShare}
      BY <1>3, <3>1
    <3>3. QED
      BY <1>1, <1>2, <1>5, <3>1, <3>2 DEF EstablishedBy, Authorize
  <2>3. QED
    BY <2>1, <2>2
<1>6. CASE ReadDefinition(c)
  <2>1. def.active /\ Cmd(c).on \in DOMAIN def.versions /\ Go(c, "parties", {DefinitionShare})
    BY <1>2, <1>6 DEF ReadDefinition, DefinitionLocks
  <2>2. QED
    BY <1>1, <1>2, <1>3, <1>6, <2>1 DEF EstablishedBy, ReadDefinition
<1>7. CASE ValidateParties(c)
  <2>1. Go(c, "authorize", {})
    BY <1>2, <1>7 DEF ValidateParties
  <2>2. QED
    BY <1>1, <1>2, <1>3, <1>7, <2>1 DEF EstablishedBy, ValidateParties
<1>8. CASE LockCorrelation(c)
  <2>1. Go(c, "correlate", {Correlation(NextCorrelation(c))})
    BY <1>8 DEF LockCorrelation
  <2>2. QED
    BY <1>1, <1>2, <1>3, <1>8, <2>1 DEF EstablishedBy, LockCorrelation
<1>9. CASE AssertAvailable(c)
  <2>1. Go(c, "insert", {}) /\ Unlocked(c) = {} /\ Range(Cmd(c).corr) \cap Taken = {}
    BY <1>2, <1>9 DEF AssertAvailable
  <2>2. \A x \in Range(Cmd(c).corr) : Correlation(x) \in tx[c].held
    BY <2>1 DEF Unlocked
  <2>3. tx'[c].pc = "insert" /\ tx'[c].cmd = tx[c].cmd /\ tx'[c].held = tx[c].held
    BY ZenonT(40), <1>3, <2>1
  <2>4. QED
    BY <1>1, <1>2, <1>9, <2>1, <2>2, <2>3 DEF EstablishedBy, AssertAvailable
<1>10. QED
  BY <1>4, <1>5, <1>6, <1>7, <1>8, <1>9 DEF Prepares

\* What submissions have established is kept by their locks.
LEMMA EstablishedPreserved ==
    ASSUME TypeOK, LocksExclusive, Established, CompletionHonest, [Next]_vars
    PROVE  Established'
<1>1. ASSUME NEW c \in Clients, tx' = [tx EXCEPT ![c] = Idle], UNCHANGED <<def, standing>>,
             Taken' = Taken
      PROVE  Established'
  BY <1>1, EndType, EstablishedFrame, EstablishedIdle DEF Established
<1>2. ASSUME NEW c \in Clients, NEW cmd \in Commands, Start(c, cmd) PROVE Established'
  <2>1. UNCHANGED <<def, standing>> /\ Taken' = Taken
    BY <1>2 DEF Start, tables, Taken
  <2>2. \A d \in Clients \ {c} : tx'[d] = tx[d]
    BY <1>2 DEF Start, TypeOK
  <2>3. /\ tx'[c].pc \in {"authorize", "acquire"} /\ tx'[c].cmd = cmd
        /\ tx'[c].pc = "authorize" => cmd.kind \in DefinitionKinds
    BY <1>2 DEF Start, TypeOK
  <2>4. EstablishedBy(c)'
    BY <2>3 DEF EstablishedBy, Cmd, DefinitionKinds
  <2>5. QED
    BY <2>1, <2>2, <2>4, EstablishedFrame DEF Established
<1>3. ASSUME NEW c \in Clients, Prepares(c) PROVE Established'
  <2>1. UNCHANGED <<def, standing>> /\ Taken' = Taken
    BY <1>3, PrepareEffect DEF tables, Taken
  <2>2. \A d \in Clients \ {c} : tx'[d] = tx[d]
    BY <1>3, PrepareEffect, EndType, GoType
  <2>3. EstablishedBy(c)'
    BY <1>3, EstablishedByGoing, EstablishedIdle
  <2>4. QED
    BY <2>1, <2>2, <2>3, EstablishedFrame DEF Established
<1>4. ASSUME NEW c \in Clients, InsertRequest(c) PROVE Established'
  <2>1. /\ UNCHANGED <<def, standing>> /\ tx[c].pc = "insert" /\ tx' = [tx EXCEPT ![c] = Idle]
        /\ Taken' = Taken \cup Range(Cmd(c).corr)
    BY <1>4, InsertEffect, TakenInsert DEF Commit
  <2>2. ASSUME NEW d \in Clients, d # c PROVE EstablishedBy(d)'
    <3>1. tx'[d] = tx[d] /\ EstablishedBy(d) /\ EstablishedBy(c)
      BY <2>1, <2>2, EndType DEF Established
    <3>2. CASE tx[d].pc = "insert"
      <4>1. ASSUME NEW x \in Range(Cmd(c).corr) \cap Range(Cmd(d).corr) PROVE FALSE
        <5>1. Correlation(x) \in tx[c].held \cap tx[d].held
          BY <2>1, <3>1, <3>2, <4>1 DEF EstablishedBy
        <5>2. Correlation(x) \notin {DefinitionShare, AuthorityShare}
          BY DEF Correlation, DefinitionShare, AuthorityShare
        <5>3. QED
          BY <2>2, <5>1, <5>2 DEF LocksExclusive
      <4>2. QED
        BY <2>1, <3>1, <3>2, <4>1 DEF EstablishedBy, Cmd
    <3>3. CASE tx[d].pc # "insert"
      BY <2>1, <3>1, <3>3 DEF EstablishedBy, Cmd
    <3>4. QED
      BY <3>2, <3>3
  <2>3. EstablishedBy(c)'
    BY <2>1, EndType, EstablishedIdle
  <2>4. QED
    BY <2>2, <2>3 DEF Established
<1>5. ASSUME NEW c \in Clients, Lifecycle(c) PROVE Established'
  <2>1. UNCHANGED <<def, standing>> /\ tx' = [tx EXCEPT ![c] = Idle]
    BY <1>5, LifecycleEffect DEF Refuse, Commit
  <2>2. Taken' = Taken
    <3>1. CASE Refuse(c)
      BY <3>1 DEF Refuse, tables, Taken
    <3>2. QED
      BY <1>5, <3>1, LifecycleEffect, TakenUpdate
  <2>3. QED
    BY <1>1, <2>1, <2>2
<1>6. ASSUME NEW c \in Clients, Administration(c) PROVE Established'
  <2>1. UNCHANGED <<request, standing>> /\ tx' = [tx EXCEPT ![c] = Idle] /\ Taken' = Taken
    BY <1>6, AdministrationEffect DEF Refuse, Commit, Taken
  <2>2. CASE Refuse(c)
    BY <1>1, <2>1, <2>2 DEF Refuse, tables
  <2>3. CASE Free(c, DefinitionShare)
    <3>1. ASSUME NEW d \in Clients, d # c PROVE EstablishedBy(d)'
      <4>1. tx'[d] = tx[d] /\ EstablishedBy(d) /\ DefinitionShare \notin tx[d].held
        BY <2>1, <2>3, <3>1, EndType DEF Established, Free
      <4>2. QED
        BY <2>1, <4>1 DEF EstablishedBy, Cmd
    <3>2. EstablishedBy(c)'
      BY <2>1, EndType, EstablishedIdle
    <3>3. QED
      BY <3>1, <3>2 DEF Established
  <2>4. QED
    BY <1>6, <2>2, <2>3, AdministrationEffect
<1>7. ASSUME NEW c \in Clients, Abort(c) PROVE Established'
  BY <1>1, <1>7 DEF Abort, Refuse, tables, Taken
<1>8. ASSUME NEW x \in Full, Withdraw(x) PROVE Established'
  <2>1. ASSUME NEW d \in Clients PROVE EstablishedBy(d)'
    <3>1. tx'[d] = tx[d] /\ def' = def /\ Taken' = Taken /\ EstablishedBy(d)
          /\ AuthorityShare \notin tx[d].held
      BY <1>8 DEF Withdraw, tables, Taken, Established
    <3>2. QED
      BY <3>1 DEF EstablishedBy, Cmd
  <2>2. QED
    BY <2>1 DEF Established
<1>9. CASE UNCHANGED vars
  <2>1. UNCHANGED <<def, standing, tx>> /\ Taken' = Taken
    BY <1>9 DEF vars, Taken
  <2>2. QED
    BY <2>1, EstablishedFrame DEF Established
<1>10. QED
  BY <1>2, <1>3, <1>4, <1>5, <1>6, <1>7, <1>8, <1>9, NextCases

\* No external key comes to be owned by two requests.
LEMMA DisjointPreserved ==
    ASSUME TypeOK, Established, CompletionHonest, CorrelationsDisjoint, [Next]_vars
    PROVE  CorrelationsDisjoint'
<1>1. CASE request' = request
  BY <1>1 DEF CorrelationsDisjoint
<1>2. ASSUME NEW c \in Clients, InsertRequest(c) PROVE CorrelationsDisjoint'
  <2> DEFINE n == Len(request) + 1
  <2>1. /\ DOMAIN request' = DOMAIN request \cup {n}
        /\ \A s \in DOMAIN request : request'[s].corr = request[s].corr
        /\ request'[n].corr = Range(Cmd(c).corr)
    BY <1>2, InsertEffect
  <2>2. Range(Cmd(c).corr) \cap Taken = {}
    BY <1>2, InsertEffect DEF Established, EstablishedBy
  <2>3. \A s \in DOMAIN request : request[s].corr \subseteq Taken
    BY DEF Taken
  <2> HIDE DEF n
  <2>4. QED
    BY <2>1, <2>2, <2>3 DEF CorrelationsDisjoint
<1>3. ASSUME NEW c \in Clients, Lifecycle(c) PROVE CorrelationsDisjoint'
  <2>1. ASSUME NEW r \in DOMAIN request, NEW st \in Statuses,
               NEW result \in {NoResult} \cup Identities, Update(r, st, result)
        PROVE  CorrelationsDisjoint'
    BY <2>1, UpdateEffect DEF CorrelationsDisjoint
  <2>2. QED
    BY <1>1, <1>3, <2>1, LifecycleEffect DEF Refuse, tables
<1>4. QED
  <2>1. \/ request' = request
        \/ \E c \in Clients : InsertRequest(c) \/ Lifecycle(c)
    BY NextCases, PrepareEffect, AdministrationEffect
       DEF Start, Abort, Refuse, Withdraw, tables, vars
  <2>2. QED
    BY <1>1, <1>2, <1>3, <2>1

\* Results stay honest: versions are never changed, only added.
LEMMA HonestPreserved ==
    ASSUME TypeOK, CompletionHonest, [Next]_vars
    PROVE  CompletionHonest'
<1> USE DEF HasResultSchema
<1>1. CASE UNCHANGED <<def, request>>
  BY <1>1 DEF CompletionHonest
<1>2. ASSUME NEW c \in Clients, InsertRequest(c) PROVE CompletionHonest'
  <2>1. /\ DOMAIN request' = DOMAIN request \cup {Len(request) + 1} /\ def' = def
        /\ \A s \in DOMAIN request : request'[s] = request[s]
        /\ request'[Len(request) + 1].st = "open" /\ request'[Len(request) + 1].result = NoResult
    BY <1>2, InsertEffect
  <2>2. QED
    BY <2>1 DEF CompletionHonest
<1>3. ASSUME NEW c \in Clients, Lifecycle(c) PROVE CompletionHonest'
  <2>1. ASSUME NEW r \in DOMAIN request, NEW st \in Statuses,
               NEW result \in {NoResult} \cup Identities, Update(r, st, result), def' = def,
               st = "completed" => (result # NoResult <=> HasResultSchema(r)),
               result # NoResult => HasResultSchema(r)
        PROVE  CompletionHonest'
    BY <2>1, UpdateEffect DEF CompletionHonest
  <2>2. QED
    BY <1>1, <1>3, <2>1, LifecycleEffect DEF Refuse, tables
<1>4. ASSUME NEW c \in Clients, Administration(c) PROVE CompletionHonest'
  <2>1. request' = request
    BY <1>4, AdministrationEffect
  <2>2. \A r \in DOMAIN request : def'.versions[request[r].ver] = def.versions[request[r].ver]
    BY <1>4, AdministrationEffect DEF Refuse, tables, TypeOK
  <2>3. QED
    BY <2>1, <2>2 DEF CompletionHonest
<1>5. QED
  <2>1. \/ UNCHANGED <<def, request>>
        \/ \E c \in Clients : InsertRequest(c) \/ Lifecycle(c) \/ Administration(c)
    BY NextCases, PrepareEffect DEF Start, Abort, Refuse, Withdraw, tables, vars
  <2>2. QED
    BY <1>1, <1>2, <1>3, <1>4, <2>1

-----------------------------------------------------------------------------
(* Theorems *)

\* The inductive invariant: types, exclusive locks, an executing transaction
\* under its unrecorded key, and what submissions keep established.
THEOREM RequestsInvariant == Spec => []RequestsInv
<1>1. Init => RequestsInv
  <2> SUFFICES ASSUME Init PROVE RequestsInv
    OBVIOUS
  <2>1. TypeOK
    BY CommandsAssumption DEF Init, TypeOK, Idle, Points, Full
  <2>2. LocksExclusive /\ KeyHeld /\ Established
    BY DEF Init, LocksExclusive, KeyHeld, Keyed, Established, EstablishedBy, Idle
  <2>3. CorrelationsDisjoint /\ CompletionHonest
    BY DEF Init, CorrelationsDisjoint, CompletionHonest
  <2>4. QED
    BY <2>1, <2>2, <2>3 DEF RequestsInv
<1>2. RequestsInv /\ [Next]_vars => RequestsInv'
  BY TypePreserved, LocksPreserved, KeyPreserved, EstablishedPreserved, DisjointPreserved,
     HonestPreserved DEF RequestsInv
<1>3. QED
  BY <1>1, <1>2, PTL DEF Spec

\* A command takes effect at most once per idempotency identity, for any number
\* of callers, repetitions and aborted transactions (acquire_idempotency,
\* complete_idempotency).
THEOREM IdempotentCommands == Spec => []OncePerKey
<1>1. RequestsInv => OncePerKey
  BY SMTT(30) DEF RequestsInv, KeyHeld, OncePerKey, TypeOK
<1>2. QED
  BY <1>1, RequestsInvariant, PTL

\* No two requests own the same external key: the advisory locks make the
\* availability check hold until the insert (lock_external_correlations).
THEOREM ExternalKeysOwnedOnce == Spec => []CorrelationsDisjoint
<1>1. RequestsInv => CorrelationsDisjoint
  BY DEF RequestsInv
<1>2. QED
  BY <1>1, RequestsInvariant, PTL

\* A completed request has a result exactly when its version defines one
\* (_validate_completion_result).
THEOREM HonestCompletion == Spec => []CompletionHonest
<1>1. RequestsInv => CompletionHonest
  BY DEF RequestsInv
<1>2. QED
  BY <1>1, RequestsInvariant, PTL

\* At the commit of a submission its definition is still active and its
\* requester still represented (load_request_definition_version FOR SHARE,
\* lock_current_party_authority).
THEOREM LawfulSubmission == Spec => SubmittedLawfully
<1>1. RequestsInv /\ [Next]_vars =>
        [\A c \in Clients :
            InsertRequest(c) => def.active /\ (Cmd(c).who = "party" => standing = Full)]_vars
  BY DEF RequestsInv, Established, EstablishedBy, InsertRequest, At
<1>2. QED
  BY <1>1, RequestsInvariant, PTL DEF Spec, SubmittedLawfully

=============================================================================
