------------------------------ MODULE Requests ------------------------------
(***************************************************************************)
(* The Requests module and the idempotency records under it: submission    *)
(* against a versioned definition, the lifecycle commands of a request,    *)
(* and the administration of the definition.                               *)
(*                                                                         *)
(* Every command is one database transaction at READ COMMITTED.  A step is *)
(* what the transaction does between two points at which it may have to    *)
(* wait for a lock; the steps of a submission are separate, because it     *)
(* reads the definition, the parties, the authority and the correlations   *)
(* one after the other.  A transaction that fails or is aborted leaves     *)
(* nothing behind, its idempotency record included.                        *)
(*                                                                         *)
(* A client may send any command of Commands at any time, the same one     *)
(* again (its answer was lost) or another one under the same key.  There   *)
(* is one definition, one requesting party and one principal.  Payloads    *)
(* conform to their schemas; what a result says is the command that        *)
(* brought it.                                                             *)
(***************************************************************************)
EXTENDS Naturals, Sequences, FiniteSets, Functions

CONSTANTS
    Clients,   \* concurrent callers
    Commands,  \* the commands they send, see Command
    MaxFaults  \* bound: aborted transactions

\* on: the version submitted against, or the request meant; exp: the expected
\* revision, 0 for none; with: a result payload, a result schema, or the new
\* active flag; corr: external keys, in the client's order; who: the requester
\* party's representative, an operator, or nobody (no requester).
Command(kind, key, on, exp, with, corr, who) ==
    [kind |-> kind, key |-> key, on |-> on, exp |-> exp, with |-> with,
     corr |-> corr, who |-> who]

DefinitionKinds == {"create_definition", "publish_version", "set_active"}
Kinds == DefinitionKinds \cup {"submit", "record_result", "complete", "cancel", "fail"}

ASSUME CommandsAssumption ==
    /\ \A c \in Commands :
          /\ c.kind \in Kinds
          /\ c.on \in Nat /\ c.exp \in Nat /\ c.with \in BOOLEAN
          /\ c.corr \in Seq(Nat)
          /\ c.who \in {"party", "operator", "nobody"}
    /\ MaxFaults \in Nat

VARIABLES
    def,      \* the request_definitions row with its versions
    request,  \* requests, in the order of their creation
    record,   \* completed idempotency_records
    standing, \* what the requester's authority rests on and still holds
    tx,       \* tx[c]: the transaction of client c
    applied,  \* history: how often an idempotency identity took effect
    faults

vars == <<def, request, record, standing, tx, applied, faults>>
tables == <<def, request, record, applied>>

\* organization and principal are fixed: the identity of a command.
Identity(cmd) == <<cmd.kind, cmd.key>>
Identities == {Identity(cmd) : cmd \in Commands}

\* command_fingerprint: correlations are sorted first, an operator's override
\* is not part of it.
Fingerprint(cmd) == <<cmd.on, cmd.exp, cmd.with, Range(cmd.corr), cmd.who = "nobody">>

NoRecord == <<>>
NoResult == <<>>
Idle == [pc |-> "idle", cmd |-> <<>>, held |-> {}]
Full == {"party", "representation"}
Closed == {"completed", "cancelled", "failed"}

Statuses == {"open"} \cup Closed
Points == {"idle", "authorize", "acquire", "definition", "parties", "correlate", "insert",
           "execute"}

\* What a transaction may hold: idempotency keys, external keys, and the shares
\* of the definition and of the authority.
Locks == ({"key"} \X Identities) \cup ({"correlation"} \X Nat)
         \cup ({"definition", "authority"} \X {"share"})

TypeOK ==
    /\ def \in [active : BOOLEAN, rev : Nat, versions : Seq(BOOLEAN)]
    /\ request \in Seq([ver : Nat, st : Statuses, result : {NoResult} \cup Identities,
                        rev : Nat \ {0}, corr : SUBSET Nat, party : BOOLEAN])
    /\ \A r \in DOMAIN request : request[r].ver \in DOMAIN def.versions
    /\ record \in [Identities -> {NoRecord} \cup {Fingerprint(cmd) : cmd \in Commands}]
    /\ applied \in [Identities -> Nat]
    /\ standing \subseteq Full
    /\ tx \in [Clients -> [pc : Points, cmd : Commands \cup {<<>>}, held : SUBSET Locks]]
    /\ \A c \in Clients : tx[c].pc # "idle" => tx[c].cmd \in Commands
    /\ faults \in 0..MaxFaults

Init ==
    /\ def = [active |-> FALSE, rev |-> 0, versions |-> <<>>]
    /\ request = <<>>
    /\ record = [i \in Identities |-> NoRecord]
    /\ standing = Full
    /\ tx = [c \in Clients |-> Idle]
    /\ applied = [i \in Identities |-> 0]
    /\ faults = 0

-----------------------------------------------------------------------------
(* Transactions *)

Cmd(c) == tx[c].cmd
At(c, p) == tx[c].pc = p
Go(c, p, locks) == tx' = [tx EXCEPT ![c].pc = p, ![c].held = @ \cup locks]

Key(c) == <<"key", Identity(Cmd(c))>>
Correlation(x) == <<"correlation", x>>
DefinitionShare == <<"definition", "share">>
AuthorityShare == <<"authority", "share">>

\* No other transaction holds the lock.
Free(c, lock) == \A d \in Clients \ {c} : lock \notin tx[d].held

\* The command fails: the transaction rolls back.
Refuse(c) == tx' = [tx EXCEPT ![c] = Idle] /\ UNCHANGED tables

\* _record_command_success, complete_idempotency and the commit.
Commit(c) ==
    /\ record' = [record EXCEPT ![Identity(Cmd(c))] = Fingerprint(Cmd(c))]
    /\ applied' = [applied EXCEPT ![Identity(Cmd(c))] = @ + 1]
    /\ tx' = [tx EXCEPT ![c] = Idle]

Start(c, cmd) ==
    /\ At(c, "idle")
    /\ tx' = [tx EXCEPT ![c] = [pc |-> IF cmd.kind \in DefinitionKinds
                                       THEN "authorize" ELSE "acquire",
                                cmd |-> cmd, held |-> {}]]
    /\ UNCHANGED <<tables, standing, faults>>

\* Defect: the record is read without the row lock.
AcquireUnlocked(c) ==
    /\ At(c, "acquire")
    /\ IF record[Identity(Cmd(c))] = NoRecord
       THEN /\ Go(c, IF Cmd(c).kind = "submit" THEN "definition" ELSE "execute", {})
            /\ UNCHANGED tables
       ELSE Refuse(c)
    /\ UNCHANGED <<standing, faults>>

\* acquire_idempotency: the unique key makes a second transaction wait for the
\* first; then it executes, replays the stored answer, or is refused because
\* the fingerprint differs.  A replay changes nothing either.
Acquire(c) ==
    /\ At(c, "acquire")
    /\ Free(c, Key(c))
    /\ IF record[Identity(Cmd(c))] = NoRecord
       THEN /\ Go(c, IF Cmd(c).kind = "submit" THEN "definition" ELSE "execute", {Key(c)})
            /\ UNCHANGED tables
       ELSE Refuse(c)
    /\ UNCHANGED <<standing, faults>>

\* lock_current_party_authority, require_principal_serialized_operational_authority.
AuthorityLocks(c) == {AuthorityShare}

\* The authority of a definition command (before the key is acquired) and of
\* a submission (after the parties); an operator, or nobody, needs none here.
Authorize(c) ==
    /\ At(c, "authorize")
    /\ LET next == IF Cmd(c).kind = "submit" THEN "correlate" ELSE "acquire"
       IN  IF Cmd(c).kind = "submit" /\ Cmd(c).who # "party"
           THEN Go(c, next, {}) /\ UNCHANGED tables
           ELSE IF standing = Full
           THEN Go(c, next, AuthorityLocks(c)) /\ UNCHANGED tables
           ELSE Refuse(c)
    /\ UNCHANGED <<standing, faults>>

-----------------------------------------------------------------------------
(* requests.submit *)

\* Defect: the definition is read without FOR SHARE.
ShareNothing(c) == {}

DefinitionLocks(c) == {DefinitionShare}

\* load_request_definition_version, with the definition locked.
ReadDefinition(c) ==
    /\ At(c, "definition")
    /\ IF def.active /\ Cmd(c).on \in DOMAIN def.versions
       THEN Go(c, "parties", DefinitionLocks(c)) /\ UNCHANGED tables
       ELSE Refuse(c)
    /\ UNCHANGED <<standing, faults>>

\* validate_request_parties: the parties are not locked.
ValidateParties(c) ==
    /\ At(c, "parties")
    /\ IF "party" \in standing
       THEN Go(c, "authorize", {}) /\ UNCHANGED tables
       ELSE Refuse(c)
    /\ UNCHANGED <<standing, faults>>

Unlocked(c) == {x \in Range(Cmd(c).corr) : Correlation(x) \notin tx[c].held}

\* Defect: in the order in which the client lists them.
NextInClientOrder(c) ==
    LET i == CHOOSE i \in DOMAIN Cmd(c).corr :
                 /\ Cmd(c).corr[i] \in Unlocked(c)
                 /\ \A j \in 1..(i - 1) : Cmd(c).corr[j] \notin Unlocked(c)
    IN  Cmd(c).corr[i]

\* The advisory locks are taken in sorted order.
NextCorrelation(c) == CHOOSE x \in Unlocked(c) : \A y \in Unlocked(c) : x <= y

\* lock_external_correlations
LockCorrelation(c) ==
    /\ At(c, "correlate")
    /\ Unlocked(c) # {}
    /\ Free(c, Correlation(NextCorrelation(c)))
    /\ Go(c, "correlate", {Correlation(NextCorrelation(c))})
    /\ UNCHANGED <<tables, standing, faults>>

Taken == UNION {request[r].corr : r \in DOMAIN request}

\* Defect: the correlations are checked before they are locked.
AssertAvailableUnlocked(c) ==
    /\ At(c, "correlate")
    /\ IF Range(Cmd(c).corr) \cap Taken = {}
       THEN Go(c, "insert", {}) /\ UNCHANGED tables
       ELSE Refuse(c)
    /\ UNCHANGED <<standing, faults>>

\* assert_external_correlations_available
AssertAvailable(c) ==
    /\ At(c, "correlate")
    /\ Unlocked(c) = {}
    /\ IF Range(Cmd(c).corr) \cap Taken = {}
       THEN Go(c, "insert", {}) /\ UNCHANGED tables
       ELSE Refuse(c)
    /\ UNCHANGED <<standing, faults>>

\* The request, its participants and correlations.
InsertRequest(c) ==
    /\ At(c, "insert")
    /\ request' = Append(request, [ver |-> Cmd(c).on, st |-> "open", result |-> NoResult,
                                   rev |-> 1, corr |-> Range(Cmd(c).corr),
                                   party |-> Cmd(c).who # "nobody"])
    /\ Commit(c)
    /\ UNCHANGED <<def, standing, faults>>

-----------------------------------------------------------------------------
(* Lifecycle of a request: lock_request is held to the commit *)

HasResultSchema(r) == def.versions[request[r].ver]

Expected(cmd, rev) == cmd.exp = 0 \/ cmd.exp = rev

\* lock_request, ensure_expected_revision, ensure_request_open
LockOpen(cmd) ==
    /\ cmd.on \in DOMAIN request
    /\ Expected(cmd, request[cmd.on].rev)
    /\ request[cmd.on].st = "open"

\* request row r with changes, one revision on.
Update(r, st, result) ==
    request' = [request EXCEPT ![r].st = st, ![r].result = result, ![r].rev = @ + 1]

\* A lifecycle command takes effect, or is refused.
Execute(c, kind, accepted, effect) ==
    /\ At(c, "execute") /\ Cmd(c).kind = kind
    /\ IF accepted THEN effect /\ Commit(c) /\ UNCHANGED def ELSE Refuse(c)
    /\ UNCHANGED <<standing, faults>>

RecordRequestResult(c) ==
    LET cmd == Cmd(c)
        r == cmd.on
    IN  Execute(c, "record_result",
                LockOpen(cmd) /\ request[r].result = NoResult /\ HasResultSchema(r),
                Update(r, "open", Identity(cmd)))

\* Defect: a result that is required need not be there.
CompletesWithoutResult(cmd) == TRUE

\* _validate_completion_result
CompletionResultValid(cmd) ==
    LET r == cmd.on
    IN  IF cmd.with THEN HasResultSchema(r) /\ request[r].result = NoResult
        ELSE HasResultSchema(r) => request[r].result # NoResult

CompleteRequest(c) ==
    LET cmd == Cmd(c)
        r == cmd.on
    IN  Execute(c, "complete",
                LockOpen(cmd) /\ CompletionResultValid(cmd),
                Update(r, "completed", IF cmd.with THEN Identity(cmd) ELSE request[r].result))

\* The representative of the requester, or an operator.
CancelRequest(c) ==
    LET cmd == Cmd(c)
        r == cmd.on
    IN  Execute(c, "cancel",
                /\ LockOpen(cmd)
                /\ cmd.who # "operator" => request[r].party /\ standing = Full,
                Update(r, "cancelled", request[r].result))

FailRequest(c) ==
    LET cmd == Cmd(c)
        r == cmd.on
    IN  Execute(c, "fail", LockOpen(cmd), Update(r, "failed", request[r].result))

-----------------------------------------------------------------------------
(* The definition: locked FOR UPDATE to the commit *)

Administer(c, kind, accepted, new) ==
    /\ At(c, "execute") /\ Cmd(c).kind = kind
    /\ Free(c, DefinitionShare)
    /\ IF accepted THEN def' = new /\ Commit(c) /\ UNCHANGED request ELSE Refuse(c)
    /\ UNCHANGED <<standing, faults>>

\* A second definition under the same request_key violates its unique key.
CreateDefinition(c) ==
    Administer(c, "create_definition", def.versions = <<>>,
               [active |-> TRUE, rev |-> 1, versions |-> <<Cmd(c).with>>])

Known(cmd) == def.versions # <<>> /\ cmd.exp = def.rev

PublishVersion(c) ==
    Administer(c, "publish_version", Known(Cmd(c)),
               [def EXCEPT !.rev = @ + 1, !.versions = Append(@, Cmd(c).with)])

SetActive(c) ==
    Administer(c, "set_active", Known(Cmd(c)),
               [def EXCEPT !.rev = @ + 1, !.active = Cmd(c).with])

-----------------------------------------------------------------------------
\* The party is deactivated or the representation revoked: the row is updated,
\* so the transaction waits for every share lock on it.
Withdraw(x) ==
    /\ x \in standing
    /\ \A c \in Clients : AuthorityShare \notin tx[c].held
    /\ standing' = standing \ {x}
    /\ UNCHANGED <<tables, tx, faults>>

\* The connection is lost, or the transaction is chosen as a victim.
Abort(c) ==
    /\ ~At(c, "idle")
    /\ faults < MaxFaults
    /\ faults' = faults + 1
    /\ Refuse(c)
    /\ UNCHANGED standing

Step(c) ==
    \/ Acquire(c)
    \/ Authorize(c)
    \/ ReadDefinition(c)
    \/ ValidateParties(c)
    \/ LockCorrelation(c)
    \/ AssertAvailable(c)
    \/ InsertRequest(c)
    \/ RecordRequestResult(c)
    \/ CompleteRequest(c)
    \/ CancelRequest(c)
    \/ FailRequest(c)
    \/ CreateDefinition(c)
    \/ PublishVersion(c)
    \/ SetActive(c)

Next ==
    \/ \E c \in Clients, cmd \in Commands : Start(c, cmd)
    \/ \E c \in Clients : Step(c) \/ Abort(c)
    \/ \E x \in Full : Withdraw(x)

Spec == Init /\ [][Next]_vars

\* A transaction goes on; a lock it waits for is granted in queue order, so
\* it is not overtaken for ever.
Fairness == \A c \in Clients : SF_vars(Step(c))

FairSpec == Spec /\ Fairness

-----------------------------------------------------------------------------
(* Properties *)

\* However often, and by however many callers at once, a command is sent under
\* one key, it takes effect once (acquire_idempotency, complete_idempotency).
\* Checked together with the types of the state.
OncePerKey == TypeOK /\ \A i \in Identities : applied[i] <= 1

\* A submission that passed the availability check never runs into the unique
\* constraint: no two requests own the same external key.
CorrelationsDisjoint ==
    \A r, s \in DOMAIN request : r # s => request[r].corr \cap request[s].corr = {}

\* A completed request has a result exactly when the version it was submitted
\* against defines one, whatever was published, recorded or completed around it.
CompletionHonest ==
    \A r \in DOMAIN request :
        /\ request[r].st = "completed" => (request[r].result # NoResult <=> HasResultSchema(r))
        /\ request[r].result # NoResult => HasResultSchema(r)

\* At the commit of a submission its definition is active, and a requester who
\* acts by representation is still represented, although both were checked
\* steps before.
SubmittedLawfully ==
    [][\A c \in Clients :
          InsertRequest(c) => def.active /\ (Cmd(c).who = "party" => standing = Full)]_vars

\* Every command is answered: transactions never wait for each other in a
\* circle (sorted correlation locks, authority before key in the definition
\* commands, key before authority in the submission).
CommandAnswered == \A c \in Clients : ~At(c, "idle") ~> At(c, "idle")
-----------------------------------------------------------------------------
(* The inductive invariant *)

\* Two transactions hold the same lock only if it is a share.
LocksExclusive ==
    \A c, d \in Clients : c # d => tx[c].held \cap tx[d].held \subseteq {DefinitionShare, AuthorityShare}

\* The transaction executes under its idempotency key.
Keyed(c) ==
    \/ tx[c].pc \in {"definition", "parties", "correlate", "insert", "execute"}
    \/ tx[c].pc = "authorize" /\ Cmd(c).kind = "submit"

\* An executing transaction has its key, which has no record yet; a record
\* stands for one effect.
KeyHeld ==
    /\ \A c \in Clients :
          Keyed(c) => Key(c) \in tx[c].held /\ record[Identity(Cmd(c))] = NoRecord
    /\ \A i \in Identities : applied[i] = IF record[i] = NoRecord THEN 0 ELSE 1

\* What a submission has established by the time it is at a point, and keeps
\* by its locks.
EstablishedBy(c) ==
    /\ tx[c].pc \in {"definition", "parties", "correlate", "insert"} => Cmd(c).kind = "submit"
    /\ tx[c].pc \in {"parties", "correlate", "insert"}
       \/ (tx[c].pc = "authorize" /\ Cmd(c).kind = "submit")
       => /\ DefinitionShare \in tx[c].held
          /\ def.active /\ Cmd(c).on \in DOMAIN def.versions
    /\ tx[c].pc \in {"correlate", "insert"} /\ Cmd(c).who = "party"
       => AuthorityShare \in tx[c].held /\ standing = Full
    /\ tx[c].pc = "insert"
       => /\ \A x \in Range(Cmd(c).corr) : Correlation(x) \in tx[c].held
          /\ Range(Cmd(c).corr) \cap Taken = {}

Established == \A c \in Clients : EstablishedBy(c)

RequestsInv ==
    /\ TypeOK
    /\ LocksExclusive
    /\ KeyHeld
    /\ Established
    /\ CorrelationsDisjoint
    /\ CompletionHonest

=============================================================================
