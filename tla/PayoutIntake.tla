---------------------------- MODULE PayoutIntake ----------------------------
(***************************************************************************)
(* The intake of payouts: Service.CreatePayout of                          *)
(* src/internal/apps/api/services/payouts, one SQL statement per step, any *)
(* number of HTTP calls interleaved, over a READ COMMITTED PostgreSQL.     *)
(*                                                                         *)
(* Rows are kept with the transaction that wrote them, the way PostgreSQL  *)
(* does: a rollback changes the status of the transaction, and a row       *)
(* counts when its transaction did not abort.  A call opens at most one    *)
(* transaction and inserts at most one payout, so the call itself names    *)
(* both the transaction and the payout id it mints.                        *)
(***************************************************************************)

CONSTANTS
    Calls,          \* POST /payouts calls, retries of a client included
    Requests,       \* what a call may carry: records of the fields below
    FundingOwner,   \* table funding_sources: id -> owning client
    NoKey,          \* a blank Idempotency-Key
    NoExternalId,   \* an empty external_id, stored as NULL
    Malformed,      \* details (recipient, amount, currency) failing validation
    None            \* no request yet; the zero db.Payout

ASSUME RequestAssumption ==
    \A r \in Requests : DOMAIN r =
        {"client", "key", "fundingSource", "externalId", "details"}

ASSUME NoneAssumption == None \notin Calls /\ None \notin Requests

VARIABLES
    request,    \* request[c]: the input of call c, once received
    pc,         \* pc[c]: the statement call c executes next
    chosen,     \* chosen[c]: the payout id call c holds
    answer,     \* answer[c]: the response of call c
    txn,        \* txn[c]: the status of the transaction of call c
    payouts,    \* table payouts
    keys,       \* table idempotency_keys
    events      \* table outbox_events

tables == <<payouts, keys, events>>
vars == <<request, pc, chosen, answer, txn, payouts, keys, events>>

----------------------------------------------------------------------------
(* Rows, hashes and answers. *)

\* createPayoutRequestHash: SHA-256 over every field but the key, taken to be
\* injective.
RequestHash(r) == <<r.client, r.fundingSource, r.externalId, r.details>>

PayoutRow(id, r) ==
    [id |-> id, client |-> r.client, fundingSource |-> r.fundingSource,
     externalId |-> r.externalId, details |-> r.details]

KeyRow(id, r) ==
    [client |-> r.client, key |-> r.key, hash |-> RequestHash(r),
     payoutId |-> id]

\* Faulty: the stored hash is not compared.
AnyHash(k, r) == TRUE
SameHash(k, r) == k.hash = RequestHash(r)

\* A process_payout event; its payload is the payout id and the client.
EventRow(id, r) == [entityId |-> id, client |-> r.client]

\* What validation rejects, before any statement.  Faulty: a blank key passes.
ValidationErrorLax(r) == IF r.details = Malformed THEN "invalidPayout" ELSE "none"
ValidationError(r) ==
    IF r.key = NoKey THEN "invalidIdempotencyKey"
    ELSE IF r.details = Malformed THEN "invalidPayout" ELSE "none"

Created(id) == [code |-> "created", payout |-> id]
Refused(code) == [code |-> code, payout |-> None]
NoAnswer == Refused("none")

ErrorCodes ==
    {"invalidIdempotencyKey", "invalidPayout", "idempotencyConflict",
     "duplicateExternalId", "fundingSourceNotFound", "internal"}

Answers ==
    {NoAnswer} \cup {Refused(code) : code \in ErrorCodes}
               \cup {Created(c) : c \in Calls}

\* The statements of the closure run by WithinTx, in order, and its commit.
TxnStatements ==
    {"lookupKey", "loadPayout", "checkFunding", "insertPayout", "insertKey",
     "insertEvent", "commit"}

\* The statements run on the pool after errConcurrentIdempotencyKeyInsert.
ReloadStatements == {"reloadKey", "reloadPayout"}

InFlight == TxnStatements \cup ReloadStatements \cup {"reply"}
Labels == InFlight \cup {"idle", "answered", "lost"}

\* What the CHECK constraints of the tables ask of a row, as far as validation
\* sees to it.  An amount that only rounds to zero passes validation and fails
\* its insert: that is StatementFails.
StorableRequests ==
    {r \in Requests : r.key # NoKey /\ r.details # Malformed}

TypeOK ==
    /\ request \in [Calls -> Requests \cup {None}]
    /\ pc \in [Calls -> Labels]
    /\ \A c \in Calls : pc[c] \in InFlight => request[c] \in StorableRequests
    /\ chosen \in [Calls -> Calls \cup {None}]
    /\ answer \in [Calls -> Answers]
    /\ txn \in [Calls -> {"none", "active", "committed", "aborted"}]
    /\ payouts \subseteq {PayoutRow(c, r) : c \in Calls, r \in StorableRequests}
    /\ keys \subseteq {KeyRow(c, r) : c \in Calls, r \in StorableRequests}
    /\ events \subseteq {EventRow(c, r) : c \in Calls, r \in StorableRequests}

----------------------------------------------------------------------------
(* Visibility and unique indexes. *)

CommittedPayouts == {p \in payouts : txn[p.id] = "committed"}
CommittedKeys == {k \in keys : txn[k.payoutId] = "committed"}
CommittedEvents == {e \in events : txn[e.entityId] = "committed"}

\* Two rows collide in ux_payouts_client_external_id, a partial index.
SameExternalId(p, r) ==
    /\ r.externalId # NoExternalId
    /\ p.client = r.client
    /\ p.externalId = r.externalId

\* Two rows collide in the primary key of idempotency_keys.
SameKey(k, r) == k.client = r.client /\ k.key = r.key

\* GetFundingSourceByClientID finds a row.  Faulty: it looks at the id alone.
FundedByAnyone(r) == r.fundingSource \in DOMAIN FundingOwner
Funded(r) ==
    /\ r.fundingSource \in DOMAIN FundingOwner
    /\ FundingOwner[r.fundingSource] = r.client

\* An insert waits while the row it collides with belongs to a transaction
\* that may still abort.  Faulty: it does not wait.
NeverLocked(r) == FALSE
ExternalIdLocked(r) ==
    \E p \in payouts : SameExternalId(p, r) /\ txn[p.id] = "active"
KeyLocked(r) ==
    \E k \in keys : SameKey(k, r) /\ txn[k.payoutId] = "active"

ExternalIdTaken(r) == \E p \in CommittedPayouts : SameExternalId(p, r)
KeyTaken(r) == \E k \in CommittedKeys : SameKey(k, r)

----------------------------------------------------------------------------
Init ==
    /\ request = [c \in Calls |-> None]
    /\ pc = [c \in Calls |-> "idle"]
    /\ chosen = [c \in Calls |-> None]
    /\ answer = [c \in Calls |-> NoAnswer]
    /\ txn = [c \in Calls |-> "none"]
    /\ payouts = {}
    /\ keys = {}
    /\ events = {}

(* Helpers of the actions. *)

Goto(c, from, to) ==
    /\ pc[c] = from
    /\ pc' = [pc EXCEPT ![c] = to]

\* The deferred tx.Rollback of WithinTx; outside a transaction, nothing to do.
\* Faulty: it commits; it is forgotten.
CommitInstead(c) == txn' = [txn EXCEPT ![c] = IF @ = "active" THEN "committed" ELSE @]
LeaveOpen(c) == UNCHANGED txn
Rollback(c) == txn' = [txn EXCEPT ![c] = IF @ = "active" THEN "aborted" ELSE @]

\* The error path: the rollback, then the error response.
Refuse(c, code) ==
    /\ pc' = [pc EXCEPT ![c] = "answered"]
    /\ answer' = [answer EXCEPT ![c] = Refused(code)]
    /\ Rollback(c)
    /\ UNCHANGED <<request, chosen, tables>>

----------------------------------------------------------------------------
(* A call arrives, is validated, and opens its transaction. *)

Receive(c, r) ==
    /\ pc[c] = "idle"
    /\ request' = [request EXCEPT ![c] = r]
    /\ IF ValidationError(r) # "none"
       THEN /\ pc' = [pc EXCEPT ![c] = "answered"]
            /\ answer' = [answer EXCEPT ![c] = Refused(ValidationError(r))]
            /\ UNCHANGED txn
       ELSE /\ pc' = [pc EXCEPT ![c] = "lookupKey"]
            /\ txn' = [txn EXCEPT ![c] = "active"]
            /\ UNCHANGED answer
    /\ UNCHANGED <<chosen, tables>>

(* loadIdempotentPayout, inside the transaction and again on the pool. *)

\* GetIdempotencyKey: each statement sees what is committed when it starts.
\* When the row is missing the caller goes on at the label missing.
LoadKey(c, from, to, missing) ==
    /\ pc[c] = from
    /\ IF ~KeyTaken(request[c])
       THEN /\ Goto(c, from, missing)
            /\ UNCHANGED <<request, chosen, answer, txn, tables>>
       ELSE \E k \in CommittedKeys :
              /\ SameKey(k, request[c])
              /\ IF ~SameHash(k, request[c])
                 THEN Refuse(c, "idempotencyConflict")
                 ELSE /\ Goto(c, from, to)
                      /\ chosen' = [chosen EXCEPT ![c] = k.payoutId]
                      /\ UNCHANGED <<request, answer, txn, tables>>

\* GetPayoutByClientID: the client must own the payout the key names.
LoadPayout(c, from, to) ==
    /\ pc[c] = from
    /\ IF \E p \in CommittedPayouts :
            p.id = chosen[c] /\ p.client = request[c].client
       THEN /\ Goto(c, from, to)
            /\ UNCHANGED <<request, chosen, answer, txn, tables>>
       ELSE Refuse(c, "internal")

\* Faulty: the transaction starts without the lookup.
SkipLookup(c) ==
    /\ Goto(c, "lookupKey", "checkFunding")
    /\ UNCHANGED <<request, chosen, answer, txn, tables>>
LookupKey(c) == LoadKey(c, "lookupKey", "loadPayout", "checkFunding")
LoadExisting(c) == LoadPayout(c, "loadPayout", "commit")
ReloadKey(c) == LoadKey(c, "reloadKey", "reloadPayout", "reply")
ReloadPayout(c) == LoadPayout(c, "reloadPayout", "reply")

(* The rest of the closure. *)

CheckFunding(c) ==
    /\ pc[c] = "checkFunding"
    /\ IF Funded(request[c])
       THEN /\ Goto(c, "checkFunding", "insertPayout")
            /\ UNCHANGED <<request, chosen, answer, txn, tables>>
       ELSE Refuse(c, "fundingSourceNotFound")

InsertPayout(c) ==
    /\ pc[c] = "insertPayout"
    /\ ~ExternalIdLocked(request[c])
    /\ IF ExternalIdTaken(request[c])
       THEN Refuse(c, "duplicateExternalId")
       ELSE /\ Goto(c, "insertPayout", "insertKey")
            /\ payouts' = payouts \cup {PayoutRow(c, request[c])}
            /\ UNCHANGED <<request, chosen, answer, txn, keys, events>>

\* A taken key ends the transaction; the call then reloads on the pool.
InsertKey(c) ==
    /\ pc[c] = "insertKey"
    /\ ~KeyLocked(request[c])
    /\ IF KeyTaken(request[c])
       THEN /\ Goto(c, "insertKey", "reloadKey")
            /\ Rollback(c)
            /\ UNCHANGED <<request, chosen, answer, tables>>
       ELSE /\ Goto(c, "insertKey", "insertEvent")
            /\ keys' = keys \cup {KeyRow(c, request[c])}
            /\ UNCHANGED <<request, chosen, answer, txn, payouts, events>>

InsertEvent(c) ==
    /\ Goto(c, "insertEvent", "commit")
    /\ events' = events \cup {EventRow(c, request[c])}
    /\ chosen' = [chosen EXCEPT ![c] = c]
    /\ UNCHANGED <<request, answer, txn, payouts, keys>>

Commit(c) ==
    /\ Goto(c, "commit", "reply")
    /\ txn' = [txn EXCEPT ![c] = "committed"]
    /\ UNCHANGED <<request, chosen, answer, tables>>

\* payoutFromDB fails on the zero payout: its amount is not a valid NUMERIC.
Reply(c) ==
    /\ Goto(c, "reply", "answered")
    /\ answer' = [answer EXCEPT ![c] =
            IF chosen[c] = None THEN Refused("internal") ELSE Created(chosen[c])]
    /\ UNCHANGED <<request, chosen, txn, tables>>

(* Failures. *)

\* Any statement, the commit included, may return an error that is not one of
\* the sentinels: the transaction is rolled back and the client gets a 500.
StatementFails(c) ==
    /\ pc[c] \in TxnStatements \cup ReloadStatements
    /\ Refuse(c, "internal")

\* The commit took effect but its acknowledgement did not reach the service.
CommitAckLost(c) ==
    /\ Goto(c, "commit", "answered")
    /\ txn' = [txn EXCEPT ![c] = "committed"]
    /\ answer' = [answer EXCEPT ![c] = Refused("internal")]
    /\ UNCHANGED <<request, chosen, tables>>

\* The process or the connection dies: no answer, and PostgreSQL rolls back.
Lose(c) ==
    /\ pc[c] \in InFlight
    /\ pc' = [pc EXCEPT ![c] = "lost"]
    /\ Rollback(c)
    /\ UNCHANGED <<request, chosen, answer, tables>>

----------------------------------------------------------------------------
Step(c) ==
    \/ LookupKey(c)
    \/ LoadExisting(c)
    \/ CheckFunding(c)
    \/ InsertPayout(c)
    \/ InsertKey(c)
    \/ InsertEvent(c)
    \/ Commit(c)
    \/ Reply(c)
    \/ ReloadKey(c)
    \/ ReloadPayout(c)

Fault(c) ==
    \/ StatementFails(c)
    \/ CommitAckLost(c)
    \/ Lose(c)

Over(c) == pc[c] \in {"answered", "lost"}

Terminating == (\A c \in Calls : Over(c)) /\ UNCHANGED vars

Next ==
    \/ \E c \in Calls : (\E r \in Requests : Receive(c, r)) \/ Step(c) \/ Fault(c)
    \/ Terminating

\* Each call runs on its own goroutine, and PostgreSQL wakes a waiting insert
\* when the transaction it waits for ends.  Faults and arrivals are not fair.
Fairness == \A c \in Calls : WF_vars(Step(c))

Spec == Init /\ [][Next]_vars
FairSpec == Spec /\ Fairness

----------------------------------------------------------------------------
(* What intake promises. *)

\* A payout, its idempotency key and its process_payout event exist together
\* or not at all, and say the same thing: a crash, an error or a lost
\* acknowledgement between two of the three inserts (service.go:186-227) never
\* leaves a payout without a job, or a key naming a payout that is not there.
IntakeIsAtomic ==
    \A c \in Calls :
        LET p == \E row \in CommittedPayouts : row.id = c
            k == \E row \in CommittedKeys : row.payoutId = c
            e == \E row \in CommittedEvents : row.entityId = c
        IN  /\ p <=> k
            /\ k <=> e
            /\ p => /\ PayoutRow(c, request[c]) \in payouts
                    /\ KeyRow(c, request[c]) \in keys
                    /\ EventRow(c, request[c]) \in events

\* Every call answered 201 with the same client and idempotency key is told of
\* the same payout, however the calls interleave (service.go:165-234).
OneAnswerPerKey ==
    \A c, d \in Calls :
        /\ answer[c].code = "created" /\ answer[d].code = "created"
        /\ SameKey(request[c], request[d])
        => answer[c].payout = answer[d].payout

\* A 201 names a payout that is committed, has its job in the outbox, and was
\* made from a request with the fields of this one: neither the zero payout
\* that line 233 could let through, nor another transaction's uncommitted row.
CreatedIsBacked ==
    \A c \in Calls : answer[c].code = "created" =>
        /\ \E k \in CommittedKeys :
              /\ SameKey(k, request[c])
              /\ SameHash(k, request[c])
              /\ k.payoutId = answer[c].payout
        /\ \E p \in CommittedPayouts :
              /\ p.id = answer[c].payout
              /\ PayoutRow(p.id, request[c]) = p
        /\ \E e \in CommittedEvents : e.entityId = answer[c].payout

\* A call refused for a reason of the caller's own (a conflict, a duplicate, an
\* unknown funding source, a malformed request) has created nothing; only a
\* 500 may hide a payout that was committed (tx.go:61-63).
RefusalCreatesNothing ==
    \A c \in Calls :
        answer[c].code \in ErrorCodes \ {"internal"}
            => \A p \in CommittedPayouts : p.id # c

\* One client never gets two payouts for one idempotency key, nor two for one
\* non-empty external id, whatever the interleaving of lookups and inserts.
NoDoublePayout ==
    \A p, q \in CommittedPayouts :
        \/ p = q
        \/ ~SameKey(request[p.id], request[q.id]) /\ ~SameExternalId(p, q)

\* Every call that arrives is answered or lost with its connection: waiting on
\* the external id first and on the key second, calls never wait on each other
\* in a circle, and no rollback is forgotten (service.go:186-203, tx.go:50-55).
EveryCallEnds == \A c \in Calls : pc[c] \in InFlight ~> Over(c)

\* A retry that starts once the first attempt is committed is answered with
\* that payout or with a 500, never with a refusal (service.go:166-173).
Replayed(c) ==
    /\ pc[c] = "lookupKey"
    /\ \E k \in CommittedKeys :
          SameKey(k, request[c]) /\ SameHash(k, request[c])
ReplayIsNotRefused ==
    \A c \in Calls :
        [](Replayed(c) => [](answer[c].code \in {"none", "created", "internal"}))

\* The design document's "same hash -> return existing payout"
\* (src/docs/design/payout_orchestrator_system_design.md:588): a call is not
\* refused as a duplicate of the payout made for its own key and its own hash.
NoSelfDuplicate ==
    \A c \in Calls : answer[c].code = "duplicateExternalId" =>
        ~\E k \in CommittedKeys :
            SameKey(k, request[c]) /\ SameHash(k, request[c])

----------------------------------------------------------------------------
(* The abstract specification, and what stands for its state here. *)

\* A payout is accepted when its three rows are committed.
AcceptedPayouts ==
    {[id |-> k.payoutId, request |-> request[k.payoutId]] :
        k \in {row \in CommittedKeys :
                 /\ \E p \in CommittedPayouts : p.id = row.payoutId
                 /\ \E e \in CommittedEvents : e.entityId = row.payoutId}}

Intake == INSTANCE IdempotentIntake
            WITH asked <- request, accepted <- AcceptedPayouts

\* Statement by statement, under faults, the service is an intake that accepts
\* a request at most once and answers from what it accepted.
ImplementsIntake == Intake!Spec
=============================================================================
