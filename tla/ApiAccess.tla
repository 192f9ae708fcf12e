------------------------------ MODULE ApiAccess ------------------------------
(***************************************************************************)
(* What the clients of the HTTP API are shown: authentication, funding     *)
(* sources, reads of payouts, pagination and amounts.                      *)
(*                                                                         *)
(* A request is authenticated and handled.  A read is one SELECT, and the  *)
(* clients do not change: it is one step.  An insert begins, which gives   *)
(* the row its created_at, and commits later: inserts of several callers   *)
(* commit in any order, with reads between them.  The creation of a payout *)
(* is PayoutIntake's: here it is its row, its source and its amount.       *)
(*                                                                         *)
(* A caller walks a list page by page until a page is short.  An amount is *)
(* the digits of its decimal text, as an integer, and how many of them are *)
(* after the point.                                                        *)
(***************************************************************************)
EXTENDS Integers, FiniteSets

CONSTANTS
    Callers,        \* programs that call the API
    Clients,        \* rows of clients
    KeyOwner,       \* KeyOwner[k]: the client with the API key k
    Requests,       \* Requests[c]: what caller c may ask
    Ids,            \* ids of rows, in the order of the database
    DefaultLimit,   \* defaultPayoutListLimit, defaultFundingSourceListLimit
    MaxLimit,       \* maxPayoutListLimit, maxFundingSourceListLimit
    MaxCents,       \* the largest amount of payouts.amount, NUMERIC(10, 2)
    MaxTime,        \* bound: readings of the clock
    MaxFaults,      \* bound: statements that fail
    None,           \* no value
    Malformed       \* a text that does not parse as an id, a number, a source

Keys == DOMAIN KeyOwner
Amounts == [int : Int, scale : Nat]

ASSUME IdsAssumption == Ids \subseteq Nat /\ IsFiniteSet(Ids)
ASSUME BoundAssumption ==
    /\ MaxLimit \in Nat /\ DefaultLimit \in 1 .. MaxLimit
    /\ MaxTime \in Nat /\ MaxFaults \in Nat /\ MaxCents \in Nat
ASSUME KeyAssumption == KeyOwner \in [Keys -> Clients]

\* Requests are records; what does not parse is Malformed, what is left out None.
ASSUME RequestAssumption ==
    \A c \in Callers : \A r \in Requests[c] :
        /\ r = [operation |-> r.operation, kind |-> r.kind, key |-> r.key, id |-> r.id,
                limit |-> r.limit, offset |-> r.offset, amount |-> r.amount]
        /\ r.limit \in {None, Malformed} \cup Int
        /\ r.offset \in {None, Malformed} \cup Int
        /\ r.amount \in {None, Malformed} \cup Amounts

VARIABLES
    rows,           \* committed rows of funding_sources and payouts
    now,            \* the clock of the database
    draft,          \* draft[c]: the row that the request of c is inserting
    answer,         \* what the last step answered, and what it did not find
    told,           \* history: what was said of which row, and to which client
    walk,           \* walk[c]: the list that c walks
    faults          \* faults so far

vars == <<rows, now, draft, answer, told, walk, faults>>

----------------------------------------------------------------------------
(* Amounts. *)

Power[k \in Nat] == IF k = 0 THEN 1 ELSE 10 * Power[k - 1]

\* Numeric.Scan: an integer leaves its trailing zeros to the exponent.
Zeros(i) == CHOOSE k \in 0 .. i : i % Power[k] = 0 /\ i % Power[k + 1] # 0
parsePositiveNumeric(text) ==
    IF text \in {None, Malformed} \/ text.int <= 0
    THEN Malformed
    ELSE IF text.scale > 0
         THEN [int |-> text.int, exp |-> -text.scale]
         ELSE [int |-> text.int \div Power[Zeros(text.int)], exp |-> Zeros(text.int)]

\* Faulty: the zeros between the point and the digits are left out.
numericStringUnpadded(value) ==
    IF value.exp >= 0
    THEN [int |-> value.int * Power[value.exp], scale |-> 0]
    ELSE [int |-> value.int, scale |-> IF value.int < 10 THEN 1 ELSE -value.exp]
numericString(value) ==
    IF value.exp >= 0
    THEN [int |-> value.int * Power[value.exp], scale |-> 0]
    ELSE [int |-> value.int, scale |-> -value.exp]

\* The column, NUMERIC(10, 2), in cents: it rounds half up, and refuses what
\* is too large or not positive once it is rounded.
Cents(value) ==
    IF value.exp >= -2
    THEN value.int * Power[value.exp + 2]
    ELSE LET unit == Power[-2 - value.exp]
         IN  (2 * value.int + unit) \div (2 * unit)
Storable(cents) == cents \in 1 .. MaxCents

----------------------------------------------------------------------------
(* What is told of a row. *)

fundingSourceFromDB(row) ==
    [kind |-> row.kind, id |-> row.id, client |-> row.client, created |-> row.created]

payoutFromDB(row) ==
    [kind |-> row.kind, id |-> row.id, client |-> row.client, created |-> row.created,
     source |-> row.source, amount |-> numericString([int |-> row.cents, exp |-> -2])]

FromDB(row) == IF row.kind = "payout" THEN payoutFromDB(row) ELSE fundingSourceFromDB(row)

\* A POST tells the row that RETURNING gave it.
\* Faulty: it tells the amount of the request.
CreatedAsAsked(row) ==
    IF row.kind = "payout"
    THEN [payoutFromDB(row) EXCEPT !.amount = numericString(parsePositiveNumeric(row.asked))]
    ELSE fundingSourceFromDB(row)
Created(row) == FromDB(row)

----------------------------------------------------------------------------
(* The queries. *)

\* ORDER BY created_at DESC, id DESC.
Before(r, s) ==
    \/ r.created > s.created
    \/ r.created = s.created /\ r.id > s.id
Rank(r, S) == Cardinality({s \in S : Before(s, r)})
Page(S, limit, offset) == {r \in S : Rank(r, S) \in offset .. offset + limit - 1}

Own(client, kind) == {r \in rows : r.client = client /\ r.kind = kind}

\* Faulty: the list is everybody's.
ListAllPayouts(client, limit, offset) ==
    Page({r \in rows : r.kind = "payout"}, limit, offset)
ListPayoutsByClientID(client, limit, offset) == Page(Own(client, "payout"), limit, offset)
ListFundingSourcesByClientID(client, limit, offset) == Page(Own(client, "source"), limit, offset)
GetPayoutByClientID(client, id) == {r \in Own(client, "payout") : r.id = id}
\* Faulty: the arguments are swapped.
GetFundingSourceSwapped(client, id) == {r \in Own(id, "source") : r.id = client}
GetFundingSourceByClientID(client, id) == {r \in Own(client, "source") : r.id = id}

----------------------------------------------------------------------------
(* The walk of a caller through a list, page by page. *)

NoWalk ==
    [kind |-> None, key |-> None, limit |-> 0, next |-> 0, there |-> {}, seen |-> {},
     done |-> TRUE]

\* The limit that the caller counts on.
Expected(r) == IF r.limit = None THEN DefaultLimit ELSE r.limit

\* The first page begins a walk; the page that the walk is at goes on with it.
Begins(r) == r.offset = None
GoesOn(w, r) ==
    /\ ~w.done
    /\ r.kind = w.kind /\ r.key = w.key
    /\ Expected(r) = w.limit /\ r.offset = w.next

NextPages(c) == {[r EXCEPT !.offset = walk[c].next] :
                    r \in {q \in Requests[c] : q.operation = "list"}}

Turn(w, r, all, page) ==
    LET ids == {s.id : s \in page}
        last == Cardinality(page) < Expected(r)
    IN  IF Begins(r)
        THEN [kind |-> r.kind, key |-> r.key, limit |-> Expected(r), next |-> Expected(r),
              there |-> {s.id : s \in all}, seen |-> ids, done |-> last]
        ELSE IF GoesOn(w, r)
        THEN [w EXCEPT !.next = @ + w.limit, !.seen = @ \cup ids, !.done = last]
        ELSE w

----------------------------------------------------------------------------
Rows == [kind : {"source", "payout"}, id : Ids, client : Clients, created : 0 .. MaxTime,
         source : Ids \cup {None}, cents : 0 .. MaxCents, asked : Amounts \cup {None}]
Walks == [kind : {"source", "payout", None}, key : Keys \cup {None}, limit : Nat, next : Nat,
          there : SUBSET Ids, seen : SUBSET Ids, done : BOOLEAN]

\* The ids of rows and of inserts are all different.
Inserting == {c \in Callers : draft[c] # None}
IdsAreUnique ==
    /\ \A r, s \in rows : r.id = s.id => r = s
    /\ \A c \in Inserting : \A r \in rows : r.id # draft[c].id
    /\ \A c, d \in Inserting : c # d => draft[c].id # draft[d].id

TypeOK ==
    /\ rows \subseteq Rows
    /\ now \in 0 .. MaxTime
    /\ draft \in [Callers -> Rows \cup {None}]
    /\ walk \in [Callers -> Walks]
    /\ faults \in 0 .. MaxFaults
    /\ \A c \in Callers : ~walk[c].done => walk[c].key \in Keys /\ walk[c].limit > 0
    /\ IdsAreUnique

Nothing == [status |-> None, missed |-> {}]

Init ==
    /\ rows = {}
    /\ now = 0
    /\ draft = [c \in Callers |-> None]
    /\ answer = Nothing
    /\ told = {}
    /\ walk = [c \in Callers |-> NoWalk]
    /\ faults = 0

----------------------------------------------------------------------------
(* The middleware, and the routes. *)

\* The client that APIKey finds and puts into the context.
APIKey(r) == IF r.key \in Keys THEN KeyOwner[r.key] ELSE None

Routed(r, operation, kind) ==
    /\ APIKey(r) # None
    /\ r.operation = operation /\ r.kind = kind

Answer(status, missed) == answer' = [status |-> status, missed |-> missed]

Refuse(status, missed) ==
    /\ Answer(status, missed)
    /\ UNCHANGED <<draft, told, walk>>

NotFound(to, kind, id) == Refuse(404, {[to |-> to, kind |-> kind, id |-> id]})

Tell(to, status, what) ==
    /\ Answer(status, {})
    /\ told' = told \cup {[to |-> to, row |-> w] : w \in what}

\* A key that is missing, does not parse or is nobody's is turned away.
Unauthorized(r) ==
    /\ APIKey(r) = None
    /\ Refuse(401, {})
    /\ UNCHANGED rows

GetCurrentClient(r) ==
    /\ Routed(r, "me", None)
    /\ Refuse(200, {})
    /\ UNCHANGED rows

----------------------------------------------------------------------------
(* Reads. *)

Get(r, found) ==
    /\ IF r.id = Malformed THEN Refuse(400, {})
       ELSE IF found = {} THEN NotFound(APIKey(r), r.kind, r.id)
       ELSE Tell(APIKey(r), 200, {FromDB(row) : row \in found}) /\ UNCHANGED <<draft, walk>>
    /\ UNCHANGED rows

GetPayout(r) ==
    /\ Routed(r, "get", "payout")
    /\ Get(r, GetPayoutByClientID(APIKey(r), r.id))

GetFundingSource(r) ==
    /\ Routed(r, "get", "source")
    /\ Get(r, GetFundingSourceByClientID(APIKey(r), r.id))

\* Faulty: a limit that is too large is cut down, and not refused.
paginationClamped(r) ==
    LET limit == Expected(r)
        offset == IF Begins(r) THEN 0 ELSE r.offset
    IN  IF Malformed \in {limit, offset} \/ limit <= 0 \/ offset < 0
        THEN Malformed
        ELSE [limit |-> IF limit > MaxLimit THEN MaxLimit ELSE limit, offset |-> offset]
\* Faulty: a limit of zero is let through.
paginationFromZero(r) ==
    LET limit == Expected(r)
        offset == IF Begins(r) THEN 0 ELSE r.offset
    IN  IF Malformed \in {limit, offset} \/ limit < 0 \/ limit > MaxLimit \/ offset < 0
        THEN Malformed
        ELSE [limit |-> limit, offset |-> offset]
paginationParams(r) ==
    LET limit == Expected(r)
        offset == IF Begins(r) THEN 0 ELSE r.offset
    IN  IF Malformed \in {limit, offset} \/ limit <= 0 \/ limit > MaxLimit \/ offset < 0
        THEN Malformed
        ELSE [limit |-> limit, offset |-> offset]

Listed(c, r, page) ==
    /\ Tell(APIKey(r), 200, {FromDB(row) : row \in page})
    /\ walk' = [walk EXCEPT ![c] = Turn(@, r, Own(APIKey(r), r.kind), page)]
    /\ UNCHANGED draft

ListPayouts(c, r) ==
    /\ Routed(r, "list", "payout")
    /\ LET p == paginationParams(r)
       IN  IF p = Malformed THEN Refuse(400, {})
           ELSE Listed(c, r, ListPayoutsByClientID(APIKey(r), p.limit, p.offset))
    /\ UNCHANGED rows

ListFundingSources(c, r) ==
    /\ Routed(r, "list", "source")
    /\ LET p == paginationParams(r)
       IN  IF p = Malformed THEN Refuse(400, {})
           ELSE Listed(c, r, ListFundingSourcesByClientID(APIKey(r), p.limit, p.offset))
    /\ UNCHANGED rows

----------------------------------------------------------------------------
(* Inserts. *)

\* The transaction begins: its clock is the row's created_at, and its id is new.
Begin(c, r, source, cents, asked) ==
    /\ \E id \in Ids :
          /\ \A row \in rows : row.id # id
          /\ \A d \in Inserting : draft[d].id # id
          /\ draft' = [draft EXCEPT ![c] =
                [kind |-> r.kind, id |-> id, client |-> APIKey(r), created |-> now,
                 source |-> source, cents |-> cents, asked |-> asked]]
    /\ answer' = Nothing
    /\ UNCHANGED <<told, walk>>

CreateFundingSource(c, r) ==
    /\ Routed(r, "create", "source")
    /\ IF r.id = Malformed THEN Refuse(400, {}) ELSE Begin(c, r, None, 0, None)
    /\ UNCHANGED rows

CreatePayout(c, r) ==
    /\ Routed(r, "create", "payout")
    /\ LET value == parsePositiveNumeric(r.amount)
       IN  IF r.id = Malformed \/ value = Malformed
           THEN Refuse(400, {})
           ELSE IF GetFundingSourceByClientID(APIKey(r), r.id) = {}
           THEN NotFound(APIKey(r), "source", r.id)
           ELSE IF ~Storable(Cents(value))
           THEN Refuse(500, {})
           ELSE Begin(c, r, r.id, Cents(value), r.amount)
    /\ UNCHANGED rows

Commit(c) ==
    /\ draft[c] # None
    /\ rows' = rows \cup {draft[c]}
    /\ Tell(draft[c].client, 201, {Created(draft[c])})
    /\ draft' = [draft EXCEPT ![c] = None]
    /\ UNCHANGED <<now, walk, faults>>

----------------------------------------------------------------------------
(* Time and faults. *)

Tick ==
    /\ now < MaxTime
    /\ now' = now + 1
    /\ answer' = Nothing
    /\ UNCHANGED <<rows, draft, told, walk, faults>>

\* A statement of a request fails, or its commit does: nothing, or its row, is
\* there.
StatementFails(c) ==
    /\ faults < MaxFaults
    /\ faults' = faults + 1
    /\ \/ UNCHANGED rows
       \/ draft[c] # None /\ rows' = rows \cup {draft[c]}
    /\ Answer(500, {})
    /\ draft' = [draft EXCEPT ![c] = None]
    /\ UNCHANGED <<now, told, walk>>

----------------------------------------------------------------------------
\* What c may ask: the page that its walk is at, too.
Asked(c) == Requests[c] \cup {r \in NextPages(c) : GoesOn(walk[c], r)}

Serve(c, r) ==
    /\ draft[c] = None
    /\ \/ Unauthorized(r) \/ GetCurrentClient(r)
       \/ GetPayout(r) \/ GetFundingSource(r)
       \/ ListPayouts(c, r) \/ ListFundingSources(c, r)
       \/ CreateFundingSource(c, r) \/ CreatePayout(c, r)
    /\ UNCHANGED <<now, faults>>

Next ==
    \/ \E c \in Callers :
          \/ \E r \in Asked(c) : Serve(c, r)
          \/ Commit(c) \/ StatementFails(c)
    \/ Tick

Spec == Init /\ [][Next]_vars

----------------------------------------------------------------------------
(* What the API promises its clients. *)

\* No client is ever shown a row of another, by any operation.
OwnRowsOnly == \A t \in told : t.row.client = t.to

\* All answers that tell of one row, the 201 that created it included, tell the
\* same of it: what was stored, and not what was asked for.  (The status, which
\* PayoutExecution changes, is left out.)
AnswersAgree == \A t, u \in told : t.row.id = u.row.id => t.row = u.row

\* A walk that came to its end has seen every row that was there when it began,
\* whatever is inserted meanwhile, and in whatever order the inserts commit:
\* created_at is the begin of a transaction and not its commit.
WalkMissesNothing == \A c \in Callers : walk[c].done => walk[c].there \subseteq walk[c].seen

\* The difference of two texts is no more than half a cent.
WithinHalfACent(t, u) ==
    LET unit == Power[t.scale] * Power[u.scale]
    IN  200 * (t.int * Power[u.scale] - u.int * Power[t.scale]) \in -unit .. unit

\* The amount that is told of a payout is within half a cent of the one asked for.
AmountIsHonoured ==
    \A t \in told : t.row.kind = "payout" =>
        \E r \in rows : r.id = t.row.id /\ WithinHalfACent(t.row.amount, r.asked)

\* A row that was once told of is found from then on: by its client's GET, and,
\* a funding source, by the payouts it is to fund.
FoundStaysFound ==
    \A t \in told :
        [to |-> t.to, kind |-> t.row.kind, id |-> t.row.id] \notin answer.missed
=============================================================================
