# A verification project for payout-orchestrator

TLA+ models of the payout orchestrator, TLC runs that check them on small
instances, and TLAPS proofs of what matters most for every instance.

The service takes payout requests over HTTP, stores each with its idempotency
key and an outbox event in one PostgreSQL transaction, relays the event to
RabbitMQ, and has a worker execute it at a provider and record the result.

## The system

| Component | Source | State it keeps | Operations |
|---|---|---|---|
| Payout intake | `internal/apps/api/services/payouts`, `handlers/payouts.go` | tables `payouts`, `idempotency_keys`, `outbox_events` | `CreatePayout` |
| Outbox relay | `internal/outbox` | `outbox_events.status`, `claimed_at` | `Run`, `RunOnce`: claim, dispatch, mark, release |
| RabbitMQ client | `internal/platform/rabbitmq`, `internal/broker/rabbitmq` | a channel, its confirmations and returns | `Publish`, `Consume`, `Ack`, `Nack` |
| Payout worker | `internal/apps/payoutworker` | `payouts.status`, `failure_reason`; webhook events | `handleDelivery`, `HandleEvent` |
| Provider | `internal/provider`, `internal/providersimulator` | none | `ExecutePayout`, `ValidateResult` |
| API process lifecycle | `cmd/api` | the HTTP server and the relay as goroutines | `runApplication` |
| Reads, funding sources, authentication | `services`, `handlers`, `middleware` | `funding_sources`, `clients` | `GetPayout`, `ListPayouts`, `CreateFundingSource`, ...: single statements, scoped by client |

How they meet: intake and relay share `outbox_events`; relay and worker share
the queue; intake, worker and reads share `payouts`. Nothing is shared in
memory except inside the RabbitMQ client (one mutex around `Publish`) and
`runApplication` (two result channels and a context).

What is hard:

* **Concurrent and repeated requests.** Clients retry; two calls with one key
  or one external id interleave statement by statement, and each insert may
  wait for the other's transaction.
* **Transactions whose outcome the caller does not know.** A commit may take
  effect and report an error, in all three transaction runners.
* **At-least-once everywhere.** Claims expire under a relay that is still at
  work, messages are delivered again, a broker connection dies under a worker
  that goes on working.
* **Reads without locks, writes without conditions.** The worker's gate reads
  the status and overwrites it later; mark and release name an event and not
  the claim they end.

* **Confirmations without tags.** `Publish` reads its return and its
  confirmation from two channels of capacity one and never looks whose they are.
* **A process of two halves.** Server and relay end in any order, with errors or
  without, while a signal comes and requests are open.
* **Lists that are read while they grow**, ordered by a `created_at` that is the
  begin of a transaction and not its commit.

What makes each component correct is the list of properties below; each hazard
of the code, at its line, with the property that covers it or the reason why
none does, is in `PROJECT.json`.

## The modules

| Module | What it is |
|---|---|
| `PayoutIntake` | `CreatePayout`, one action per SQL statement |
| `IdempotentIntake` | what intake promises, without tables, transactions or locks |
| `MCPayoutIntake` | its instances for TLC |
| `PayoutIntakeProofs`, `PayoutIntakeRefinement` | its theorems; the refinement and the seam to the relay |
| `OutboxRelay`, `MCOutboxRelay`, `OutboxRelayProofs` | the relay |
| `PayoutExecution`, `MCPayoutExecution`, `PayoutExecutionProofs` | the worker |
| `PublishConfirm`, `MCPublishConfirm`, `PublishConfirmProofs` | one publish and its confirmation |
| `AppLifecycle`, `MCAppLifecycle`, `AppLifecycleProofs` | the API process from start to exit |
| `ApiAccess`, `MCApiAccess`, `ApiAccessProofs` | keys, reads, pages, funding sources, amounts |
| `PayoutPipeline`, `MCPayoutPipeline`, `PayoutPipelineProofs` | relay, queue and worker composed |
| `PayoutPromise` | what becomes of a payout, without outbox, queue, claims, locks or deliveries; the pipeline implements it |

### PostgreSQL

The models use READ COMMITTED, the server's default, which no code under
`src/` changes. A statement is one action and sees what was committed when it
starts. What an open transaction wrote is invisible to others and holds its
row, or its entry in a unique index, until the transaction ends; an UPDATE or
a colliding INSERT waits for that. A rollback is what the deferred
`tx.Rollback` of each `WithinTx` does, and what the server does when the
connection dies. `CommitAckLost` is the commit that takes effect and reports an
error.

### PayoutIntake

A *call* is one `POST /payouts`; a retry is another call with the same request.
`pc[c]` is the statement it executes next, in the order of `service.go:165-231`:
`lookupKey`, `loadPayout`, `checkFunding`, `insertPayout`, `insertKey`,
`insertEvent`, `commit`; then `reloadKey` and `reloadPayout`
(`service.go:232-234`) on the pool, and `reply`. Rows carry the transaction
that wrote them and count once it is committed. The two unique indexes of the
migrations are `SameExternalId` (partial: only for a non-empty external id) and
`SameKey`.

Abstracted: a request is a record whose recipient, amount and currency are one
value, `details`; SHA-256 is taken to be injective; payout ids are minted by
naming the call. A key that other code would delete does not exist: nothing
deletes from these tables. A disabled funding source funds a payout like any
other, as the code does not look.

### OutboxRelay

One relay per API process. `pc[r]` walks `claim`, `dispatch`, `mark` or
`release`, each with its commit. The claim query takes the oldest claimable row
of a relayed type that is not locked (`SKIP LOCKED`). Time is one bit per
claim: `expired[e]` says that `claimed_at` is older than the claim timeout, and
`Expire` may set it at any moment, also while the relay that claimed the event
is still at work, since nothing relates the claim timeout to the time a
dispatch, a mark or a release takes. `Dispatch` follows the contract of
`Publish`: nil means the message is queued; an error (`DispatchFails`) leaves
open whether it is. A failed dispatch ends `Run` and, with it, the process
(`relay.go:99-101`, `main.go:162`); `Start` runs it again.

### PayoutExecution

One action per statement of the two transactions of `HandleEvent`, with the
provider's call between them and the acknowledgement after them. The broker is
a set of ready messages and, per worker, whether the message in hand is still
the worker's (`delivered`). `Disconnect` is the loss of the broker connection
while the handler runs: the message goes back to the queue and the handler goes
on, since `Consume` only learns of it when it settles the message; then `Ack`
or `Nack` fails and the process exits. The client's prefetch buffer is left
out: a worker takes any ready message, which allows every assignment the buffer
allows. A provider error means that nothing was paid, as in the simulator; a
payment whose answer is lost is `Stop` after `Execute`. The deployed simulator
only answers `succeeded` unless configured otherwise; the model allows both
answers of the interface.

### PublishConfirm

`Client.Publish` as the relay of one process uses it. `pc` is `first` or
`second` in the two selects of `waitForPublishConfirm`; a select whose cases
are ready together is a choice (`TakeReturn`, `TakeConfirmation`, `GiveUp`,
`SeeClosed`). Below it stand the two channels, `returns` and `confirms`; the
reader of the amqp library (`PassOn`), which delivers the `frames` in their
order and waits while the next one's channel is full; and the broker, which
sends a mandatory message back and then acknowledges it (`SendBack`,
`Acknowledge`), refuses it, or goes away with messages that it may have taken.
`Rebind` stands for operators and for other processes that declare the
topology again. Library and broker are external: modelled from what the client
relies on. A failed publish ends the process, since the relay does
(`relay.go:99`); a new process has a new client. `publishMu` is never contended:
one relay is the only caller.

This is what `OutboxRelay`'s `Dispatch` and `DispatchFails` abstract: nil means
acknowledged (`NilIsAcknowledged`), an error means anything. They take every
acknowledged message for a queued one. That holds as long as the queue stays
bound; if somebody unbinds it, a message that the broker returned may be
reported as published, when the select picks its confirmation, where
`client_test.go:65` expects the error of a returned message. `OneReturnIsMissed`
bounds this: the return stays in its channel, and the next message that is
returned is not reported as published.

### AppLifecycle

`main` and `runApplication` step by step: `pc` names the statement that the
main goroutine is at. Server and relay are goroutines that end with nil or an
error and leave it on a channel (`serverDone`, `relayDone`); `received` is what
the main goroutine has taken from there. `log.Fatalf` (`Fatal`) ends the process
where it stands, without the deferred closes. Requests are open, answered, or
cut by the end of the process. What the relay does while it runs is
`OutboxRelay`. Abstracted: the server and the relay use the pool and the client
while they run, and so do open requests the pool.

### ApiAccess

Every route behind the key check. A request is authenticated (`APIKey`) and
handled; a read is one SELECT and thus one action, `rows` being the committed
rows of both tables. An insert *begins* - which gives the row its id and, as
`created_at`, the time - and *commits* later. A caller that walks a list asks
for one page after the other until one is short (`walk`); the next page is at
the offset behind the last. Amounts are arithmetic: a text is its digits and how
many of them follow the point, `parsePositiveNumeric` and `numericString` are
what pgx and the code do to that, and `Cents` is the rounding of
`NUMERIC(10, 2)`. The creation of a payout is `PayoutIntake`'s; here it is the
check of its source, its amount and its row. Idempotency keys, the details of a
row that no property is about, and the status of a payout, which the worker
changes, are left out. `told` and `walk` are history: no action reads them but
for the choice of the next page.

### PayoutPipeline

`OutboxRelay` and `PayoutExecution` by INSTANCE, sharing the queue. An event has
the name of its payout, as `IntakeIsAtomic` justifies: intake commits each
payout with one event. The n-th message that is published for payout `p` is
`<<p, n>>`, and `Enqueue` puts it among the `ready` ones of the workers. Every
action is an action of one of the two modules, taken as it is. `PayoutExecution`
assumes that its messages are there at first; the instance `Execution` sees one
that is not published yet as one that waits.

`PayoutPromise` is its abstract specification: a payout is accepted, marked, paid
and concluded. It is paid only once it is accepted and marked, again only after
as much `trouble`, concluded only with an outcome that was answered for it, each
answer is announced at most once and in the step that concludes, and what was
concluded is taken up again only after trouble. The refinement mapping: a payout
is accepted when its event is there, `paid` is `executions`, `told` the outcomes
of its webhook events, and `trouble` the faults of relays and workers and the
claims that were overtaken.

## The runs

| Run | Shows |
|---|---|
| `intake_safety` | 3 calls, 8 kinds of request, all faults. Payout, key and event are one (`IntakeIsAtomic`); equal keys get equal answers (`OneAnswerPerKey`); a 201 is backed by a committed payout with the request's fields (`CreatedIsBacked`); refusals create nothing (`RefusalCreatesNothing`); no double payout (`NoDoublePayout`); the service implements `IdempotentIntake` (`ImplementsIntake`) |
| `intake_liveness` | 3 contending calls. No call waits for ever (`EveryCallEnds`); a replay of a committed request is not refused (`ReplayIsNotRefused`) |
| `intake_self_duplicate` | **violated**: two identical calls in flight with an external id; the second gets 409 for the payout of its own key |
| `relay` | 2 relays, 2 jobs, an older event of a type not relayed. `ProcessedIsPublished`, `DuplicatesAreAccountedFor`, `EveryJobIsPublished`, `EveryJobIsSettled` |
| `relay_processed` | **violated**: an event marked processed is released to pending by a relay whose claim had been taken over |
| `execution` | 2 workers, a payout published twice, a malformed message, 2 faults. `OutcomeIsBacked`, `WebhookTellsOutcome`, `NoPayoutForgotten`, `RedeliveryIsHarmless`; a payout concludes for good, unless a worker without a connection sets it back (`EveryPayoutConcludes`) |
| `execution_transitions` | **violated**, without faults: succeeded goes back to processing |
| `execution_stranded` | **violated**: a paid payout is left in processing with no message |
| `publish_confirm` | 4 publishes, 2 starts, a broker that returns, refuses or loses. `NilIsAcknowledged`, `NothingIsLeftOver`, `OneReturnIsMissed`, `PublishReturns` |
| `lifecycle` | a process with and without a relay, 2 requests. Nothing is closed under its users (`ResourcesOutliveTheirUsers`), exit code 0 hides no failure (`CleanExitIsEarned`), half a process ends (`FailureEndsTheProcess`) |
| `api_access` | 3 callers, 2 clients, 3 rows. `OwnRowsOnly`, `AnswersAgree`, `WalkMissesNothing`, `AmountIsHonoured`, `FoundStaysFound` |
| `pipeline` | 2 relays, 2 workers, 1 payout, a fault of a relay and two of workers, a provider that does not reject. An untried payout is in somebody's hands (`AcceptedIsInHand`), the pipeline implements `PayoutPromise` (`ImplementsPromise`), an accepted payout concludes for good, under the condition of `EveryPayoutConcludes` (`AcceptedConcludes`), and a paid one comes to rest (`PaidComesToRest`) |

Each property of a passing run has a mutant: a plausible bug of the code,
written beside the definition it replaces (comment "Faulty"), under which TLC
finds the property violated.

### The bounds, and why they are enough

* **Three calls.** One transaction in the way of another, and a third call that
  replays, conflicts or waits behind both: a lock cycle needs two, an answer
  that two others disagree on needs three. The theorems lift the bound.
* **Requests** that differ from the first in one field each, so that every
  branch on a field is taken: body, key, external id, client, funding source,
  blank key, malformed details. The liveness run keeps the three that contend.
* **Two relays and two workers**: one that goes on with a claim or a message
  that is no longer its own, and one that took it over.
* **`MaxFaults` = 2, `MaxTimeouts` = 1.** Two faults is what the longest chain
  known in the code takes (a lost connection and then a crash). They bound
  `queued` and `executions` too. The violation runs use the fewest faults that
  show the violation: none for `execution_transitions`.
* **`MaxTag` = 4, `MaxOpens` = 2**: a message that is returned and missed, ones
  after it that are queued or refused, and a second start after a failure.
* **Two requests** (`lifecycle`): one answered and one cut.
* **`api_access`**: a caller that walks while two others insert, so that two
  inserts may commit in the other order than they began, between two pages.
  Three rows with pages of one or two have a middle. `MaxTime` = 1 gives rows of
  equal and of different age. The amounts are those at the edges: zero, a
  trailing zero, half a cent up and down to nothing, more than `MaxCents`
  (999.99, in place of 99999999.99, which only scales the edge).
* **`pipeline`**: one payout, as payouts share nothing but the queue's order,
  which the model leaves open. No claim expires there under its relay
  (`MaxTimeouts` = 0), which keeps the liveness properties within reach; `relay`
  has that case, and so have the theorems. `MaxWorkerFaults` = 2, because a worker
  that loses its connection, sets back a settled payout and then dies takes two
  faults, and it is what the condition of `AcceptedConcludes` excludes. The
  provider answers only `succeeded` (`Outcomes`), which pays for the second fault:
  `PaidComesToRest` is about payouts that were not rejected anyway, `execution` has
  both answers with two faults, and the theorems have any.
* Symmetry (over calls) is used in `intake_safety` only, which has no liveness
  property.

### Fairness

* A call, a relay and a worker go on with what they do: each is a goroutine,
  and a lock wait ends when the transaction it waits for does. So weak fairness
  of `Step`, per actor. Faults and new calls are never fair.
* `Start`: a process that exited is started again. No supervisor is in the
  repository; without one, nothing can be promised once every process is down.
  `log.Fatalf` on every such exit is written for one.
* `Expire`: time passes.
* The broker delivers a message that is ready again and again (strong fairness
  per message): the queue is served in order, so that a message requeued for
  ever does not keep others waiting.
* `GiveUp`: the timer of a publish fires. Nothing is asked of the broker.
* `AppLifecycle`: the main goroutine goes on, `Shutdown` ends `ListenAndServe`,
  and `Run` heeds its context, which every statement and every wait of a publish
  is given. No request need end: `Shutdown` has a timeout.
* `PayoutPipeline`: that of its two parts.
* Faults are finite in each behaviour (`MaxFaults`): liveness says what happens
  once they cease. That they cease is not enough for a payout to conclude, see
  *When a payout concludes*.

## The proofs

`PayoutIntakeProofs` proves, for any calls, requests and funding sources, that
`Spec` implies `[]TypeOK`, `[]IntakeIsAtomic`, `[]CreatedIsBacked`,
`[]RefusalCreatesNothing`, `[]NoDoublePayout` and `[]OneAnswerPerKey`. The
inductive invariant `IInv` says

* where each row of an open or committed transaction comes from, given how far
  its call has got (`RowInv`, `ProgressInv`), and which transaction status a
  program counter allows (`TxnInv`);
* that two rows which are not aborted never share a key or an external id
  (`UniqueInv`) - committed rows alone would not do, for the insert checks
  committed rows and *waits* for the others;
* that whatever payout a call holds, or has answered, is committed and was
  made from an equal request (`AnswerInv`).

It is preserved by every action; the properties follow from it.
`PayoutIntakeRefinement` proves that `Spec` implies `ImplementsIntake`: a
commit of a fresh payout is `Accept`, an answer is the abstract answer, and
every other statement is a stutter. The assumptions are those on the constants:
a request has the five fields, and `None` is no call and no request.

Three more theorems of intake rest on `IInv`:

* `ReplayIsNotRefused`, which the run checks as a temporal property, is a safety
  property in disguise: a call that looks its key up after the key was committed
  with its hash stays on the path of a replay, on which it is answered with the
  payout or with a 500 and with nothing else. The invariant names that path
  (`Replaying`); nothing deletes a committed row.
* `NoCircleOfWaits`, for any number of calls: who waits at an insert waits for a
  call under way, waiting goes two calls deep at most (the external id first, then
  the key), and while calls are under way one of them is not held up. This is what
  `EveryCallEnds` rests on, short of fairness.
* `FeedsTheRelay` (`IntakeFeedsTheRelay`), the seam to the relay: events appear
  one at a time, each with the payout that is accepted in the same step, and never
  go. `PayoutPipeline` takes that for granted where it names an event after its
  payout.

`PayoutExecutionProofs` proves every safety property of the worker, for any
workers, payouts and messages: `[]TypeOK`, `[]OutcomeIsBacked`,
`[]NoPayoutForgotten`, `[]WebhookTellsOutcome` and `RedeliveryIsHarmless`. The
types are not inductive alone: `TypeInv` adds that no two workers have the same
delivery (`Exclusive`) and what the open transaction of each worker wrote
(`DraftOK`). On top of it

* `BackedOK`: what a worker is about to record was answered for its payout, and
  what it is about to acknowledge was tried. A message leaves the queue and the
  workers' hands only so, hence `NoPayoutForgotten`; the status and the message
  must be related, for a worker also acknowledges what the gate skipped;
* `Counted`: the webhook events of a payout and the workers that have an answer
  they have not recorded are together no more than the answers. The events alone
  would not do: two workers may record at the same time.

`OutboxRelayProofs` proves every safety property of the relay, for any relays
and events: `[]TypeOK`, `[]ProcessedIsPublished` from what a relay may rely on
at each statement (`ClaimInv`), and `[]DuplicatesAreAccountedFor` from a count.
An event that can still be claimed without a fault (`Open`) is one right to
publish it, a relay that holds it before its dispatch, or that will give it
back (`Rights`), is another; messages and rights together never exceed the
insert, the faults and the expiries that paid for them (`Counted`). Cardinality
needs finite sets of workers and relays, which is all that is assumed of them;
the other assumptions say that `None` is none of the values it is compared to,
and that every payout was published at least once (what the relay promises).

`PayoutExecutionProofs` also proves `ExecutionsHaveACause`: a payout is executed
at most once for each message published for it and once more for each fault.
The count (`TriedInv`) sets the executions, the messages that can still be taken
and the workers that may still execute or requeue one against messages and faults.

### When a payout concludes

`EveryPayoutConcludes` and `AcceptedConcludes` say that from some point on the
status is final and stays so (`<>[]`). A status that is final for a moment would be
too little: the behaviour of `execution_stranded` has one, and then leaves the
payout in processing for ever. Their condition is that this does not happen, and
`Reopens` is the state in which it does: the row is final, and a worker that lost
its broker connection is about to commit `processing` over it, with a message that
is no longer its own. If that worker dies before it has an outcome, nobody has a
message left. Without the condition both properties are false of the code as soon
as the workers may have two faults, the lost connection and the crash; with it they
hold under the same two faults. A crash, or a lost connection that does not
meet a settled row, is not excluded, nor is a second delivery that sets back a settled payout with a message
of its own, as in `execution_transitions`.

`ReopeningStrands` is the safety half, for any workers, messages and faults: unless
a worker reopens a payout in this way, a payout that has not concluded has a message
in the queue or with a worker. Whoever sets a payout back has its message
(`WhoeverSetsBack`), and what is unsettled is returned to the queue
(`UnsettledReturns`).

Both rest on a gate that the design document does not describe. It gives
`pending` and `awaiting_retry` as entries and treats `processing` "as an in-flight
lock state, not as a retry entry point"
(`payout_orchestrator_system_design.md:538-540`); the code lets `processing`
through (`execution.go:142`), and the models do what the code does. A payout whose
worker died in the middle is in processing, and its redelivered message is executed
only for that reason. With the documented gate it would wait for the recovery
service of the document, which is not in the code. The price is the payment that
is repeated once per fault (`ExecutionsHaveACause`).

### Where the violated claims do hold

Four runs show that the code does not do what a document says of it. For the three
of relay and worker the proofs say what it takes for each claim to hold, so that the violation is known to need
exactly what the run shows:

* `relay_processed`. `MarksAreFinal`: a processed mark is undone only after both a
  dispatch that failed and a claim that was overtaken. `MarkInv` follows the
  claims: without an overtaken one no two relays hold one event, and without a
  failed dispatch no relay is on its way to a release.
* `execution_stranded`. `StrandingHasACause`: without a fault no payout is stranded,
  however many messages it has, and a pending one has a live message even with
  faults. Whoever marks a payout is at work on it until it concludes (`Pursued`),
  and what is pending was never tried (`PendingIsUntried`). `ReopeningStrands` names
  the step that strands one.
* `execution_transitions`. `TransitionsHaveACause`: if each payout is published once
  and nothing failed yet, the row moves along the table, for any workers. Then a
  worker has its payout alone (`Alone`), and each statement of it finds the status
  that the last one left (`PlaceOK`). The second message comes from the relay only
  with trouble: `StatusesGoForward` proves the same of the pipeline, where nothing
  is assumed of the messages.

`PublishConfirmProofs` proves, for any number of publishes and starts,
`[]TypeOK`, `[]NilIsAcknowledged`, `[]NothingIsLeftOver` and
`[]OneReturnIsMissed`. No tag is compared, so the invariant must say where the
answer to the current message is: on the wire, among the frames or in the
channel, and nowhere else (`StageOK`, one case per stage of a publish). For the
missed return, that the return in the channel is older than whatever is on its
way (`MissInv`). `DispatchKeepsItsContract` closes the seam to `OutboxRelay`: in
every behaviour in which the queue stays bound, `Publish` returns nil only for a
message that is in the queue (`NilIsQueued`), which is what the relay's `Dispatch`
takes for granted. Without a binding lost nothing is ever returned, so that no
confirmation can be read in place of a return.

`AppLifecycleProofs` proves `[]TypeOK`, `[]ResourcesOutliveTheirUsers` and
`[]CleanExitIsEarned`, for any requests, from an invariant that follows the main
goroutine: what is open and what runs at each statement, what has been received
from whom, and that no error that was received is forgotten. `ReceivesEnd` proves
`[]NoReceiveHangs`: wherever the main goroutine receives without a way out, the
value is on the channel, or its sender runs and has been told to stop (`Attended`
is the invariant). What is left for fairness is that a sender that was told to
stop does.

`ApiAccessProofs` proves `[]TypeOK`, `[]OwnRowsOnly`, `[]AnswersAgree`,
`[]FoundStaysFound` and `[]WalkMissesNothing`, for any callers, clients, rows
and limits. What was told is what is stored (`ToldIsStored`). What a walk has
not seen of what was there is still ahead of its offset (`WalksOnTrack`): an
insert only raises ranks, the ranks of a list of n rows are 0 .. n - 1 each once
(`RanksAreAnInterval`), so that a short page has nothing behind it
(`PagesAreFull`).

`AmountsAreHonoured` proves `[]AmountIsHonoured`, for any amounts. It is about
powers of ten, and so about a recursion: what is computed for every input cannot
be proved by the library's induction, which takes an operator as a parameter. The
proof uses the least number instead. A set of naturals that is not empty has a
least element, so a property of `Power` or of `Zeros` fails nowhere if it does
not fail first anywhere, and that is a statement about sets. From there: the zeros
that `numericString` appends are those that the exponent asks for
(`ZerosAreExact`), and the rounding of the column is within half a cent of what
was sent (`CentsAreClose`).

`PayoutPipelineProofs` proves `[]TypeOK`, `[]AcceptedIsInHand`,
`[]PaymentsAreAccountedFor` (a payout is paid at most once more than there was
trouble) and `ImplementsPromise`, for any relays, workers and payouts. Every step of
the pipeline is a step or a stutter of each part (`RelayIsRelay`,
`ExecutionIsExecution`), so that their invariants, counts included, carry over
through an INSTANCE of their proof modules. What is new is the seam: only
published messages are with the workers (`Queued`), and the first message of a
payout that was not tried is not lost, be it published or not (`FirstKept`). The relay's count of
messages and the worker's count of executions add up to that of payments.

`PipelineKeepsItsPromise` is the refinement of `PayoutPromise`. Each part first
says what a step of it may do to the rows that the other side sees: `Effect` for a
worker (it marks, pays, concludes, or leaves the rows alone) and `Admits` for a
relay (it inserts one event at most, and none disappears). These are proved where
the parts are, and carried over by INSTANCE. A step of the pipeline leaves one side
alone, so it is one or the other (`RelaySideRefines`, `WorkerSideRefines`). What
the guards of the promise need is invariant: that a worker which may pay finds its
payout marked (`MarkedInv`), that there are fewer events than answers while one is
to be written (`WebhookInv`), that messages are only of accepted payouts
(`Announced`), and that a payout which somebody is still trying has been paid no
more often than there was trouble (`PaymentsAreBounded`) - one less than the bound
of `PaymentsAreAccountedFor`, which alone would not let the next payment through.

`StatusesGoForward` follows from the promise: until the first trouble a status goes
from pending to processing to its outcome and never back. `Mark` takes up what was
concluded only after trouble, and without trouble there is one payment and hence
one outcome to conclude with (`OneAnswerOneOutcome`).

Model-checked only: the liveness properties (`EveryCallEnds`, `EveryJobIsPublished`,
`EveryJobIsSettled`, `EveryPayoutConcludes`, `PublishReturns`,
`FailureEndsTheProcess`, `AcceptedConcludes`, `PaidComesToRest`), for reasoning
under fairness and `ENABLED` are out of the prover's reach; and of course what the
violation runs show. Every safety property of a passing run has a theorem.

## What is not modelled

* Webhook deliveries: `webhook_deliveries` is written by a test only. The events
  of type `payout_result_webhook` are written (`PayoutExecution`) and taken by
  no relay (`OutboxRelay`'s `Relayed`).
* The simulator beyond its answer: it gives the outcome of its configuration, and
  `ValidateResult` checks that the answer is one of the two.
* Process configuration, row types, the UUID parser: data without control.
  `/healthz` answers ok and touches nothing.
* Generated query code that nothing runs (`GetPayoutByID`,
  `GetPendingOutboxEvents`, the claim without types, `CreateClient`).
* A funding source that is disabled: the code does not look at the status, and
  nothing under `src/` sets it.
* The `.codex` directory is documentation tooling.

Three things that the models made plain and no run states:

* A failed dispatch ends the API process (`relay.go:99`, `main.go:162`), which
  `FailureEndsTheProcess` shows to be quick and orderly. The design document
  says that the outbox "allows accepting payouts even if RabbitMQ is temporarily
  unavailable" (`payout_orchestrator_system_design.md:317`).
* A rejected payout whose message comes back is nacked and requeued for ever
  (`execution.go:146`). `PaidComesToRest` therefore says of the others only that
  the queue drains.
* A payout that failed and then, executed a second time, succeeded keeps its
  `failure_reason` (`execution.go:170`).

## The plan

Done, in this order: `PayoutIntake` with `IdempotentIntake` and the refinement;
`PayoutExecution`; `OutboxRelay`; their proofs; `PublishConfirm`;
`AppLifecycle`; `ApiAccess` with the amounts; `PayoutPipeline`; their proofs;
`PayoutPromise` and the refinement; the seams from intake to relay and from relay
to `Publish`; the conditions under which the violated claims hold.

Left:

1. The status of a payout as its client sees it: `ApiAccess` over
   `PayoutExecution`'s rows, so that what a client reads is related to the promise
   of the pipeline.
2. `DispatchKeepsItsContract` is a contract and not a refinement: `PublishConfirm`
   has one message at a time where `OutboxRelay` has many relays. An INSTANCE of
   the one in the other would join them step by step.
