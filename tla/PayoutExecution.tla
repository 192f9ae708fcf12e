--------------------------- MODULE PayoutExecution ---------------------------
(***************************************************************************)
(* The payout worker: Worker.handleDelivery and Handler.HandleEvent of     *)
(* src/internal/apps/payoutworker, any number of worker processes on one   *)
(* queue and one PostgreSQL.  A delivery is settled in two transactions    *)
(* with the provider called between them, and then acknowledged.           *)
(*                                                                         *)
(* UPDATE takes the lock of the payout row and keeps it until its          *)
(* transaction ends; what it wrote is the worker's draft until then.  A    *)
(* SELECT takes no lock and sees the committed row.                        *)
(***************************************************************************)
EXTENDS Naturals, Sequences, FiniteSets

CONSTANTS
    Workers,        \* worker processes
    Payouts,        \* accepted payouts
    Messages,       \* messages published, duplicates included
    JobOf,          \* JobOf[m]: the payout message m is about, or Malformed
    Malformed,      \* the body of a message that does not decode
    Subscribed,     \* payouts whose client has a webhook URL
    Outcomes,       \* what the provider may answer
    MaxFaults,      \* bound: faults in one behaviour
    None            \* no message, no outcome, no draft, no failure reason

ASSUME JobAssumption == JobOf \in [Messages -> Payouts \cup {Malformed}]
ASSUME PublishedAssumption == \A p \in Payouts : \E m \in Messages : JobOf[m] = p
ASSUME OutcomeAssumption == Outcomes \subseteq {"succeeded", "failed"}
ASSUME WorkersAssumption == IsFiniteSet(Workers)
ASSUME MessagesAssumption == IsFiniteSet(Messages)
ASSUME BoundAssumption == MaxFaults \in Nat
ASSUME DistinctAssumption ==
    /\ Malformed \notin Payouts
    /\ None \notin Messages \cup Outcomes
    /\ None # "rejected"

VARIABLES
    status,         \* payouts.status, committed
    reason,         \* payouts.failure_reason, committed
    webhooks,       \* webhooks[p]: the payout_result_webhook events of p
    executions,     \* executions[p]: what the provider did for p, in order
    ready,          \* messages waiting in the queue
    job,            \* job[w]: the message worker w handles
    delivered,      \* delivered[w]: the broker still counts job[w] as w's
    pc,             \* pc[w]: what worker w does next
    draft,          \* draft[w]: the row its open transaction wrote
    outcome,        \* outcome[w]: the provider's answer to worker w
    faults          \* faults so far

row == <<status, reason, webhooks>>
vars == <<row, executions, ready, job, delivered, pc, draft, outcome, faults>>

----------------------------------------------------------------------------
Final == {"succeeded", "failed"}
Statuses == {"pending", "processing"} \cup Final
Reasons == {None, "rejected"}

\* The table of legal transitions; no code under src/ but its test calls it.
CanTransition(from, to) ==
    \/ from = "pending" /\ to = "processing"
    \/ from = "processing" /\ to \in Final

\* A message is alive while it can still be delivered to a worker.
Held(w) == IF delivered[w] THEN {job[w]} ELSE {}
Alive(m) == m \in ready \/ \E w \in Workers : m \in Held(w)

Payout(w) == JobOf[job[w]]
Works(w, p) == job[w] # None /\ Payout(w) = p

\* UPDATE waits while another transaction holds the row.
Locked(p) == \E w \in Workers : draft[w] # None /\ Payout(w) = p

\* Statements of the two transactions, and their commits.
Commits == {"commitPrepare", "commitSkip", "commitRecord"}
Statements == {"read", "markProcessing", "record", "notify"} \cup Commits
Busy == Statements \cup {"execute", "ack", "nack", "drop"}

Rows == [status : Statuses, reason : Reasons, webhook : BOOLEAN]
Drafts == {None} \cup Rows
ASSUME RowAssumption == None \notin Rows

DataOK ==
    /\ status \in [Payouts -> Statuses]
    /\ reason \in [Payouts -> Reasons]
    /\ webhooks \in [Payouts -> Seq([status : Final, reason : Reasons])]
    /\ executions \in [Payouts -> Seq(Outcomes)]
    /\ ready \subseteq Messages
    /\ job \in [Workers -> Messages \cup {None}]
    /\ delivered \in [Workers -> BOOLEAN]
    /\ pc \in [Workers -> Busy \cup {"idle", "stopped"}]
    /\ draft \in [Workers -> Drafts]
    /\ outcome \in [Workers -> Outcomes \cup {None}]
    /\ faults \in 0 .. MaxFaults

\* What worker w holds, by what it does next.
WorkerOK(w) ==
    /\ pc[w] \in Busy <=> job[w] # None
    /\ delivered[w] => job[w] # None /\ job[w] \notin ready
    /\ pc[w] \in Busy \ {"drop"} => Payout(w) \in Payouts
    /\ draft[w] # None => pc[w] \in {"commitPrepare", "notify", "commitRecord"}
    /\ pc[w] \in {"record", "notify", "commitRecord"} => outcome[w] # None

TypeOK == DataOK /\ \A w \in Workers : WorkerOK(w)

Init ==
    /\ status = [p \in Payouts |-> "pending"]
    /\ reason = [p \in Payouts |-> None]
    /\ webhooks = [p \in Payouts |-> <<>>]
    /\ executions = [p \in Payouts |-> <<>>]
    /\ ready = Messages
    /\ job = [w \in Workers |-> None]
    /\ delivered = [w \in Workers |-> FALSE]
    /\ pc = [w \in Workers |-> "idle"]
    /\ draft = [w \in Workers |-> None]
    /\ outcome = [w \in Workers |-> None]
    /\ faults = 0

----------------------------------------------------------------------------
(* Helpers of the actions. *)

Goto(w, from, to) ==
    /\ pc[w] = from
    /\ pc' = [pc EXCEPT ![w] = to]

\* An UPDATE of the row of worker w's payout, once it has the lock.
Write(w, newStatus, newReason) ==
    /\ ~Locked(Payout(w))
    /\ draft' = [draft EXCEPT ![w] =
            [status |-> newStatus, reason |-> newReason, webhook |-> FALSE]]

\* tx.Commit: the draft becomes the row, and its lock is released.
Apply(w) ==
    /\ draft' = [draft EXCEPT ![w] = None]
    /\ IF draft[w] = None
       THEN UNCHANGED row
       ELSE LET d == draft[w]  p == Payout(w) IN
            /\ status' = [status EXCEPT ![p] = d.status]
            /\ reason' = [reason EXCEPT ![p] = d.reason]
            /\ webhooks' = IF d.webhook
                 THEN [webhooks EXCEPT ![p] =
                        Append(@, [status |-> d.status, reason |-> d.reason])]
                 ELSE webhooks

\* The deferred tx.Rollback.  Faulty: it is forgotten.
LeaveOpen(w) == UNCHANGED draft
Rollback(w) == draft' = [draft EXCEPT ![w] = None]

\* The worker lets go of its message and waits for the next.
Settle(w, to) ==
    /\ pc' = [pc EXCEPT ![w] = to]
    /\ job' = [job EXCEPT ![w] = None]
    /\ delivered' = [delivered EXCEPT ![w] = FALSE]
    /\ outcome' = [outcome EXCEPT ![w] = None]

----------------------------------------------------------------------------
(* The steps of handleDelivery. *)

Take(w, m) ==
    /\ m \in ready
    /\ pc[w] = "idle"
    /\ pc' = [pc EXCEPT ![w] = IF JobOf[m] = Malformed THEN "drop" ELSE "read"]
    /\ job' = [job EXCEPT ![w] = m]
    /\ delivered' = [delivered EXCEPT ![w] = TRUE]
    /\ ready' = ready \ {m}
    /\ UNCHANGED <<row, executions, draft, outcome, faults>>

\* The execution gate, read without a lock.  What is in processing passes: the
\* code retries from there.  (The design document takes processing for a lock and
\* no retry entry point, payout_orchestrator_system_design.md:538-540.)
\* Faulty: a failed payout is executed again; one that succeeded is refused.
GateRetries(s) ==
    CASE s = "pending" -> "markProcessing"
      [] s \in {"processing", "failed"} -> "commitPrepare"
      [] s = "succeeded" -> "commitSkip"
GateRefuses(s) ==
    CASE s = "pending" -> "markProcessing"
      [] s = "processing" -> "commitPrepare"
      [] s \in {"succeeded", "failed"} -> "nack"
Gate(s) ==
    CASE s = "pending" -> "markProcessing"
      [] s = "processing" -> "commitPrepare"
      [] s = "succeeded" -> "commitSkip"
      [] s = "failed" -> "nack"

Read(w) ==
    /\ Goto(w, "read", Gate(status[Payout(w)]))
    /\ UNCHANGED <<row, executions, ready, job, delivered, draft, outcome, faults>>

MarkProcessing(w) ==
    /\ Goto(w, "markProcessing", "commitPrepare")
    /\ Write(w, "processing", reason[Payout(w)])
    /\ UNCHANGED <<row, executions, ready, job, delivered, outcome, faults>>

CommitPrepare(w) ==
    /\ Goto(w, "commitPrepare", "execute")
    /\ Apply(w)
    /\ UNCHANGED <<executions, ready, job, delivered, outcome, faults>>

CommitSkip(w) ==
    /\ Goto(w, "commitSkip", "ack")
    /\ UNCHANGED <<row, executions, ready, job, delivered, draft, outcome, faults>>

Execute(w, o) ==
    /\ Goto(w, "execute", "record")
    /\ outcome' = [outcome EXCEPT ![w] = o]
    /\ executions' = [executions EXCEPT ![Payout(w)] = Append(@, o)]
    /\ UNCHANGED <<row, ready, job, delivered, draft, faults>>

\* UpdatePayoutStatus keeps the reason, UpdatePayoutFailure sets it.
\* Faulty: every answer without an error is recorded as a success.
RecordSuccess(w) ==
    /\ Goto(w, "record", "notify")
    /\ Write(w, "succeeded", reason[Payout(w)])
    /\ UNCHANGED <<row, executions, ready, job, delivered, outcome, faults>>
Record(w) ==
    /\ Goto(w, "record", "notify")
    /\ IF outcome[w] = "succeeded"
       THEN Write(w, "succeeded", reason[Payout(w)])
       ELSE Write(w, "failed", "rejected")
    /\ UNCHANGED <<row, executions, ready, job, delivered, outcome, faults>>

\* createWebhookOutboxEventIfConfigured.  Faulty: only a success is announced.
NotifySuccess(w) ==
    /\ Goto(w, "notify", "commitRecord")
    /\ draft' = [draft EXCEPT ![w].webhook =
                    Payout(w) \in Subscribed /\ outcome[w] = "succeeded"]
    /\ UNCHANGED <<row, executions, ready, job, delivered, outcome, faults>>
Notify(w) ==
    /\ Goto(w, "notify", "commitRecord")
    /\ draft' = [draft EXCEPT ![w].webhook = Payout(w) \in Subscribed]
    /\ UNCHANGED <<row, executions, ready, job, delivered, outcome, faults>>

CommitRecord(w) ==
    /\ Goto(w, "commitRecord", "ack")
    /\ Apply(w)
    /\ UNCHANGED <<executions, ready, job, delivered, outcome, faults>>

\* On a lost channel ack and nack fail, Consume returns, and main exits.
Ack(w) ==
    /\ pc[w] = "ack"
    /\ Settle(w, IF delivered[w] THEN "idle" ELSE "stopped")
    /\ UNCHANGED <<row, executions, ready, draft, faults>>

\* Faulty: the message is not put back.
NackForgets(w) ==
    /\ pc[w] = "nack"
    /\ Settle(w, IF delivered[w] THEN "idle" ELSE "stopped")
    /\ UNCHANGED <<row, executions, ready, draft, faults>>
Nack(w) ==
    /\ pc[w] = "nack"
    /\ Settle(w, IF delivered[w] THEN "idle" ELSE "stopped")
    /\ ready' = ready \cup Held(w)
    /\ UNCHANGED <<row, executions, draft, faults>>

Drop(w) ==
    /\ pc[w] = "drop"
    /\ Settle(w, IF delivered[w] THEN "idle" ELSE "stopped")
    /\ UNCHANGED <<row, executions, ready, draft, faults>>

\* main is run again after it exited.
Start(w) ==
    /\ Goto(w, "stopped", "idle")
    /\ UNCHANGED <<row, executions, ready, job, delivered, draft, outcome, faults>>

----------------------------------------------------------------------------
(* Faults. *)

Fault == faults < MaxFaults /\ faults' = faults + 1

\* A statement or a commit fails, and the transaction is rolled back.
\* Faulty: an error after the provider's answer is swallowed.
StatementFailsUnseen(w) ==
    /\ Fault
    /\ pc[w] \in Statements
    /\ pc' = [pc EXCEPT ![w] =
            IF @ \in {"record", "notify", "commitRecord"} THEN "ack" ELSE "nack"]
    /\ Rollback(w)
    /\ UNCHANGED <<row, executions, ready, job, delivered, outcome>>
StatementFails(w) ==
    /\ Fault
    /\ pc[w] \in Statements
    /\ pc' = [pc EXCEPT ![w] = "nack"]
    /\ Rollback(w)
    /\ UNCHANGED <<row, executions, ready, job, delivered, outcome>>

\* The commit took effect, and the worker is told that it did not.
CommitAckLost(w) ==
    /\ Fault
    /\ pc[w] \in Commits
    /\ pc' = [pc EXCEPT ![w] = "nack"]
    /\ Apply(w)
    /\ UNCHANGED <<executions, ready, job, delivered, outcome>>

\* The provider returns an error, and has paid nothing.
ProviderFails(w) ==
    /\ Fault
    /\ Goto(w, "execute", "nack")
    /\ UNCHANGED <<row, executions, ready, job, delivered, draft, outcome>>

\* The connection to the broker is lost: the broker takes the message back,
\* and the worker, busy in HandleEvent, will learn of it when it settles it.
Disconnect(w) ==
    /\ Fault
    /\ delivered[w]
    /\ delivered' = [delivered EXCEPT ![w] = FALSE]
    /\ ready' = ready \cup {job[w]}
    /\ UNCHANGED <<row, executions, job, pc, draft, outcome>>

\* The process dies: the broker and PostgreSQL both take back what it held.
Stop(w) ==
    /\ Fault
    /\ pc[w] # "stopped"
    /\ Settle(w, "stopped")
    /\ ready' = ready \cup Held(w)
    /\ draft' = [draft EXCEPT ![w] = None]
    /\ UNCHANGED <<row, executions>>

----------------------------------------------------------------------------
Step(w) ==
    \/ Read(w)
    \/ MarkProcessing(w)
    \/ CommitPrepare(w)
    \/ CommitSkip(w)
    \/ \E o \in Outcomes : Execute(w, o)
    \/ Record(w)
    \/ Notify(w)
    \/ CommitRecord(w)
    \/ Ack(w)
    \/ Nack(w)
    \/ Drop(w)
    \/ Start(w)

Faults(w) ==
    \/ StatementFails(w)
    \/ CommitAckLost(w)
    \/ ProviderFails(w)
    \/ Disconnect(w)
    \/ Stop(w)

\* Nothing is left to deliver, and every worker waits.
Terminating ==
    /\ ready = {}
    /\ \A w \in Workers : pc[w] = "idle"
    /\ UNCHANGED vars

Next ==
    \/ \E w \in Workers : Step(w) \/ Faults(w) \/ \E m \in Messages : Take(w, m)
    \/ Terminating

\* A worker goes on with what it does, and one that exited is started again.
\* The broker delivers in turn: a message put back again and again does not
\* keep another from being delivered.
Fairness ==
    /\ \A w \in Workers : WF_vars(Step(w))
    /\ \A m \in Messages : SF_vars(\E w \in Workers : Take(w, m))

Spec == Init /\ [][Next]_vars
FairSpec == Spec /\ Fairness

----------------------------------------------------------------------------
(* What execution promises. *)

Answers(seq) == {seq[i] : i \in 1 .. Len(seq)}

\* A final status is one the provider reported for this payout, and a failed
\* payout says why, however many deliveries, workers and faults raced over the
\* row (execution.go:167-213).
OutcomeIsBacked ==
    \A p \in Payouts :
        /\ status[p] \in Final => status[p] \in Answers(executions[p])
        /\ status[p] = "failed" => reason[p] = "rejected"

\* The last webhook event of a payout in a final status announces that status
\* and its reason; the event and the status are one transaction
\* (execution.go:158-179), and nothing else is ever announced.
WebhookTellsOutcome ==
    \A p \in Payouts :
        /\ p \in Subscribed /\ status[p] \in Final =>
              /\ webhooks[p] # <<>>
              /\ webhooks[p][Len(webhooks[p])] =
                    [status |-> status[p], reason |-> reason[p]]
        /\ p \notin Subscribed => webhooks[p] = <<>>
        /\ Len(webhooks[p]) <= Len(executions[p])

\* A payout the provider was never asked to pay still has a message that will
\* be delivered: no crash, error or lost connection acknowledges the job of a
\* payout before it was tried (worker.go:59-68).
NoPayoutForgotten ==
    \A p \in Payouts : executions[p] = <<>> =>
        \E m \in Messages : JobOf[m] = p /\ Alive(m)

\* The provider is asked to pay a payout once for each message published for it
\* and once more for each fault: what the gate lets through without a lock, and
\* what is nacked, pays nothing twice by itself (execution.go:64-90, 117-150).
ExecutionsAreAccountedFor ==
    \A p \in Payouts :
        Len(executions[p]) <= Cardinality({m \in Messages : JobOf[m] = p}) + faults

\* A payout is settled when its status is final and no worker is past the gate
\* with it.  Delivering its message again, any number of times, then changes
\* nothing: neither the row, nor the webhooks, nor what was paid.
Settled(p) ==
    /\ status[p] \in Final
    /\ \A w \in Workers : Works(w, p) => pc[w] \in {"read", "commitSkip", "ack", "nack"}
RedeliveryIsHarmless ==
    [][\A p \in Payouts : Settled(p) =>
        /\ Settled(p)'
        /\ UNCHANGED <<status[p], reason[p], webhooks[p], executions[p]>>]_vars

\* A worker that lost its connection is about to set a settled payout back to
\* processing: it read pending before another worker concluded the payout, and
\* no message is left to it (execution.go:133-141).
Reopens(p) ==
    /\ status[p] \in Final
    /\ \E w \in Workers :
          Works(w, p) /\ ~delivered[w] /\ pc[w] = "commitPrepare" /\ draft[w] # None

\* Unless that happens to it, every payout comes to a final status for good, once
\* faults cease: a worker waits for a row lock at most until its holder commits,
\* what is put back is delivered again, and a status that a second delivery
\* overwrites is made final again.  (If it does happen, and that worker fails
\* too, the payout is stranded: NoPayoutStranded.)
EveryPayoutConcludes ==
    \A p \in Payouts : []~Reopens(p) => <>[](status[p] \in Final)

\* "Invalid transitions must be rejected"
\* (src/docs/design/payout_orchestrator_mvp_system_design.md:281): the row
\* only moves along the table of domain/payout/status.go:21.
TransitionsAreValid ==
    [][\A p \in Payouts : status[p]' # status[p] => CanTransition(status[p], status[p]')]_vars

\* "RabbitMQ redelivery via ack/nack behavior"
\* (src/docs/design/payout_orchestrator_system_design.md:672) is what brings
\* back a payout whose worker crashed before completion: a payout that is not
\* in a final status has a message, or a worker busy with it.
NoPayoutStranded ==
    \A p \in Payouts : status[p] \notin Final =>
        \/ \E m \in Messages : JobOf[m] = p /\ Alive(m)
        \/ \E w \in Workers : Works(w, p)
=============================================================================
