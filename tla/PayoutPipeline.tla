---------------------------- MODULE PayoutPipeline ----------------------------
(***************************************************************************)
(* The way of a payout from its acceptance to its outcome: OutboxRelay and *)
(* PayoutExecution composed.  They share the queue: what a relay publishes *)
(* is what the workers take.                                               *)
(*                                                                         *)
(* Intake commits each payout with one event (IntakeIsAtomic of            *)
(* PayoutIntake), so that an event has the name of its payout.  The        *)
(* message that is published for it for the n-th time is <<p, n>>.         *)
(***************************************************************************)
EXTENDS Naturals, Sequences, FiniteSets

CONSTANTS
    Relays,         \* relays, one per API process
    Workers,        \* worker processes
    Payouts,        \* payouts, and their events
    CreatedAt,      \* CreatedAt[p]: created_at of the event of p
    Subscribed,     \* payouts whose client has a webhook URL
    Outcomes,       \* what the provider may answer
    MaxRelayFaults, \* bound: faults of relays
    MaxTimeouts,    \* bound: claims that expire while their relay is at work
    MaxWorkerFaults,\* bound: faults of workers
    Malformed,      \* the body of a message that does not decode
    None            \* no value

ASSUME BoundAssumption ==
    MaxRelayFaults \in Nat /\ MaxTimeouts \in Nat /\ MaxWorkerFaults \in Nat
ASSUME FiniteAssumption == IsFiniteSet(Relays) /\ IsFiniteSet(Workers) /\ IsFiniteSet(Payouts)
ASSUME EventAssumption == CreatedAt \in [Payouts -> Nat]
ASSUME OutcomeAssumption == Outcomes \subseteq {"succeeded", "failed"}

VARIABLES
    eventStatus, expired, queued, relayPc, event, relayDraft, relayFaults, timeouts,
    status, reason, webhooks, executions, ready, job, delivered, pc, draft, outcome, faults

relaySide == <<eventStatus, expired, queued, relayPc, event, relayDraft, relayFaults, timeouts>>
workerSide == <<status, reason, webhooks, executions, job, delivered, pc, draft, outcome, faults>>
vars == <<relaySide, workerSide, ready>>

----------------------------------------------------------------------------
\* As many messages as a relay can publish for one event.
Copies == 1 .. 1 + MaxRelayFaults + MaxTimeouts
Messages == Payouts \X Copies
JobOf == [m \in Messages |-> m[1]]

ASSUME NoneAssumption ==
    /\ None \notin Payouts \cup Messages \cup Outcomes
    /\ None \notin {"pending", "processing", "processed", "rejected"}
    /\ Malformed \notin Payouts

Relay == INSTANCE OutboxRelay WITH
    Events <- Payouts, Relayed <- Payouts, MaxFaults <- MaxRelayFaults,
    status <- eventStatus, pc <- relayPc, draft <- relayDraft, faults <- relayFaults

Worker == INSTANCE PayoutExecution WITH MaxFaults <- MaxWorkerFaults
ASSUME RowAssumption == None \notin Worker!Rows

\* Execution as PayoutExecution sees it, where all messages are there at first:
\* one that is not published yet waits longer.
Published(m) == m[2] <= queued[m[1]]
Unpublished == {m \in Messages : ~Published(m)}
Execution == INSTANCE PayoutExecution WITH
    MaxFaults <- MaxWorkerFaults, ready <- ready \cup Unpublished

TypeOK ==
    /\ Relay!TypeOK
    /\ Worker!TypeOK
    /\ \A m \in ready : Published(m)
    /\ \A w \in Workers : job[w] # None => Published(job[w])

Init ==
    /\ Relay!Init
    /\ ready = {}
    /\ Execution!Init

----------------------------------------------------------------------------
\* What is published goes to the one queue that is bound.
\* Faulty: it goes nowhere.
Lose == ready' = ready
Enqueue == ready' = ready \cup {m \in Messages : ~Published(m) /\ Published(m)'}

RelaySide(A) == A /\ Enqueue /\ UNCHANGED workerSide
WorkerSide(A) == A /\ UNCHANGED relaySide

Accept(p) == RelaySide(Relay!Insert(p))
Expire(p) == RelaySide(Relay!Expire(p))
RelayStep(r) == RelaySide(Relay!Step(r))
RelayFaults(r) == RelaySide(Relay!Faults(r))
Take(w, m) == WorkerSide(Worker!Take(w, m))
WorkerStep(w) == WorkerSide(Worker!Step(w))
WorkerFaults(w) == WorkerSide(Worker!Faults(w))

\* All payouts are accepted and at rest.
Terminating ==
    /\ \A p \in Payouts : eventStatus[p] = "processed"
    /\ \A r \in Relays : relayPc[r] = "poll"
    /\ ready = {}
    /\ \A w \in Workers : pc[w] = "idle"
    /\ UNCHANGED vars

Next ==
    \/ \E p \in Payouts : Accept(p) \/ Expire(p)
    \/ \E r \in Relays : RelayStep(r) \/ RelayFaults(r)
    \/ \E w \in Workers : WorkerStep(w) \/ WorkerFaults(w) \/ \E m \in Messages : Take(w, m)
    \/ Terminating

\* That of OutboxRelay and that of PayoutExecution.
Fairness ==
    /\ \A r \in Relays : WF_vars(RelayStep(r))
    /\ \A p \in Payouts : WF_vars(Expire(p))
    /\ \A w \in Workers : WF_vars(WorkerStep(w))
    /\ \A m \in Messages : SF_vars(\E w \in Workers : Take(w, m))

Spec == Init /\ [][Next]_vars
FairSpec == Spec /\ Fairness

----------------------------------------------------------------------------
(* What the pipeline promises. *)

\* An accepted payout that was not tried is never out of everybody's hands: a
\* relay has its event, or will claim it, or a message of it is in the queue or
\* with a worker (relay.go:83-150, worker.go:48-75).
AcceptedIsInHand ==
    \A p \in Payouts :
        eventStatus[p] # "absent" /\ executions[p] = <<>> =>
            \/ eventStatus[p] \in {"pending", "processing"}
            \/ \E m \in Messages : JobOf[m] = p /\ Worker!Alive(m)

\* The provider is asked to pay a payout once, and once more for each fault of
\* a relay or a worker and each claim that expired under its relay: the races
\* of relays and workers alone pay nothing twice (relay.go:99-150,
\* execution.go:64-90).
PaymentsAreAccountedFor ==
    \A p \in Payouts : Len(executions[p]) <= 1 + relayFaults + timeouts + faults

\* An accepted payout comes to a final status for good, whichever processes die
\* on its way, once they cease to - unless a worker that lost its connection
\* sets it back after it was concluded, as then nothing but that worker may bring
\* it to an end (execution.go:133-141).
AcceptedConcludes ==
    \A p \in Payouts :
        []~Worker!Reopens(p) =>
            (eventStatus[p] # "absent" ~> [](status[p] \in Worker!Final))

\* A payout that the provider does not reject comes to rest: its event is
\* processed and its messages leave the queue.  (A rejected one whose message
\* comes back is nacked for ever, execution.go:146.)
PaidComesToRest ==
    \A p \in Payouts :
        [](eventStatus[p] # "absent" => "failed" \notin Worker!Answers(executions[p])) =>
            <>[](/\ eventStatus[p] \in {"absent", "processed"}
                 /\ \A m \in Messages : JobOf[m] = p /\ Published(m) => ~Worker!Alive(m))

----------------------------------------------------------------------------
(* The abstract specification, and what stands for its state here. *)

\* A payout is accepted when its event is there; its webhook events tell of its
\* outcomes; every fault and every claim that expired at work is trouble.
AcceptedPayouts == {p \in Payouts : eventStatus[p] # "absent"}
Told(seq) == [i \in 1 .. Len(seq) |-> seq[i].status]

Promise == INSTANCE PayoutPromise WITH
    accepted <- AcceptedPayouts,
    paid <- executions,
    told <- [p \in Payouts |-> Told(webhooks[p])],
    trouble <- relayFaults + timeouts + faults

\* Through outbox, queue and workers a payout is accepted, marked, paid and
\* concluded: it is paid only once its mark is committed and once for each
\* trouble more, each answer is announced at most once, and a conclusion is
\* taken back only after trouble (relay.go:99-150, execution.go:64-180).
ImplementsPromise == Promise!Spec
=============================================================================
