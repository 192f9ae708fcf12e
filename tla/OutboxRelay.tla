----------------------------- MODULE OutboxRelay -----------------------------
(***************************************************************************)
(* The outbox relay: Relay.Run and RunOnce of src/internal/outbox, one in  *)
(* each API process, any number of them over one table outbox_events.      *)
(*                                                                         *)
(* An event is claimed in one transaction, dispatched outside of any, and  *)
(* marked or released in another.  UPDATE and SELECT FOR UPDATE lock the   *)
(* row until their transaction ends; what it wrote is the relay's draft    *)
(* until then.  Neither the mark nor the release asks whose claim it ends. *)
(*                                                                         *)
(* claimed_at is kept as what the claim query asks of it: whether the      *)
(* claim is older than the claim timeout.                                  *)
(***************************************************************************)
EXTENDS Naturals, FiniteSets

CONSTANTS
    Relays,         \* relays, one per API process with the relay enabled
    Events,         \* rows of outbox_events
    CreatedAt,      \* CreatedAt[e]: outbox_events.created_at
    Relayed,        \* events of a type in Config.EventTypes
    MaxFaults,      \* bound: faults in one behaviour
    MaxTimeouts,    \* bound: claims that expire while their relay is at work
    None            \* no event, no draft

ASSUME EventAssumption == CreatedAt \in [Events -> Nat] /\ Relayed \subseteq Events
ASSUME RelaysAssumption == IsFiniteSet(Relays)
ASSUME BoundAssumption == MaxFaults \in Nat /\ MaxTimeouts \in Nat
ASSUME NoneAssumption ==
    None \notin Events \cup {"pending", "processing", "processed"}

VARIABLES
    status,         \* outbox_events.status, committed; absent before the insert
    expired,        \* expired[e]: claimed_at < reclaim_before
    queued,         \* queued[e]: messages published for e
    pc,             \* pc[r]: what relay r does next
    event,          \* event[r]: the event relay r is at work on
    draft,          \* draft[r]: the status its open transaction wrote
    faults,         \* faults so far
    timeouts        \* claims that expired under a relay at work

vars == <<status, expired, queued, pc, event, draft, faults, timeouts>>
bounds == <<faults, timeouts>>

----------------------------------------------------------------------------
Statuses == {"pending", "processing", "processed"}
Commits == {"commitClaim", "commitMark", "commitRelease"}
Statements == {"poll", "mark", "release"} \cup Commits
Labels == Statements \cup {"dispatch", "stopped"}

AtWork(r) == pc[r] \notin {"poll", "stopped"}

\* A row is locked while a transaction that wrote it is open.
Locked(e) == \E r \in Relays : draft[r] # None /\ event[r] = e

TypeOK ==
    /\ status \in [Events -> Statuses \cup {"absent"}]
    /\ expired \in [Events -> BOOLEAN]
    /\ queued \in [Events -> Nat]
    /\ pc \in [Relays -> Labels]
    /\ event \in [Relays -> Relayed \cup {None}]
    /\ draft \in [Relays -> Statuses \cup {None}]
    /\ faults \in 0 .. MaxFaults
    /\ timeouts \in 0 .. MaxTimeouts
    /\ \A r \in Relays :
          /\ AtWork(r) <=> event[r] # None
          /\ draft[r] # None <=> pc[r] \in Commits
          /\ AtWork(r) => status[event[r]] # "absent"
    /\ \A r, s \in Relays :
          r # s /\ draft[r] # None /\ draft[s] # None => event[r] # event[s]

Init ==
    /\ status = [e \in Events |-> "absent"]
    /\ expired = [e \in Events |-> FALSE]
    /\ queued = [e \in Events |-> 0]
    /\ pc = [r \in Relays |-> "poll"]
    /\ event = [r \in Relays |-> None]
    /\ draft = [r \in Relays |-> None]
    /\ faults = 0
    /\ timeouts = 0

----------------------------------------------------------------------------
(* Helpers of the actions. *)

Goto(r, from, to) ==
    /\ pc[r] = from
    /\ pc' = [pc EXCEPT ![r] = to]

\* An UPDATE of the row of relay r's event, once it has the lock.
Write(r, new) ==
    /\ ~Locked(event[r])
    /\ draft' = [draft EXCEPT ![r] = new]

\* tx.Commit.  claimed_at becomes NOW() or NULL: the claim is not expired.
Apply(r) ==
    /\ status' = [status EXCEPT ![event[r]] = draft[r]]
    /\ expired' = [expired EXCEPT ![event[r]] = FALSE]
    /\ draft' = [draft EXCEPT ![r] = None]

\* The deferred tx.Rollback.  Faulty: it is forgotten.
LeaveOpen(r) == UNCHANGED draft
Rollback(r) == draft' = [draft EXCEPT ![r] = None]

\* RunOnce returns: to the loop of Run, or with an error, which ends Run.
Return(r, to) ==
    /\ pc' = [pc EXCEPT ![r] = to]
    /\ event' = [event EXCEPT ![r] = None]

----------------------------------------------------------------------------
(* Intake commits an event; time passes. *)

Insert(e) ==
    /\ status[e] = "absent"
    /\ status' = [status EXCEPT ![e] = "pending"]
    /\ UNCHANGED <<expired, queued, pc, event, draft, bounds>>

\* A claim grows older than the claim timeout.  Nothing stops the clock while
\* a relay is still at work on its event.
Expire(e) ==
    /\ status[e] = "processing"
    /\ ~expired[e]
    /\ expired' = [expired EXCEPT ![e] = TRUE]
    /\ IF \E r \in Relays : event[r] = e
       THEN timeouts < MaxTimeouts /\ timeouts' = timeouts + 1
       ELSE UNCHANGED timeouts
    /\ UNCHANGED <<status, queued, pc, event, draft, faults>>

----------------------------------------------------------------------------
(* The steps of RunOnce. *)

\* What the claim query may take: rows locked by others are skipped.
\* Faulty: a claim is never taken over; it is taken over at once.
NeverReclaims(e) == status[e] = "pending"
ReclaimsAtOnce(e) == status[e] \in {"pending", "processing"}
Unclaimed(e) ==
    \/ status[e] = "pending"
    \/ status[e] = "processing" /\ expired[e]
Claimable == {e \in Relayed : Unclaimed(e) /\ ~Locked(e)}

Claim(r, e) ==
    /\ Goto(r, "poll", "commitClaim")
    /\ e \in Claimable
    /\ \A f \in Claimable : CreatedAt[e] <= CreatedAt[f]
    /\ event' = [event EXCEPT ![r] = e]
    /\ draft' = [draft EXCEPT ![r] = "processing"]
    /\ UNCHANGED <<status, expired, queued, bounds>>

CommitClaim(r) ==
    /\ Goto(r, "commitClaim", "dispatch")
    /\ Apply(r)
    /\ UNCHANGED <<queued, event, bounds>>

\* Dispatch returns nil: the broker confirmed the message.
Dispatch(r) ==
    /\ Goto(r, "dispatch", "mark")
    /\ queued' = [queued EXCEPT ![event[r]] = @ + 1]
    /\ UNCHANGED <<status, expired, event, draft, bounds>>

Mark(r) ==
    /\ Goto(r, "mark", "commitMark")
    /\ Write(r, "processed")
    /\ UNCHANGED <<status, expired, queued, event, bounds>>

CommitMark(r) ==
    /\ pc[r] = "commitMark"
    /\ Apply(r)
    /\ Return(r, "poll")
    /\ UNCHANGED <<queued, bounds>>

Release(r) ==
    /\ Goto(r, "release", "commitRelease")
    /\ Write(r, "pending")
    /\ UNCHANGED <<status, expired, queued, event, bounds>>

\* The error of the dispatch is returned once the claim is released.
CommitRelease(r) ==
    /\ pc[r] = "commitRelease"
    /\ Apply(r)
    /\ Return(r, "stopped")
    /\ UNCHANGED <<queued, bounds>>

\* The API process that ended with its relay is started again.
Start(r) ==
    /\ Goto(r, "stopped", "poll")
    /\ UNCHANGED <<status, expired, queued, event, draft, bounds>>

----------------------------------------------------------------------------
(* Faults. *)

Fault ==
    /\ faults < MaxFaults
    /\ faults' = faults + 1
    /\ UNCHANGED timeouts

\* Dispatch returns an error: the message was refused, or it was queued and
\* its confirmation came too late or not at all.
\* Faulty: the error is taken for a confirmation.
DispatchIgnored(r) ==
    /\ Fault
    /\ Goto(r, "dispatch", "mark")
    /\ \E n \in {0, 1} : queued' = [queued EXCEPT ![event[r]] = @ + n]
    /\ UNCHANGED <<status, expired, event, draft>>
DispatchFails(r) ==
    /\ Fault
    /\ Goto(r, "dispatch", "release")
    /\ \E n \in {0, 1} : queued' = [queued EXCEPT ![event[r]] = @ + n]
    /\ UNCHANGED <<status, expired, event, draft>>

\* A statement or a commit fails: RunOnce and Run return the error.
StatementFails(r) ==
    /\ Fault
    /\ pc[r] \in Statements
    /\ Rollback(r)
    /\ Return(r, "stopped")
    /\ UNCHANGED <<status, expired, queued>>

\* The commit took effect, and the relay is told that it did not.
CommitAckLost(r) ==
    /\ Fault
    /\ pc[r] \in Commits
    /\ Apply(r)
    /\ Return(r, "stopped")
    /\ UNCHANGED queued

\* The process dies, or its context is cancelled: nothing more is written.
Stop(r) ==
    /\ Fault
    /\ pc[r] # "stopped"
    /\ draft' = [draft EXCEPT ![r] = None]
    /\ Return(r, "stopped")
    /\ UNCHANGED <<status, expired, queued>>

----------------------------------------------------------------------------
Step(r) ==
    \/ \E e \in Events : Claim(r, e)
    \/ CommitClaim(r)
    \/ Dispatch(r)
    \/ Mark(r)
    \/ CommitMark(r)
    \/ Release(r)
    \/ CommitRelease(r)
    \/ Start(r)

Faults(r) ==
    \/ DispatchFails(r)
    \/ StatementFails(r)
    \/ CommitAckLost(r)
    \/ Stop(r)

\* Every event of a relayed type is processed, and every relay polls in vain.
Terminating ==
    /\ \A e \in Events : status[e] # "absent"
    /\ \A e \in Relayed : status[e] = "processed"
    /\ \A r \in Relays : pc[r] = "poll"
    /\ UNCHANGED vars

Next ==
    \/ \E r \in Relays : Step(r) \/ Faults(r)
    \/ \E e \in Events : Insert(e) \/ Expire(e)
    \/ Terminating

\* A relay goes on with what it does, one that exited is started again, and
\* time passes.
Fairness ==
    /\ \A r \in Relays : WF_vars(Step(r))
    /\ \A e \in Events : WF_vars(Expire(e))

Spec == Init /\ [][Next]_vars
FairSpec == Spec /\ Fairness

----------------------------------------------------------------------------
(* What the relay promises. *)

\* An event is marked processed only once a message for it is in the queue,
\* whoever marks it, and however many relays took over its claim
\* (relay.go:139-147).
ProcessedIsPublished ==
    \A e \in Events : status[e] = "processed" => queued[e] > 0

\* A second message for an event is always the work of a fault or of a claim
\* that expired under its relay: two relays polling at once, a release and a
\* reclaim, never publish an event twice on their own
\* (outbox_events.sql:23-41).
DuplicatesAreAccountedFor ==
    \A e \in Events : queued[e] <= 1 + faults + timeouts

\* "this guarantees that once a payout commit succeeds, the intent to process
\* it is never lost" (payout_orchestrator_system_design.md:406): once an event
\* of a relayed type is there, a message for it is published in the end,
\* whichever relay dies holding its claim.
EveryJobIsPublished ==
    \A e \in Relayed : status[e] # "absent" ~> queued[e] > 0

\* The relays come to rest: once faults cease, every event that was inserted
\* is processed and stays so, and is not published for ever.
EveryJobIsSettled ==
    \A e \in Relayed : <>[](status[e] \in {"absent", "processed"})

\* "claimed work remains replay-safe until marked processed"
\* (payout_orchestrator_mvp_system_design.md:384): the mark is what ends the
\* replays, so an event once processed is not pending again.
ProcessedIsFinal ==
    [][\A e \in Events : status[e] = "processed" => status'[e] = "processed"]_vars
=============================================================================
