------------------------- MODULE PayoutPipelineProofs -------------------------
(***************************************************************************)
(* Theorems about PayoutPipeline, from what is proved of its two parts.    *)
(***************************************************************************)
EXTENDS PayoutPipeline, FiniteSetTheorems, TLAPS

RelayProofs == INSTANCE OutboxRelayProofs WITH
    Events <- Payouts, Relayed <- Payouts, MaxFaults <- MaxRelayFaults,
    status <- eventStatus, pc <- relayPc, draft <- relayDraft, faults <- relayFaults

ExecutionProofs == INSTANCE PayoutExecutionProofs WITH
    MaxFaults <- MaxWorkerFaults, ready <- ready \cup Unpublished

----------------------------------------------------------------------------
(* What the parts assume. *)

LEMMA MessagesAreJobs ==
    /\ JobOf \in [Messages -> Payouts \cup {Malformed}]
    /\ \A p \in Payouts : <<p, 1>> \in Messages /\ JobOf[<<p, 1>>] = p
<1>1. 1 \in Copies
  BY BoundAssumption DEF Copies
<1>2. \A m \in Messages : m[1] \in Payouts
  BY DEF Messages
<1> QED
  BY <1>1, <1>2 DEF JobOf, Messages

LEMMA EveryPayoutHasAMessage == \A p \in Payouts : \E m \in Messages : JobOf[m] = p
BY MessagesAreJobs

LEMMA MessagesAreFinite == IsFiniteSet(Messages)
<1>1. IsFiniteSet(Copies)
  BY BoundAssumption, FS_Interval DEF Copies
<1> QED
  BY <1>1, FiniteAssumption, FS_Product DEF Messages

LEMMA NoneIsNoRow == None \notin ExecutionProofs!Rows
BY RowAssumption DEF Worker!Rows, ExecutionProofs!Rows, Worker!Statuses,
  ExecutionProofs!Statuses, Worker!Final, ExecutionProofs!Final, Worker!Reasons,
  ExecutionProofs!Reasons

LEMMA Distinct ==
    Malformed \notin Payouts /\ None \notin Messages \cup Outcomes /\ None # "rejected"
BY NoneAssumption

LEMMA RelayInit == RelayProofs!Init => RelayProofs!CountInv
  BY BoundAssumption, FiniteAssumption, EventAssumption, NoneAssumption, RelayProofs!InitCount
  DEF RelayProofs!IsFiniteSet, IsFiniteSet

LEMMA RelayNext ==
    RelayProofs!CountInv /\ [RelayProofs!Next]_RelayProofs!vars => RelayProofs!CountInv'
  BY BoundAssumption, FiniteAssumption, EventAssumption, NoneAssumption, RelayProofs!NextCount
  DEF RelayProofs!IsFiniteSet, IsFiniteSet

LEMMA RelayBounds == RelayProofs!CountInv => RelayProofs!DuplicatesAreAccountedFor
  BY BoundAssumption, FiniteAssumption, EventAssumption, NoneAssumption,
     RelayProofs!CountBounds
  DEF RelayProofs!IsFiniteSet, IsFiniteSet

LEMMA ExecutionInit == ExecutionProofs!Init => ExecutionProofs!TriedInv
  BY BoundAssumption, FiniteAssumption, OutcomeAssumption, Distinct, NoneIsNoRow,
     MessagesAreJobs, MessagesAreFinite, EveryPayoutHasAMessage, ExecutionProofs!InitTried
  DEF ExecutionProofs!IsFiniteSet, IsFiniteSet

LEMMA ExecutionNext ==
    ExecutionProofs!TriedInv /\ [ExecutionProofs!Next]_ExecutionProofs!vars
        => ExecutionProofs!TriedInv'
  BY BoundAssumption, FiniteAssumption, OutcomeAssumption, Distinct, NoneIsNoRow,
     MessagesAreJobs, MessagesAreFinite, EveryPayoutHasAMessage, ExecutionProofs!NextTriedInv
  DEF ExecutionProofs!IsFiniteSet, IsFiniteSet
LEMMA ExecutionPaid ==
    ASSUME ExecutionProofs!TriedInv, NEW p \in Payouts, NEW n \in Nat, NEW f,
           ExecutionProofs!Numbers(f, p, n)
    PROVE  /\ Len(executions[p]) <= n + faults
           /\ ExecutionProofs!Trying(p) # {} => Len(executions[p]) + 1 <= n + faults
  BY BoundAssumption, FiniteAssumption, OutcomeAssumption, Distinct, NoneIsNoRow,
     MessagesAreJobs, MessagesAreFinite, EveryPayoutHasAMessage, ExecutionProofs!PaidAtMost
  DEF ExecutionProofs!IsFiniteSet, IsFiniteSet

----------------------------------------------------------------------------
(* What each step is to the parts. *)

\* The messages of jobs in hand, and those in the queue, were published.
Queued ==
    /\ queued \in [Payouts -> Nat]
    /\ ready \subseteq Messages
    /\ \A m \in ready : Published(m)
    /\ \A w \in Workers : job[w] # None => Published(job[w])

LEMMA RelayIsRelay ==
    ASSUME [Next]_vars
    PROVE  [RelayProofs!Next]_RelayProofs!vars
<1>1. CASE UNCHANGED relaySide
  BY <1>1 DEF relaySide, RelayProofs!vars
<1>2. ASSUME NEW p \in Payouts, Accept(p) \/ Expire(p) PROVE RelayProofs!Next
  BY <1>2 DEF Accept, Expire, RelaySide, RelayProofs!Next, Relay!Insert, RelayProofs!Insert,
    Relay!Expire, RelayProofs!Expire, Relay!bounds, RelayProofs!bounds
<1>3. ASSUME NEW r \in Relays, RelayStep(r) PROVE RelayProofs!Step(r)
  <2>1. ASSUME NEW p \in Payouts, Relay!Claim(r, p) PROVE RelayProofs!Claim(r, p)
    BY <2>1 DEF Relay!Claim, RelayProofs!Claim, Relay!Goto, RelayProofs!Goto, Relay!Claimable,
      RelayProofs!Claimable, Relay!Unclaimed, RelayProofs!Unclaimed, Relay!Locked,
      RelayProofs!Locked, Relay!bounds, RelayProofs!bounds
  <2>2. Relay!CommitClaim(r) => RelayProofs!CommitClaim(r)
    BY DEF Relay!CommitClaim, RelayProofs!CommitClaim, Relay!Goto, RelayProofs!Goto,
      Relay!Apply, RelayProofs!Apply, Relay!bounds, RelayProofs!bounds
  <2>3. Relay!Dispatch(r) => RelayProofs!Dispatch(r)
    BY DEF Relay!Dispatch, RelayProofs!Dispatch, Relay!Goto, RelayProofs!Goto,
      Relay!bounds, RelayProofs!bounds
  <2>4. Relay!Mark(r) => RelayProofs!Mark(r)
    BY DEF Relay!Mark, RelayProofs!Mark, Relay!Goto, RelayProofs!Goto, Relay!Write,
      RelayProofs!Write, Relay!Locked, RelayProofs!Locked, Relay!bounds, RelayProofs!bounds
  <2>5. Relay!CommitMark(r) => RelayProofs!CommitMark(r)
    BY DEF Relay!CommitMark, RelayProofs!CommitMark, Relay!Apply, RelayProofs!Apply,
      Relay!Return, RelayProofs!Return, Relay!bounds, RelayProofs!bounds
  <2>6. Relay!Release(r) => RelayProofs!Release(r)
    BY DEF Relay!Release, RelayProofs!Release, Relay!Goto, RelayProofs!Goto, Relay!Write,
      RelayProofs!Write, Relay!Locked, RelayProofs!Locked, Relay!bounds, RelayProofs!bounds
  <2>7. Relay!CommitRelease(r) => RelayProofs!CommitRelease(r)
    BY DEF Relay!CommitRelease, RelayProofs!CommitRelease, Relay!Apply, RelayProofs!Apply,
      Relay!Return, RelayProofs!Return, Relay!bounds, RelayProofs!bounds
  <2>8. Relay!Start(r) => RelayProofs!Start(r)
    BY DEF Relay!Start, RelayProofs!Start, Relay!Goto, RelayProofs!Goto,
      Relay!bounds, RelayProofs!bounds
  <2> QED
    BY <1>3, <2>1, <2>2, <2>3, <2>4, <2>5, <2>6, <2>7, <2>8
    DEF RelayStep, RelaySide, Relay!Step, RelayProofs!Step
<1>4. ASSUME NEW r \in Relays, RelayFaults(r) PROVE RelayProofs!Faults(r)
  BY <1>4 DEF RelayFaults, RelaySide, Relay!Faults, RelayProofs!Faults,
    Relay!DispatchFails, RelayProofs!DispatchFails, Relay!StatementFails,
    RelayProofs!StatementFails, Relay!CommitAckLost, RelayProofs!CommitAckLost, Relay!Stop,
    RelayProofs!Stop, Relay!Fault, RelayProofs!Fault, Relay!Goto, RelayProofs!Goto,
    Relay!Apply, RelayProofs!Apply, Relay!Rollback, RelayProofs!Rollback, Relay!Return,
    RelayProofs!Return, Relay!Statements, RelayProofs!Statements, Relay!Commits,
    RelayProofs!Commits
<1> QED
  BY <1>1, <1>2, <1>3, <1>4
  DEF Next, Terminating, vars, RelayProofs!Next, Take, WorkerStep, WorkerFaults, WorkerSide

\* queued only grows.
LEMMA QueuedGrows ==
    ASSUME queued \in [Payouts -> Nat], RelayProofs!CountInv, [Next]_vars
    PROVE  /\ queued' \in [Payouts -> Nat]
           /\ \A p \in Payouts : queued[p] <= queued'[p]
<1> USE RelayIsRelay DEF RelayProofs!CountInv, RelayProofs!PublishInv
<1>1. queued' \in [Payouts -> Nat]
  BY RelayNext DEF RelayProofs!TypeOK
<1>2. ASSUME NEW r \in Relays, RelayProofs!Dispatch(r) \/ RelayProofs!DispatchFails(r)
      PROVE  \E n \in {0, 1} : queued' = [queued EXCEPT ![event[r]] = @ + n]
  BY <1>2 DEF RelayProofs!Dispatch, RelayProofs!DispatchFails
<1>3. \/ UNCHANGED queued
      \/ \E r \in Relays : RelayProofs!Dispatch(r) \/ RelayProofs!DispatchFails(r)
  <2>1. ASSUME NEW r \in Relays, RelayProofs!Step(r), ~RelayProofs!Dispatch(r)
        PROVE  UNCHANGED queued
    BY <2>1 DEF RelayProofs!Step, RelayProofs!Claim, RelayProofs!CommitClaim, RelayProofs!Mark,
      RelayProofs!CommitMark, RelayProofs!Release, RelayProofs!CommitRelease, RelayProofs!Start
  <2>2. ASSUME NEW r \in Relays, RelayProofs!Faults(r), ~RelayProofs!DispatchFails(r)
        PROVE  UNCHANGED queued
    BY <2>2 DEF RelayProofs!Faults, RelayProofs!StatementFails, RelayProofs!CommitAckLost,
      RelayProofs!Stop
  <2> QED
    BY <2>1, <2>2 DEF RelayProofs!Next, RelayProofs!vars, RelayProofs!Terminating,
      RelayProofs!Insert, RelayProofs!Expire
<1>4. ASSUME NEW p \in Payouts, NEW e, NEW n \in {0, 1},
             queued' = [queued EXCEPT ![e] = @ + n]
      PROVE  queued[p] <= queued'[p]
  <2>1. queued[p] \in Nat
    OBVIOUS
  <2>2. queued'[p] = queued[p] \/ queued'[p] = queued[p] + n
    BY <1>4
  <2> QED BY <2>1, <2>2
<1> QED BY <1>1, <1>2, <1>3, <1>4

\* What was published stays so.
LEMMA PublishedStays ==
    ASSUME queued \in [Payouts -> Nat], RelayProofs!CountInv, [Next]_vars,
           NEW m \in Messages, Published(m)
    PROVE  Published(m)'
<1>1. m[1] \in Payouts /\ m[2] \in Nat
  BY BoundAssumption DEF Messages, Copies
<1> QED BY <1>1, QueuedGrows DEF Published

\* Where a worker moves, the queue with what it still waits for moves alike.
LEMMA WorkerIsWorker ==
    ASSUME Queued, NEW w \in Workers, UNCHANGED queued,
           WorkerStep(w) \/ WorkerFaults(w) \/ \E m \in Messages : Take(w, m)
    PROVE  ExecutionProofs!Next
<1>1. Unpublished' = Unpublished /\ ready \cap Unpublished = {}
  BY DEF Unpublished, Published, Queued
<1> DEFINE queue == ready \cup Unpublished
<1>2. UNCHANGED ready => UNCHANGED queue
  BY <1>1
<1>3. ASSUME NEW S, ready' = ready \cup S PROVE queue' = queue \cup S
  BY <1>1, <1>3
<1>4. ASSUME NEW m \in Messages, Take(w, m) PROVE ExecutionProofs!Take(w, m)
  <2>1. m \in queue /\ queue' = queue \ {m}
    BY <1>1, <1>4 DEF Take, WorkerSide, Worker!Take
  <2> QED BY <1>4, <2>1 DEF Take, WorkerSide, Worker!Take, ExecutionProofs!Take, Worker!row,
      ExecutionProofs!row
<1>5. ASSUME NEW o \in Outcomes, Worker!Execute(w, o) PROVE ExecutionProofs!Execute(w, o)
  BY <1>2, <1>5 DEF Worker!Execute, ExecutionProofs!Execute, Worker!Goto, ExecutionProofs!Goto,
      Worker!Payout, ExecutionProofs!Payout, Worker!row, ExecutionProofs!row
<1>6. Worker!Read(w) => ExecutionProofs!Read(w)
  BY <1>2 DEF Worker!Read, ExecutionProofs!Read, Worker!Goto, ExecutionProofs!Goto, Worker!Gate,
      ExecutionProofs!Gate, Worker!Payout, ExecutionProofs!Payout, Worker!row,
      ExecutionProofs!row
<1>7. Worker!MarkProcessing(w) => ExecutionProofs!MarkProcessing(w)
  BY <1>2 DEF Worker!MarkProcessing, ExecutionProofs!MarkProcessing, Worker!Goto,
      ExecutionProofs!Goto, Worker!Write, ExecutionProofs!Write, Worker!Locked,
      ExecutionProofs!Locked, Worker!Payout, ExecutionProofs!Payout, Worker!row,
      ExecutionProofs!row
<1>8. Worker!CommitPrepare(w) => ExecutionProofs!CommitPrepare(w)
  BY <1>2 DEF Worker!CommitPrepare, ExecutionProofs!CommitPrepare, Worker!Goto,
      ExecutionProofs!Goto, Worker!Apply, ExecutionProofs!Apply, Worker!Payout,
      ExecutionProofs!Payout, Worker!row, ExecutionProofs!row
<1>9. Worker!CommitSkip(w) => ExecutionProofs!CommitSkip(w)
  BY <1>2 DEF Worker!CommitSkip, ExecutionProofs!CommitSkip, Worker!Goto, ExecutionProofs!Goto,
      Worker!row, ExecutionProofs!row
<1>10. Worker!Record(w) => ExecutionProofs!Record(w)
  BY <1>2 DEF Worker!Record, ExecutionProofs!Record, Worker!Goto, ExecutionProofs!Goto,
      Worker!Write, ExecutionProofs!Write, Worker!Locked, ExecutionProofs!Locked,
      Worker!Payout, ExecutionProofs!Payout, Worker!row, ExecutionProofs!row
<1>11. Worker!Notify(w) => ExecutionProofs!Notify(w)
  BY <1>2 DEF Worker!Notify, ExecutionProofs!Notify, Worker!Goto, ExecutionProofs!Goto,
      Worker!Payout, ExecutionProofs!Payout, Worker!row, ExecutionProofs!row
<1>12. Worker!CommitRecord(w) => ExecutionProofs!CommitRecord(w)
  BY <1>2 DEF Worker!CommitRecord, ExecutionProofs!CommitRecord, Worker!Goto,
      ExecutionProofs!Goto, Worker!Apply, ExecutionProofs!Apply, Worker!Payout,
      ExecutionProofs!Payout, Worker!row, ExecutionProofs!row
<1>13. Worker!Ack(w) => ExecutionProofs!Ack(w)
  BY <1>2 DEF Worker!Ack, ExecutionProofs!Ack, Worker!Settle, ExecutionProofs!Settle, Worker!row,
      ExecutionProofs!row
<1>14. Worker!Nack(w) => ExecutionProofs!Nack(w)
  BY <1>3 DEF Worker!Nack, ExecutionProofs!Nack, Worker!Settle, ExecutionProofs!Settle,
      Worker!Held, ExecutionProofs!Held, Worker!row, ExecutionProofs!row
<1>15. Worker!Drop(w) => ExecutionProofs!Drop(w)
  BY <1>2 DEF Worker!Drop, ExecutionProofs!Drop, Worker!Settle, ExecutionProofs!Settle,
      Worker!row, ExecutionProofs!row
<1>16. Worker!Start(w) => ExecutionProofs!Start(w)
  BY <1>2 DEF Worker!Start, ExecutionProofs!Start, Worker!Goto, ExecutionProofs!Goto, Worker!row,
      ExecutionProofs!row
<1>17. CASE WorkerStep(w)
  BY <1>5, <1>6, <1>7, <1>8, <1>9, <1>10, <1>11, <1>12, <1>13, <1>14, <1>15, <1>16, <1>17
  DEF WorkerStep, WorkerSide, Worker!Step, ExecutionProofs!Step, ExecutionProofs!Next
<1>18. Worker!StatementFails(w) => ExecutionProofs!StatementFails(w)
  BY <1>2 DEF Worker!StatementFails, ExecutionProofs!StatementFails, Worker!Fault,
      ExecutionProofs!Fault, Worker!Statements, ExecutionProofs!Statements,
      Worker!Commits, ExecutionProofs!Commits, Worker!Rollback, ExecutionProofs!Rollback,
      Worker!row, ExecutionProofs!row
<1>19. Worker!CommitAckLost(w) => ExecutionProofs!CommitAckLost(w)
  BY <1>2 DEF Worker!CommitAckLost, ExecutionProofs!CommitAckLost, Worker!Fault,
      ExecutionProofs!Fault, Worker!Commits, ExecutionProofs!Commits, Worker!Apply,
      ExecutionProofs!Apply, Worker!Payout, ExecutionProofs!Payout, Worker!row,
      ExecutionProofs!row
<1>20. Worker!ProviderFails(w) => ExecutionProofs!ProviderFails(w)
  BY <1>2 DEF Worker!ProviderFails, ExecutionProofs!ProviderFails, Worker!Fault,
      ExecutionProofs!Fault, Worker!Goto, ExecutionProofs!Goto, Worker!row,
      ExecutionProofs!row
<1>21. Worker!Disconnect(w) => ExecutionProofs!Disconnect(w)
  BY <1>3 DEF Worker!Disconnect, ExecutionProofs!Disconnect, Worker!Fault, ExecutionProofs!Fault,
      Worker!row, ExecutionProofs!row
<1>22. Worker!Stop(w) => ExecutionProofs!Stop(w)
  BY <1>3 DEF Worker!Stop, ExecutionProofs!Stop, Worker!Fault, ExecutionProofs!Fault,
      Worker!Settle, ExecutionProofs!Settle, Worker!Held, ExecutionProofs!Held,
      Worker!row, ExecutionProofs!row
<1>23. CASE WorkerFaults(w)
  BY <1>18, <1>19, <1>20, <1>21, <1>22, <1>23
  DEF WorkerFaults, WorkerSide, Worker!Faults, ExecutionProofs!Faults, ExecutionProofs!Next
<1> QED BY <1>4, <1>17, <1>23 DEF ExecutionProofs!Next

LEMMA ExecutionIsExecution ==
    ASSUME Queued, RelayProofs!CountInv, [Next]_vars
    PROVE  [ExecutionProofs!Next]_ExecutionProofs!vars
<1>1. ASSUME Enqueue, UNCHANGED workerSide PROVE UNCHANGED ExecutionProofs!vars
  <2>1. \A m \in Messages : Published(m) => Published(m)'
    BY PublishedStays DEF Queued
  <2>2. ready' \cup Unpublished' = ready \cup Unpublished
    BY <1>1, <2>1 DEF Enqueue, Unpublished
  <2> QED BY <1>1, <2>2 DEF workerSide, ExecutionProofs!vars, ExecutionProofs!row
<1>2. ASSUME UNCHANGED vars PROVE UNCHANGED ExecutionProofs!vars
  BY <1>2 DEF vars, relaySide, workerSide, Unpublished, Published, ExecutionProofs!vars,
    ExecutionProofs!row
<1>3. ASSUME NEW w \in Workers,
             WorkerStep(w) \/ WorkerFaults(w) \/ \E m \in Messages : Take(w, m)
      PROVE  ExecutionProofs!Next
  <2>1. UNCHANGED queued
    BY <1>3 DEF WorkerStep, WorkerFaults, Take, WorkerSide, relaySide
  <2> QED BY <1>3, <2>1, WorkerIsWorker
<1> QED
  BY <1>1, <1>2, <1>3
  DEF Next, Terminating, Accept, Expire, RelayStep, RelayFaults, RelaySide

----------------------------------------------------------------------------
(* The inductive invariant. *)

\* A payout that was not tried keeps the first of its messages.
FirstKept == \A p \in Payouts : executions[p] = <<>> => ExecutionProofs!Alive(<<p, 1>>)

IInv == RelayProofs!CountInv /\ ExecutionProofs!TriedInv /\ Queued /\ FirstKept

LEMMA InitInvariant == Init => IInv
<1> SUFFICES ASSUME Init PROVE IInv
  OBVIOUS
<1>1. RelayProofs!CountInv
  <2>1. RelayProofs!Init
    BY DEF Init, Relay!Init, RelayProofs!Init
  <2> QED BY <2>1, RelayInit
<1>2. ExecutionProofs!Init
  BY DEF Init, Execution!Init, ExecutionProofs!Init
<1>3. ExecutionProofs!TriedInv
  BY <1>2, ExecutionInit
<1>4. Queued
  BY <1>2 DEF Init, Relay!Init, Queued, ExecutionProofs!Init
<1>5. FirstKept
  BY <1>2, MessagesAreJobs DEF FirstKept, ExecutionProofs!Init, ExecutionProofs!Alive
<1> QED BY <1>1, <1>3, <1>4, <1>5 DEF IInv

LEMMA QueuedStep == IInv /\ [Next]_vars => Queued'
<1> SUFFICES ASSUME IInv, [Next]_vars PROVE Queued'
  OBVIOUS
<1>1. queued' \in [Payouts -> Nat] /\ \A m \in Messages : Published(m) => Published(m)'
  BY QueuedGrows, PublishedStays DEF IInv, Queued
<1>2. job \in [Workers -> Messages \cup {None}]
  BY DEF IInv, ExecutionProofs!TriedInv, ExecutionProofs!OutcomeInv, ExecutionProofs!TypeInv,
    ExecutionProofs!TypeOK, ExecutionProofs!DataOK
<1> USE <1>1, <1>2, NoneAssumption DEF IInv, Queued
<1>3. ASSUME Enqueue, UNCHANGED workerSide PROVE Queued'
  BY <1>3 DEF Enqueue, workerSide
<1>4. ASSUME NEW w \in Workers, NEW m \in Messages, Take(w, m) PROVE Queued'
  BY <1>4 DEF Take, WorkerSide, Worker!Take
<1>5. ASSUME NEW w \in Workers, WorkerStep(w) \/ WorkerFaults(w) PROVE Queued'
  <2>1. delivered[w] => job[w] # None
    BY DEF ExecutionProofs!TriedInv, ExecutionProofs!OutcomeInv, ExecutionProofs!TypeInv,
      ExecutionProofs!TypeOK, ExecutionProofs!WorkerOK
  <2>2. ASSUME \/ UNCHANGED <<ready, job>>
               \/ UNCHANGED ready /\ job' = [job EXCEPT ![w] = None]
               \/ delivered[w] /\ ready' = ready \cup {job[w]} /\ UNCHANGED job
               \/ /\ ready' = ready \cup Worker!Held(w)
                  /\ job' = [job EXCEPT ![w] = None]
        PROVE  Queued'
    BY <2>1, <2>2 DEF Worker!Held
  <2>3. CASE Worker!Nack(w) \/ Worker!Stop(w) \/ Worker!Disconnect(w)
    BY <2>2, <2>3 DEF Worker!Nack, Worker!Stop, Worker!Disconnect, Worker!Settle
  <2>4. CASE Worker!Ack(w) \/ Worker!Drop(w)
    BY <2>2, <2>4 DEF Worker!Ack, Worker!Drop, Worker!Settle
  <2>5. ASSUME UNCHANGED <<ready, job>> PROVE Queued'
    BY <2>2, <2>5
  <2>6. UNCHANGED <<ready, job>> \/ Worker!Nack(w) \/ Worker!Stop(w) \/ Worker!Disconnect(w)
          \/ Worker!Ack(w) \/ Worker!Drop(w)
    BY <1>5 DEF WorkerStep, WorkerFaults, WorkerSide, Worker!Step, Worker!Faults, Worker!Read,
      Worker!MarkProcessing, Worker!CommitPrepare, Worker!CommitSkip, Worker!Execute,
      Worker!Record, Worker!Notify, Worker!CommitRecord, Worker!Start, Worker!StatementFails,
      Worker!CommitAckLost, Worker!ProviderFails
  <2> QED BY <2>3, <2>4, <2>5, <2>6
<1>6. CASE UNCHANGED vars
  BY <1>6 DEF vars, workerSide
<1> QED
  BY <1>3, <1>4, <1>5, <1>6
  DEF Next, Terminating, Accept, Expire, RelayStep, RelayFaults, RelaySide

LEMMA FirstKeptStep == IInv /\ [Next]_vars => FirstKept'
<1> SUFFICES ASSUME IInv, [Next]_vars, NEW p \in Payouts, executions'[p] = <<>>
             PROVE  ExecutionProofs!Alive(<<p, 1>>)'
  BY DEF FirstKept
<1>1. ExecutionProofs!OutcomeInv /\ [ExecutionProofs!Next]_ExecutionProofs!vars
  BY ExecutionIsExecution DEF IInv, ExecutionProofs!TriedInv
<1>2. /\ <<p, 1>> \in Messages /\ JobOf[<<p, 1>>] = p
      /\ executions[p] = <<>> => ExecutionProofs!Alive(<<p, 1>>)
  BY MessagesAreJobs DEF IInv, FirstKept
<1> QED
  BY <1>1, <1>2, BoundAssumption, FiniteAssumption, OutcomeAssumption, Distinct, NoneIsNoRow,
     MessagesAreJobs, MessagesAreFinite, EveryPayoutHasAMessage,
     ExecutionProofs!UntriedStaysAlive
  DEF ExecutionProofs!IsFiniteSet, IsFiniteSet

LEMMA NextInvariant == IInv /\ [Next]_vars => IInv'
<1> SUFFICES ASSUME IInv, [Next]_vars PROVE IInv'
  OBVIOUS
<1>1. RelayProofs!CountInv' /\ Queued' /\ FirstKept'
  BY RelayIsRelay, RelayNext, QueuedStep, FirstKeptStep DEF IInv
<1>2. ExecutionProofs!TriedInv'
  BY ExecutionIsExecution, ExecutionNext DEF IInv
<1> QED BY <1>1, <1>2 DEF IInv

THEOREM Invariant == Spec => []IInv
BY InitInvariant, NextInvariant, PTL DEF Spec

----------------------------------------------------------------------------
(* What follows from it. *)

\* The types of both sides hold together, and nobody handles a message that
\* was not published.
THEOREM TypesHold == Spec => []TypeOK
<1>1. IInv => Relay!TypeOK
  BY DEF IInv, RelayProofs!CountInv, RelayProofs!PublishInv, RelayProofs!TypeOK, Relay!TypeOK,
    RelayProofs!Statuses, Relay!Statuses, RelayProofs!Labels, Relay!Labels,
    RelayProofs!Statements, Relay!Statements, RelayProofs!Commits, Relay!Commits,
    RelayProofs!AtWork, Relay!AtWork
<1>2. IInv => Worker!TypeOK
  <2> SUFFICES ASSUME ExecutionProofs!TypeOK, Queued PROVE Worker!TypeOK
    BY DEF IInv, ExecutionProofs!TriedInv, ExecutionProofs!OutcomeInv, ExecutionProofs!TypeInv
  <2>1. Worker!DataOK
    BY DEF ExecutionProofs!TypeOK, ExecutionProofs!DataOK, Worker!DataOK, Queued,
      ExecutionProofs!Statuses, Worker!Statuses, ExecutionProofs!Final, Worker!Final,
      ExecutionProofs!Reasons, Worker!Reasons, ExecutionProofs!Busy, Worker!Busy,
      ExecutionProofs!Statements, Worker!Statements, ExecutionProofs!Commits, Worker!Commits,
      ExecutionProofs!Drafts, Worker!Drafts, ExecutionProofs!Rows, Worker!Rows
  <2>2. ASSUME NEW w \in Workers PROVE Worker!WorkerOK(w)
    BY DEF ExecutionProofs!TypeOK, ExecutionProofs!WorkerOK, Worker!WorkerOK,
      ExecutionProofs!Busy, Worker!Busy, ExecutionProofs!Statements, Worker!Statements,
      ExecutionProofs!Commits, Worker!Commits, ExecutionProofs!Payout, Worker!Payout
  <2> QED BY <2>1, <2>2 DEF Worker!TypeOK
<1>3. IInv => TypeOK
  BY <1>1, <1>2 DEF TypeOK, IInv, Queued
<1> QED BY <1>3, Invariant, PTL

\* An accepted payout that was not tried is with a relay, in the queue, or with
\* a worker.
THEOREM NothingIsLost == Spec => []AcceptedIsInHand
<1>1. IInv => AcceptedIsInHand
  <2> SUFFICES ASSUME IInv, NEW p \in Payouts, eventStatus[p] # "absent",
                      executions[p] = <<>>, eventStatus[p] \notin {"pending", "processing"}
               PROVE  \E m \in Messages : JobOf[m] = p /\ Worker!Alive(m)
    BY DEF AcceptedIsInHand
  <2>1. eventStatus[p] = "processed" /\ queued[p] \in Nat /\ queued[p] > 0
    BY DEF IInv, RelayProofs!CountInv, RelayProofs!PublishInv, RelayProofs!TypeOK,
      RelayProofs!Statuses, RelayProofs!ProcessedIsPublished
  <2>2. <<p, 1>> \in Messages /\ JobOf[<<p, 1>>] = p
    BY MessagesAreJobs
  <2>3. <<p, 1>> \notin Unpublished
    BY <2>1 DEF Unpublished, Published
  <2>4. Worker!Alive(<<p, 1>>)
    BY <2>3 DEF IInv, FirstKept, ExecutionProofs!Alive, Worker!Alive, ExecutionProofs!Held,
      Worker!Held
  <2> QED BY <2>2, <2>4
<1> QED BY <1>1, Invariant, PTL

\* What was published for a payout, and so the answers for it, is bounded by what
\* went wrong; a worker that may still pay it takes one of these.
LEMMA PaymentsAreBounded ==
    ASSUME IInv, NEW p \in Payouts
    PROVE  /\ Len(executions[p]) <= 1 + relayFaults + timeouts + faults
           /\ ExecutionProofs!Trying(p) # {} => Len(executions[p]) <= relayFaults + timeouts + faults
<1> DEFINE f == [i \in 1 .. queued[p] |-> <<p, i>>]
<1>1. queued[p] \in Nat /\ relayFaults \in Nat /\ timeouts \in Nat
  BY BoundAssumption
  DEF IInv, RelayProofs!CountInv, RelayProofs!PublishInv, RelayProofs!TypeOK
<1>2. queued[p] <= 1 + relayFaults + timeouts
  BY RelayBounds DEF IInv, RelayProofs!DuplicatesAreAccountedFor
<1>3. ASSUME NEW m \in ExecutionProofs!MessagesOf(p) \ ExecutionProofs!Waiting(p)
      PROVE  \E i \in 1 .. queued[p] : m = f[i]
  <2>1. m \in Messages /\ m[1] = p /\ m[2] \in Nat \ {0} /\ m = <<p, m[2]>>
    BY <1>3, BoundAssumption DEF ExecutionProofs!MessagesOf, Messages, Copies, JobOf
  <2>2. m[2] <= queued[p]
    BY <1>3, <2>1 DEF ExecutionProofs!MessagesOf, ExecutionProofs!Waiting, Unpublished,
      Published
  <2> QED BY <1>1, <2>1, <2>2
<1> HIDE DEF f
<1>4. /\ Len(executions[p]) <= queued[p] + faults
      /\ ExecutionProofs!Trying(p) # {} => Len(executions[p]) + 1 <= queued[p] + faults
  BY <1>1, <1>3, ExecutionPaid DEF IInv, ExecutionProofs!Numbers
<1>5. Len(executions[p]) \in Nat /\ faults \in Nat
  BY BoundAssumption DEF IInv, ExecutionProofs!TriedInv, ExecutionProofs!OutcomeInv,
    ExecutionProofs!TypeInv, ExecutionProofs!TypeOK, ExecutionProofs!DataOK
<1> QED BY <1>1, <1>2, <1>4, <1>5

LEMMA PaymentsAreCounted == IInv => PaymentsAreAccountedFor
BY PaymentsAreBounded DEF PaymentsAreAccountedFor

LEMMA PaymentsAreCountedNext == (IInv => PaymentsAreAccountedFor)'
BY PaymentsAreCounted, PTL

\* Only a fault or a claim that expired under its relay pays a payout twice.
THEOREM PaymentsHaveACause == Spec => []PaymentsAreAccountedFor
BY PaymentsAreCounted, Invariant, PTL

----------------------------------------------------------------------------
(* What the abstract specification needs of the parts. *)

LEMMA ExecutionEffectsInit ==
    ExecutionProofs!Init => ExecutionProofs!WebhookInv /\ ExecutionProofs!MarkedInv
  BY BoundAssumption, FiniteAssumption, OutcomeAssumption, Distinct, NoneIsNoRow,
     MessagesAreJobs, MessagesAreFinite, EveryPayoutHasAMessage,
     ExecutionProofs!InitWebhook, ExecutionProofs!InitMarked
  DEF ExecutionProofs!IsFiniteSet, IsFiniteSet

LEMMA ExecutionEffectsNext ==
    /\ ExecutionProofs!WebhookInv /\ ExecutionProofs!MarkedInv
    /\ [ExecutionProofs!Next]_ExecutionProofs!vars
    => ExecutionProofs!WebhookInv' /\ ExecutionProofs!MarkedInv'
  BY BoundAssumption, FiniteAssumption, OutcomeAssumption, Distinct, NoneIsNoRow,
     MessagesAreJobs, MessagesAreFinite, EveryPayoutHasAMessage,
     ExecutionProofs!NextWebhook, ExecutionProofs!NextMarked
  DEF ExecutionProofs!IsFiniteSet, IsFiniteSet

LEMMA ExecutionEffects ==
    ASSUME ExecutionProofs!WebhookInv, ExecutionProofs!MarkedInv,
           [ExecutionProofs!Next]_ExecutionProofs!vars
    PROVE  ExecutionProofs!Effect /\ faults' \in {faults, faults + 1}
  BY BoundAssumption, FiniteAssumption, OutcomeAssumption, Distinct, NoneIsNoRow,
     MessagesAreJobs, MessagesAreFinite, EveryPayoutHasAMessage,
     ExecutionProofs!StepsHaveEffects
  DEF ExecutionProofs!IsFiniteSet, IsFiniteSet

LEMMA RelayAdmits ==
    ASSUME RelayProofs!PublishInv, [RelayProofs!Next]_RelayProofs!vars
    PROVE  RelayProofs!Admits
  BY BoundAssumption, FiniteAssumption, EventAssumption, NoneAssumption, RelayProofs!StepsAdmit
  DEF RelayProofs!IsFiniteSet, IsFiniteSet

LEMMA RelayAnnounces ==
    ASSUME RelayProofs!PublishInv, RelayProofs!Announced,
           [RelayProofs!Next]_RelayProofs!vars
    PROVE  RelayProofs!Announced'
  BY BoundAssumption, FiniteAssumption, EventAssumption, NoneAssumption,
     RelayProofs!NextAnnounced
  DEF RelayProofs!IsFiniteSet, IsFiniteSet

PromiseInv ==
    /\ IInv
    /\ ExecutionProofs!WebhookInv
    /\ ExecutionProofs!MarkedInv
    /\ RelayProofs!Announced

LEMMA InitPromise == Init => PromiseInv
<1> SUFFICES ASSUME Init PROVE PromiseInv
  OBVIOUS
<1>1. ExecutionProofs!Init
  BY DEF Init, Execution!Init, ExecutionProofs!Init
<1>2. RelayProofs!Announced
  BY DEF Init, Relay!Init, RelayProofs!Announced
<1> QED BY <1>1, <1>2, InitInvariant, ExecutionEffectsInit DEF PromiseInv

LEMMA NextPromise == PromiseInv /\ [Next]_vars => PromiseInv'
<1> SUFFICES ASSUME PromiseInv, [Next]_vars PROVE PromiseInv'
  OBVIOUS
<1>1. IInv /\ Queued /\ RelayProofs!CountInv /\ RelayProofs!PublishInv
  BY DEF PromiseInv, IInv, RelayProofs!CountInv
<1>2. IInv'
  BY <1>1, NextInvariant
<1>3. ExecutionProofs!WebhookInv' /\ ExecutionProofs!MarkedInv'
  BY <1>1, ExecutionIsExecution, ExecutionEffectsNext DEF PromiseInv
<1>4. RelayProofs!Announced'
  BY <1>1, RelayIsRelay, RelayAnnounces DEF PromiseInv
<1> QED BY <1>2, <1>3, <1>4 DEF PromiseInv

----------------------------------------------------------------------------
(* What is told. *)

LEMMA NothingIsTold == Told(<<>>) = <<>>
BY DEF Told

LEMMA ToldIsAsLong ==
    ASSUME NEW S, NEW s \in Seq(S) PROVE Len(Told(s)) = Len(s)
BY DEF Told

LEMMA ToldGrows ==
    ASSUME NEW S, NEW s \in Seq(S), NEW x \in S
    PROVE  Told(Append(s, x)) = Append(Told(s), x.status)
<1> DEFINE t == Append(s, x)
           T == {y.status : y \in S}
<1>1. /\ Len(s) \in Nat /\ t \in Seq(S) /\ Len(t) = Len(s) + 1
      /\ t[Len(s) + 1] = x /\ \A i \in 1 .. Len(s) : t[i] = s[i] /\ s[i] \in S
  OBVIOUS
<1> HIDE DEF t
<1>2. /\ Told(s) \in Seq(T) /\ Len(Told(s)) = Len(s)
      /\ \A i \in 1 .. Len(s) : Told(s)[i] = s[i].status
  BY <1>1 DEF Told
<1>3. /\ Append(Told(s), x.status) \in Seq(T)
      /\ Len(Append(Told(s), x.status)) = Len(s) + 1
      /\ Append(Told(s), x.status)[Len(s) + 1] = x.status
      /\ \A i \in 1 .. Len(s) : Append(Told(s), x.status)[i] = s[i].status
  BY <1>1, <1>2
<1>4. /\ Told(t) \in Seq(T) /\ Len(Told(t)) = Len(s) + 1
      /\ Told(t)[Len(s) + 1] = x.status
      /\ \A i \in 1 .. Len(s) : Told(t)[i] = s[i].status
  BY <1>1 DEF Told
<1>5. \A i \in 1 .. Len(s) + 1 : Told(t)[i] = Append(Told(s), x.status)[i]
  BY <1>1, <1>3, <1>4
<1> HIDE DEF T
<1>6. Told(t) = Append(Told(s), x.status)
  BY <1>3, <1>4, <1>5
<1> QED BY <1>6 DEF t

----------------------------------------------------------------------------
(* The refinement, step by step. *)

Trouble == relayFaults + timeouts + faults

LEMMA PromiseTypes ==
    ASSUME PromiseInv
    PROVE  /\ relayFaults \in Nat /\ timeouts \in Nat /\ faults \in Nat
           /\ status \in [Payouts -> {"pending", "processing", "succeeded", "failed"}]
           /\ executions \in [Payouts -> Seq(Outcomes)]
           /\ \E S : /\ webhooks \in [Payouts -> Seq(S)]
                    /\ \A o \in Outcomes, why \in ExecutionProofs!Reasons :
                          [status |-> o, reason |-> why] \in S
<1>1. RelayProofs!TypeOK /\ ExecutionProofs!DataOK
  BY DEF PromiseInv, IInv, RelayProofs!CountInv, RelayProofs!PublishInv,
    ExecutionProofs!TriedInv, ExecutionProofs!OutcomeInv, ExecutionProofs!TypeInv,
    ExecutionProofs!TypeOK
<1>2. /\ relayFaults \in Nat /\ timeouts \in Nat /\ faults \in Nat
      /\ status \in [Payouts -> {"pending", "processing", "succeeded", "failed"}]
      /\ executions \in [Payouts -> Seq(Outcomes)]
  BY <1>1, BoundAssumption
  DEF RelayProofs!TypeOK, ExecutionProofs!DataOK, ExecutionProofs!Statuses,
    ExecutionProofs!Final
<1> DEFINE S == [status : ExecutionProofs!Final, reason : ExecutionProofs!Reasons]
<1>3. webhooks \in [Payouts -> Seq(S)]
  BY <1>1 DEF ExecutionProofs!DataOK
<1>4. \A o \in Outcomes, why \in ExecutionProofs!Reasons : [status |-> o, reason |-> why] \in S
  BY OutcomeAssumption DEF ExecutionProofs!Final
<1> QED BY <1>2, <1>3, <1>4

LEMMA InitRefines == Init => Promise!Init
<1> SUFFICES ASSUME Init PROVE Promise!Init
  OBVIOUS
<1>1. Relay!Init /\ Execution!Init
  BY DEF Init
<1> QED
  BY <1>1, NothingIsTold DEF Relay!Init, Execution!Init, Promise!Init, AcceptedPayouts

\* A step in which payouts stay as they are.
LEMMA QuietRefines ==
    ASSUME UNCHANGED <<AcceptedPayouts, status, executions, webhooks>>,
           Trouble' \in {Trouble, Trouble + 1}
    PROVE  [Promise!Next]_Promise!vars
BY DEF Trouble, Promise!Next, Promise!GoWrong, Promise!vars

LEMMA RelaySideRefines ==
    ASSUME PromiseInv, [Next]_vars, UNCHANGED workerSide
    PROVE  [Promise!Next]_Promise!vars
<1>1. RelayProofs!Admits
  BY RelayIsRelay, RelayAdmits DEF PromiseInv, IInv, RelayProofs!CountInv
<1>2. UNCHANGED <<status, executions, webhooks, faults>>
  BY DEF workerSide
<1>3. /\ relayFaults \in Nat /\ timeouts \in Nat /\ faults \in Nat
      /\ eventStatus \in [Payouts -> RelayProofs!Statuses \cup {"absent"}]
  BY PromiseTypes DEF PromiseInv, IInv, RelayProofs!CountInv, RelayProofs!PublishInv,
    RelayProofs!TypeOK
<1>4. ASSUME NEW p \in Payouts, RelayProofs!Insert(p) PROVE Promise!Accept(p)
  <2>1. /\ p \notin AcceptedPayouts
        /\ AcceptedPayouts' = AcceptedPayouts \cup {p}
    BY <1>3, <1>4 DEF RelayProofs!Insert, AcceptedPayouts
  <2>2. UNCHANGED <<relayFaults, timeouts>>
    BY <1>4 DEF RelayProofs!Insert, RelayProofs!bounds
  <2> QED BY <1>2, <2>1, <2>2 DEF Promise!Accept
<1>5. ASSUME \A p \in Payouts : eventStatus'[p] = "absent" <=> eventStatus[p] = "absent",
             relayFaults' + timeouts' \in {relayFaults + timeouts, relayFaults + timeouts + 1}
      PROVE  [Promise!Next]_Promise!vars
  <2>1. AcceptedPayouts' = AcceptedPayouts
    BY <1>5 DEF AcceptedPayouts
  <2>2. Trouble' \in {Trouble, Trouble + 1}
    BY <1>2, <1>3, <1>5 DEF Trouble
  <2> QED BY <1>2, <2>1, <2>2, QuietRefines
<1> QED BY <1>1, <1>4, <1>5 DEF RelayProofs!Admits, Promise!Next

\* A worker only has messages of payouts that were accepted.
LEMMA HandledWasAccepted ==
    ASSUME PromiseInv, NEW w \in Workers, job[w] # None
    PROVE  ExecutionProofs!Payout(w) \in AcceptedPayouts
<1>1. job[w] \in Messages
  BY DEF PromiseInv, IInv, ExecutionProofs!TriedInv, ExecutionProofs!OutcomeInv,
    ExecutionProofs!TypeInv, ExecutionProofs!TypeOK, ExecutionProofs!DataOK
<1> DEFINE p == job[w][1]
<1>2. /\ p \in Payouts /\ job[w][2] \in Nat \ {0}
      /\ ExecutionProofs!Payout(w) = p
  BY <1>1, BoundAssumption DEF Messages, Copies, JobOf, ExecutionProofs!Payout
<1>3. job[w][2] <= queued[p] /\ queued[p] \in Nat
  BY <1>2 DEF PromiseInv, IInv, Queued, Published
<1>4. queued[p] > 0
  BY <1>2, <1>3
<1> QED BY <1>2, <1>4 DEF PromiseInv, RelayProofs!Announced, AcceptedPayouts

LEMMA WorkerSideRefines ==
    ASSUME PromiseInv, PromiseInv', [Next]_vars, UNCHANGED relaySide
    PROVE  [Promise!Next]_Promise!vars
<1>1. ExecutionProofs!Effect /\ faults' \in {faults, faults + 1}
  BY ExecutionIsExecution, ExecutionEffects DEF PromiseInv, IInv
<1>2. UNCHANGED <<eventStatus, relayFaults, timeouts>> /\ UNCHANGED AcceptedPayouts
  BY DEF relaySide, AcceptedPayouts
<1>3. /\ relayFaults \in Nat /\ timeouts \in Nat /\ faults \in Nat
      /\ status \in [Payouts -> {"pending", "processing", "succeeded", "failed"}]
      /\ executions \in [Payouts -> Seq(Outcomes)]
  BY PromiseTypes
<1>4. Trouble \in Nat /\ Trouble' \in {Trouble, Trouble + 1}
  <2>1. relayFaults' = relayFaults /\ timeouts' = timeouts
    BY <1>2
  <2>2. faults' = faults \/ faults' = faults + 1
    BY <1>1
  <2> QED BY <1>3, <2>1, <2>2 DEF Trouble
<1>5. ASSUME UNCHANGED <<status, webhooks, executions>>
      PROVE  [Promise!Next]_Promise!vars
  BY <1>2, <1>4, <1>5, QuietRefines
<1>6. ASSUME NEW w \in Workers, ExecutionProofs!Payout(w) \in Payouts, job[w] # None
      PROVE  /\ ExecutionProofs!Marks(w) => [Promise!Next]_Promise!vars
             /\ \A o \in Outcomes : ExecutionProofs!Pays(w, o) => Promise!Next
             /\ \A o \in Outcomes : ExecutionProofs!Concludes(w, o) => Promise!Next
  <2> DEFINE p == ExecutionProofs!Payout(w)
  <2>1. p \in Payouts /\ p \in AcceptedPayouts
    BY <1>6, HandledWasAccepted
  <2>2. Len(executions[p]) \in Nat /\ executions[p] \in Seq(Outcomes)
    BY <1>3, <2>1
  <2> HIDE DEF p
\* Whoever takes up a payout that was concluded may pay it again.
  <2>3. ASSUME ExecutionProofs!Marks(w) PROVE [Promise!Next]_Promise!vars
    <3>1. /\ ExecutionProofs!Trying(p) # {}
          /\ status' = [status EXCEPT ![p] = "processing"]
          /\ UNCHANGED <<webhooks, executions>>
      BY <2>3 DEF ExecutionProofs!Marks, p
    <3>2. CASE status[p] = "processing"
      <4>1. UNCHANGED status
        BY <1>3, <3>1, <3>2
      <4> QED BY <1>5, <3>1, <4>1
    <3>3. CASE status[p] # "processing"
      <4>1. status[p] # "pending" => Trouble > 0
        <5> SUFFICES ASSUME status[p] # "pending" PROVE Trouble > 0
          OBVIOUS
        <5>1. status[p] \in ExecutionProofs!Answers(executions[p])
          BY <1>3, <2>1, <3>3 DEF PromiseInv, IInv, ExecutionProofs!TriedInv,
            ExecutionProofs!OutcomeInv, ExecutionProofs!OutcomeIsBacked, ExecutionProofs!Final
        <5>2. Len(executions[p]) # 0
          BY <2>2, <5>1 DEF ExecutionProofs!Answers
        <5>3. Len(executions[p]) <= Trouble
          BY <2>1, <3>1, PaymentsAreBounded DEF PromiseInv, Trouble
        <5> QED BY <1>4, <2>2, <5>2, <5>3
      <4>2. Promise!Mark(p)
        BY <1>2, <1>4, <2>1, <3>1, <4>1 DEF Promise!Mark, Promise!MayGoWrong, Trouble
      <4> QED BY <2>1, <4>2 DEF Promise!Next
    <3> QED BY <3>2, <3>3
  <2>4. ASSUME NEW o \in Outcomes, ExecutionProofs!Pays(w, o) PROVE Promise!Next
    <3>1. /\ status[p] # "pending"
          /\ executions' = [executions EXCEPT ![p] = Append(@, o)]
          /\ UNCHANGED <<status, webhooks, faults>>
      BY <2>4 DEF ExecutionProofs!Pays, p
    <3>2. Len(executions'[p]) = Len(executions[p]) + 1
      BY <1>3, <2>1, <2>2, <3>1
    <3>3. Trouble' = Trouble
      BY <1>2, <3>1 DEF Trouble
    <3>4. Len(executions'[p]) <= 1 + relayFaults' + timeouts' + faults'
      BY <2>1, PaymentsAreCountedNext DEF PromiseInv, PaymentsAreAccountedFor
    <3>5. Len(executions[p]) <= Trouble
      BY <1>2, <1>3, <2>2, <3>1, <3>2, <3>4 DEF Trouble
    <3>6. Promise!Pay(p, o)
      BY <1>2, <2>1, <3>1, <3>5 DEF Promise!Pay, Trouble
    <3> QED BY <2>1, <3>6 DEF Promise!Next
  <2>5. ASSUME NEW o \in Outcomes, ExecutionProofs!Concludes(w, o) PROVE Promise!Next
    <3>1. /\ o \in ExecutionProofs!Answers(executions[p])
          /\ status[p] # "pending"
          /\ status' = [status EXCEPT ![p] = o]
          /\ Len(webhooks[p]) < Len(executions[p])
          /\ UNCHANGED executions
      BY <2>5 DEF ExecutionProofs!Concludes, p
    <3>2. CASE p \in Subscribed
      <4>1. PICK S : /\ webhooks \in [Payouts -> Seq(S)]
                     /\ \A a \in Outcomes, why \in ExecutionProofs!Reasons :
                           [status |-> a, reason |-> why] \in S
        BY PromiseTypes
      <4>2. PICK why \in ExecutionProofs!Reasons :
                webhooks' = [webhooks EXCEPT ![p] =
                                Append(@, [status |-> o, reason |-> why])]
        BY <2>5, <3>2 DEF ExecutionProofs!Concludes, p
      <4> DEFINE x == [status |-> o, reason |-> why]
      <4>3. /\ Told(Append(webhooks[p], x)) = Append(Told(webhooks[p]), o)
            /\ Len(Told(webhooks[p])) < Len(executions[p])
        BY <2>1, <3>1, <4>1, ToldGrows, ToldIsAsLong
      <4>4. [q \in Payouts |-> Told(webhooks[q])]' =
                [[q \in Payouts |-> Told(webhooks[q])] EXCEPT ![p] = Append(@, o)]
        BY <2>1, <4>1, <4>2, <4>3
      <4> QED
        BY <1>2, <1>4, <2>1, <3>1, <3>2, <4>3, <4>4
        DEF Promise!Next, Promise!Conclude, Promise!MayGoWrong, Trouble,
          ExecutionProofs!Answers
    <3>3. CASE p \notin Subscribed
      <4>1. UNCHANGED webhooks
        BY <2>5, <3>3 DEF ExecutionProofs!Concludes, p
      <4> QED
        BY <1>2, <1>4, <2>1, <3>1, <3>3, <4>1
        DEF Promise!Next, Promise!Conclude, Promise!MayGoWrong, Trouble,
          ExecutionProofs!Answers
    <3> QED BY <3>2, <3>3
  <2> QED BY <2>3, <2>4, <2>5
<1> QED BY <1>1, <1>5, <1>6 DEF ExecutionProofs!Effect

LEMMA StepRefines ==
    ASSUME PromiseInv, PromiseInv', [Next]_vars
    PROVE  [Promise!Next]_Promise!vars
<1>1. UNCHANGED workerSide \/ UNCHANGED relaySide
  BY DEF Next, Terminating, vars, Accept, Expire, RelayStep, RelayFaults, RelaySide,
    Take, WorkerStep, WorkerFaults, WorkerSide
<1> QED BY <1>1, RelaySideRefines, WorkerSideRefines

\* Every step of relays and workers, faults included, is a step of the promise
\* to a client, or none.
THEOREM PipelineKeepsItsPromise == Spec => ImplementsPromise
<1>1. PromiseInv /\ PromiseInv' /\ [Next]_vars => [Promise!Next]_Promise!vars
  BY StepRefines
<1> QED BY <1>1, InitPromise, NextPromise, InitRefines, PTL
        DEF Spec, ImplementsPromise, Promise!Spec

----------------------------------------------------------------------------
(* The way of a payout until the first trouble. *)

\* As long as nothing went wrong every change of a payout's status is one of
\* the table of domain/payout/status.go:21, whatever relays and workers there
\* are: the outbox gives each payout one message, and one message is tried
\* once.  (For a worker that may find two messages, TransitionsAreValid of
\* PayoutExecution does not hold.)
TransitionsUntilTrouble ==
    [][Trouble' = 0 =>
          \A p \in Payouts : status'[p] # status[p] =>
              ExecutionProofs!CanTransition(status[p], status'[p])]_vars

\* A payout that was paid once has no two outcomes.
LEMMA OneAnswerOneOutcome ==
    ASSUME PromiseInv, NEW p \in Payouts, Trouble = 0,
           status[p] \in ExecutionProofs!Final,
           NEW o, o \in ExecutionProofs!Answers(executions[p])
    PROVE  status[p] = o
<1>1. /\ executions[p] \in Seq(Outcomes)
      /\ relayFaults \in Nat /\ timeouts \in Nat /\ faults \in Nat
  BY PromiseTypes
<1>2. Len(executions[p]) <= 1
  BY <1>1, PaymentsAreCounted DEF PromiseInv, PaymentsAreAccountedFor, Trouble
<1>3. status[p] \in ExecutionProofs!Answers(executions[p])
  BY DEF PromiseInv, IInv, ExecutionProofs!TriedInv, ExecutionProofs!OutcomeInv,
    ExecutionProofs!OutcomeIsBacked
<1> QED BY <1>1, <1>2, <1>3 DEF ExecutionProofs!Answers

\* Every change of a status is that of a promise's Mark or Conclude.
LEMMA PromisedTransition ==
    ASSUME PromiseInv, [Promise!Next]_Promise!vars, Trouble' = 0,
           NEW p \in Payouts, status'[p] # status[p]
    PROVE  ExecutionProofs!CanTransition(status[p], status'[p])
<1>1. /\ relayFaults \in Nat /\ timeouts \in Nat /\ faults \in Nat
      /\ status \in [Payouts -> {"pending", "processing", "succeeded", "failed"}]
      /\ executions \in [Payouts -> Seq(Outcomes)]
  BY PromiseTypes
<1>2. Trouble \in Nat
  BY <1>1 DEF Trouble
<1>3. CASE \E q \in Payouts : Promise!Mark(q)
  <2>1. PICK q \in Payouts : Promise!Mark(q)
    BY <1>3
  <2>2. status[q] # "pending" => Trouble > 0
    BY <2>1 DEF Promise!Mark, Trouble
  <2>3. Trouble' = Trouble \/ Trouble' = Trouble + 1
    BY <2>1 DEF Promise!Mark, Promise!MayGoWrong, Trouble
  <2>4. status[q] = "pending" /\ q = p /\ status'[p] = "processing"
    BY <1>1, <1>2, <2>1, <2>2, <2>3 DEF Promise!Mark
  <2> QED BY <2>4 DEF ExecutionProofs!CanTransition
<1>4. CASE \E q \in Payouts : \E o \in Outcomes : Promise!Conclude(q, o)
  <2>1. PICK q \in Payouts, o \in Outcomes : Promise!Conclude(q, o)
    BY <1>4
  <2>2. Trouble' = Trouble \/ Trouble' = Trouble + 1
    BY <2>1 DEF Promise!Conclude, Promise!MayGoWrong, Trouble
  <2>3. Trouble = 0
    BY <1>2, <2>2
  <2>4. /\ q = p /\ status[p] # "pending" /\ status'[p] = o
        /\ o \in ExecutionProofs!Answers(executions[p])
    BY <1>1, <2>1 DEF Promise!Conclude, ExecutionProofs!Answers
  <2>5. status[p] \notin ExecutionProofs!Final
    BY <2>3, <2>4, OneAnswerOneOutcome
  <2>6. status[p] = "processing" /\ o \in ExecutionProofs!Final
    BY <1>1, <2>4, <2>5, OutcomeAssumption DEF ExecutionProofs!Final
  <2> QED BY <2>4, <2>6 DEF ExecutionProofs!CanTransition
<1>5. CASE UNCHANGED status
  BY <1>5
<1> QED
  BY <1>3, <1>4, <1>5
  DEF Promise!Next, Promise!vars, Promise!Accept, Promise!Pay, Promise!GoWrong

\* Until the first trouble a client sees its payout go from pending to
\* processing and from there to its outcome, and never back
\* (relay.go:83-150, execution.go:64-180).
THEOREM StatusesGoForward == Spec => TransitionsUntilTrouble
<1>1. PromiseInv /\ PromiseInv' /\ [Next]_vars =>
        [Trouble' = 0 =>
          \A p \in Payouts : status'[p] # status[p] =>
              ExecutionProofs!CanTransition(status[p], status'[p])]_vars
  <2> SUFFICES ASSUME PromiseInv, PromiseInv', [Next]_vars, Trouble' = 0,
                      NEW p \in Payouts, status'[p] # status[p]
               PROVE  ExecutionProofs!CanTransition(status[p], status'[p])
    OBVIOUS
  <2>1. [Promise!Next]_Promise!vars
    BY StepRefines
  <2> QED BY <2>1, PromisedTransition
<1> QED BY <1>1, InitPromise, NextPromise, PTL DEF Spec, TransitionsUntilTrouble
=============================================================================
