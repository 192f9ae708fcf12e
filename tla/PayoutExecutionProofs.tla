------------------------ MODULE PayoutExecutionProofs ------------------------
(***************************************************************************)
(* Proofs about PayoutExecution, for any workers, payouts, messages and    *)
(* bounds.                                                                 *)
(***************************************************************************)
EXTENDS PayoutExecution, FiniteSetTheorems, TLAPS

----------------------------------------------------------------------------
(* Type correctness. *)

\* The broker gives a message to one worker at a time.
Exclusive ==
    \A w, v \in Workers :
        w # v /\ delivered[w] /\ delivered[v] => job[w] # job[v]

\* What worker w wrote and has not committed, by what it does next.
DraftOK(w) ==
    /\ pc[w] = "drop" => Payout(w) = Malformed
    /\ pc[w] = "commitPrepare" /\ draft[w] # None =>
          draft[w].status = "processing" /\ ~draft[w].webhook
    /\ pc[w] \in {"notify", "commitRecord"} =>
          /\ draft[w] # None
          /\ draft[w].status = outcome[w]
          /\ outcome[w] = "failed" => draft[w].reason = "rejected"
    /\ pc[w] = "notify" => ~draft[w].webhook
    /\ pc[w] = "commitRecord" => (draft[w].webhook <=> Payout(w) \in Subscribed)

TypeInv == TypeOK /\ Exclusive /\ \A w \in Workers : DraftOK(w)

LEMMA InitTypes == Init => TypeInv
<1> USE BoundAssumption DEF Init
<1>1. Init => DataOK
    BY DEF DataOK, Statuses, Reasons, Drafts
<1>2. Init => Exclusive /\ \A w \in Workers : WorkerOK(w) /\ DraftOK(w)
    BY DEF Exclusive, WorkerOK, DraftOK, Busy, Statements, Commits
<1> QED BY <1>1, <1>2 DEF TypeInv, TypeOK

LEMMA WriteTypes ==
    ASSUME TypeOK, NEW w \in Workers,
           NEW s \in Statuses, NEW why \in Reasons, Write(w, s, why)
    PROVE  draft' \in [Workers -> Drafts]
<1>1. [status |-> s, reason |-> why, webhook |-> FALSE] \in Rows
    BY DEF Rows
<1> QED BY <1>1 DEF Write, TypeOK, DataOK, Drafts

LEMMA ApplyTypes ==
    ASSUME TypeInv, NEW w \in Workers, pc[w] \in Commits, Apply(w)
    PROVE  /\ draft' \in [Workers -> Drafts]
           /\ status' \in [Payouts -> Statuses]
           /\ reason' \in [Payouts -> Reasons]
           /\ webhooks' \in [Payouts -> Seq([status : Final, reason : Reasons])]
<1> USE RowAssumption DEF Apply, TypeInv, TypeOK, DataOK, Drafts
<1>1. draft' \in [Workers -> Drafts]
    OBVIOUS
<1>2. status' \in [Payouts -> Statuses]
    BY DEF row, Rows
<1>3. reason' \in [Payouts -> Reasons]
    BY DEF row, Rows
<1>4. webhooks' \in [Payouts -> Seq([status : Final, reason : Reasons])]
  <2> DEFINE p == Payout(w)
             Notes == [status : Final, reason : Reasons]
             note == [status |-> draft[w].status, reason |-> draft[w].reason]
  <2>1. CASE draft[w] # None /\ draft[w].webhook
    <3>1. draft[w].status \in Final
        BY <2>1, OutcomeAssumption
        DEF DraftOK, WorkerOK, Commits, Final, Busy, Statements
    <3>2. note \in Notes
        BY <2>1, <3>1 DEF Rows
    <3>3. webhooks' = [webhooks EXCEPT ![p] = Append(webhooks[p], note)]
        BY <2>1
    <3>4. p \in Payouts /\ webhooks \in [Payouts -> Seq(Notes)]
        BY DEF WorkerOK, Commits, Busy, Statements
    <3> HIDE DEF note, Notes
    <3>5. Append(webhooks[p], note) \in Seq(Notes)
        BY <3>2, <3>4
    <3> QED BY <3>3, <3>4, <3>5 DEF Notes
  <2>2. CASE ~(draft[w] # None /\ draft[w].webhook)
    BY <2>2 DEF row
  <2> QED BY <2>1, <2>2
<1> QED BY <1>1, <1>2, <1>3, <1>4

LEMMA NotifyWrites ==
    ASSUME TypeInv, NEW w \in Workers, Notify(w)
    PROVE  /\ draft' \in [Workers -> Drafts]
           /\ draft'[w] # None
           /\ draft'[w].status = draft[w].status
           /\ draft'[w].reason = draft[w].reason
           /\ draft'[w].webhook <=> Payout(w) \in Subscribed
           /\ \A v \in Workers \ {w} : draft'[v] = draft[v]
<1> DEFINE wanted == Payout(w) \in Subscribed
           written == [draft[w] EXCEPT !.webhook = wanted]
<1>1. draft \in [Workers -> Drafts] /\ draft[w] \in Rows
    BY DEF TypeInv, TypeOK, DataOK, DraftOK, Notify, Goto, Drafts
<1>2. /\ written \in Rows
      /\ written.status = draft[w].status
      /\ written.reason = draft[w].reason
      /\ written.webhook = wanted
  <2>1. wanted \in BOOLEAN
      OBVIOUS
  <2> HIDE DEF wanted
  <2> QED BY <1>1, <2>1 DEF Rows
<1>3. draft' = [draft EXCEPT ![w] = written]
    BY DEF Notify
<1> HIDE DEF written
<1>4. /\ draft' \in [Workers -> Drafts]
      /\ draft'[w] = written
      /\ \A v \in Workers \ {w} : draft'[v] = draft[v]
    BY <1>1, <1>2, <1>3 DEF Drafts
<1> QED BY <1>2, <1>4, RowAssumption

LEMMA FaultTypes ==
    ASSUME TypeOK, Fault
    PROVE  faults' \in 0 .. MaxFaults
BY BoundAssumption DEF TypeOK, DataOK, Fault

LEMMA NextData == TypeInv /\ [Next]_vars => DataOK'
<1> SUFFICES ASSUME TypeInv, [Next]_vars PROVE DataOK'
    OBVIOUS
<1> DEFINE Labels == Busy \cup {"idle", "stopped"}
<1> USE DEF TypeInv, TypeOK, DataOK, row
<1>0. /\ Labels = {"read", "markProcessing", "record", "notify", "commitPrepare",
                   "commitSkip", "commitRecord", "execute", "ack", "nack",
                   "drop", "idle", "stopped"}
      /\ None \in Drafts
    BY DEF Busy, Statements, Commits, Drafts
<1> HIDE DEF Labels
<1>1. ASSUME NEW w \in Workers, NEW m \in Messages, Take(w, m) PROVE DataOK'
    BY <1>1, <1>0 DEF Take, Labels
<1>2. ASSUME NEW w \in Workers, Read(w) PROVE DataOK'
  <2>1. status[Payout(w)] \in Statuses
      BY <1>2 DEF Read, Goto, WorkerOK, Busy, Statements
  <2>2. Gate(status[Payout(w)]) \in {"markProcessing", "commitPrepare", "commitSkip", "nack"}
      BY <2>1 DEF Gate, Statuses, Final
  <2> QED BY <1>2, <2>2, <1>0 DEF Read, Goto, Labels
<1>3. ASSUME NEW w \in Workers, MarkProcessing(w) PROVE DataOK'
  <2>1. reason[Payout(w)] \in Reasons
      BY <1>3 DEF MarkProcessing, Goto, WorkerOK, Busy, Statements
  <2>2. draft' \in [Workers -> Drafts]
      BY <1>3, <2>1, WriteTypes DEF MarkProcessing, Statuses
  <2> QED BY <1>3, <2>2, <1>0 DEF MarkProcessing, Goto, Labels
<1>4. ASSUME NEW w \in Workers, CommitPrepare(w) PROVE DataOK'
    BY <1>4, <1>0, ApplyTypes DEF CommitPrepare, Goto, Commits, Labels
<1>5. ASSUME NEW w \in Workers, CommitSkip(w) PROVE DataOK'
    BY <1>5, <1>0 DEF CommitSkip, Goto, Labels
<1>6. ASSUME NEW w \in Workers, NEW o \in Outcomes, Execute(w, o) PROVE DataOK'
  <2>1. Append(executions[Payout(w)], o) \in Seq(Outcomes)
      BY <1>6 DEF Execute, Goto, WorkerOK, Busy
  <2> QED BY <1>6, <2>1, <1>0 DEF Execute, Goto, Labels
<1>7. ASSUME NEW w \in Workers, Record(w) PROVE DataOK'
  <2>1. reason[Payout(w)] \in Reasons
      BY <1>7 DEF Record, Goto, WorkerOK, Busy, Statements
  <2>2. draft' \in [Workers -> Drafts]
    <3>1. CASE outcome[w] = "succeeded"
        BY <1>7, <2>1, <3>1, WriteTypes DEF Record, Statuses, Final
    <3>2. CASE outcome[w] # "succeeded"
        BY <1>7, <3>2, WriteTypes DEF Record, Statuses, Final, Reasons
    <3> QED BY <3>1, <3>2
  <2> QED BY <1>7, <2>2, <1>0 DEF Record, Goto, Labels
<1>8. ASSUME NEW w \in Workers, Notify(w) PROVE DataOK'
  <2>1. draft' \in [Workers -> Drafts]
      BY <1>8, NotifyWrites
  <2> QED BY <1>8, <2>1, <1>0 DEF Notify, Goto, Labels
<1>9. ASSUME NEW w \in Workers, CommitRecord(w) PROVE DataOK'
    BY <1>9, <1>0, ApplyTypes DEF CommitRecord, Goto, Commits, Labels
<1>10. ASSUME NEW w \in Workers, Ack(w) PROVE DataOK'
    BY <1>10, <1>0 DEF Ack, Settle, Labels
<1>11. ASSUME NEW w \in Workers, Nack(w) PROVE DataOK'
  <2>1. ready' \subseteq Messages
      BY <1>11 DEF Nack, Held, WorkerOK
  <2> QED BY <1>11, <2>1, <1>0 DEF Nack, Settle, Labels
<1>12. ASSUME NEW w \in Workers, Drop(w) PROVE DataOK'
    BY <1>12, <1>0 DEF Drop, Settle, Labels
<1>13. ASSUME NEW w \in Workers, Start(w) PROVE DataOK'
    BY <1>13, <1>0 DEF Start, Goto, Labels
<1>14. ASSUME NEW w \in Workers, StatementFails(w) PROVE DataOK'
    BY <1>14, <1>0, FaultTypes DEF StatementFails, Rollback, Labels
<1>15. ASSUME NEW w \in Workers, CommitAckLost(w) PROVE DataOK'
    BY <1>15, <1>0, FaultTypes, ApplyTypes DEF CommitAckLost, Labels
<1>16. ASSUME NEW w \in Workers, ProviderFails(w) PROVE DataOK'
    BY <1>16, <1>0, FaultTypes DEF ProviderFails, Goto, Labels
<1>17. ASSUME NEW w \in Workers, Disconnect(w) PROVE DataOK'
  <2>1. ready' \subseteq Messages
      BY <1>17 DEF Disconnect, WorkerOK
  <2> QED BY <1>17, <2>1, FaultTypes DEF Disconnect
<1>18. ASSUME NEW w \in Workers, Stop(w) PROVE DataOK'
  <2>1. ready' \subseteq Messages
      BY <1>18 DEF Stop, Held, WorkerOK
  <2> QED BY <1>18, <2>1, <1>0, FaultTypes DEF Stop, Settle, Labels
<1>19. CASE UNCHANGED vars
    BY <1>19 DEF vars
<1> QED
    BY <1>1, <1>2, <1>3, <1>4, <1>5, <1>6, <1>7, <1>8, <1>9, <1>10, <1>11,
       <1>12, <1>13, <1>14, <1>15, <1>16, <1>17, <1>18, <1>19
    DEF Next, Step, Faults, Terminating

LEMMA NextControl ==
    TypeInv /\ [Next]_vars => Exclusive' /\ \A v \in Workers : WorkerOK(v)' /\ DraftOK(v)'
<1> SUFFICES ASSUME TypeInv, [Next]_vars
             PROVE  Exclusive' /\ \A v \in Workers : WorkerOK(v)' /\ DraftOK(v)'
    OBVIOUS
<1> DEFINE Goal == Exclusive' /\ \A v \in Workers : WorkerOK(v)' /\ DraftOK(v)'
<1> USE JobAssumption, OutcomeAssumption, DistinctAssumption, RowAssumption
    DEF TypeInv, TypeOK, DataOK, Exclusive, WorkerOK, DraftOK, Busy, Statements,
        Commits, Payout, row
<1>1. ASSUME NEW w \in Workers, NEW m \in Messages, Take(w, m) PROVE Goal
    BY <1>1 DEF Take
<1>2. ASSUME NEW w \in Workers, Read(w) PROVE Goal
    BY <1>2 DEF Read, Goto, Gate, Statuses, Final
<1>3. ASSUME NEW w \in Workers, MarkProcessing(w) PROVE Goal
    BY <1>3 DEF MarkProcessing, Goto, Write
<1>4. ASSUME NEW w \in Workers, CommitPrepare(w) PROVE Goal
    BY <1>4 DEF CommitPrepare, Goto, Apply
<1>5. ASSUME NEW w \in Workers, CommitSkip(w) PROVE Goal
    BY <1>5 DEF CommitSkip, Goto
<1>6. ASSUME NEW w \in Workers, NEW o \in Outcomes, Execute(w, o) PROVE Goal
    BY <1>6 DEF Execute, Goto
<1>7. ASSUME NEW w \in Workers, Record(w) PROVE Goal
  <2>1. /\ pc' = [pc EXCEPT ![w] = "notify"] /\ pc[w] = "record"
        /\ UNCHANGED <<row, executions, ready, job, delivered, outcome>>
        /\ outcome[w] \in Outcomes
      BY <1>7 DEF Record, Goto
  <2>2. /\ draft'[w] # None
        /\ draft'[w].status = outcome[w]
        /\ outcome[w] = "failed" => draft'[w].reason = "rejected"
        /\ ~draft'[w].webhook
        /\ \A v \in Workers \ {w} : draft'[v] = draft[v]
    <3>1. PICK why \in Reasons :
            /\ draft' = [draft EXCEPT ![w] =
                   [status |-> outcome[w], reason |-> why, webhook |-> FALSE]]
            /\ outcome[w] = "failed" => why = "rejected"
      <4>1. reason[Payout(w)] \in Reasons
          BY <2>1
      <4>2. CASE outcome[w] = "succeeded"
          BY <1>7, <4>1, <4>2 DEF Record, Write
      <4>3. CASE outcome[w] = "failed"
          BY <1>7, <4>3 DEF Record, Write, Reasons
      <4> QED BY <2>1, <4>2, <4>3
    <3>2. [status |-> outcome[w], reason |-> why, webhook |-> FALSE] \in Rows
        BY <2>1 DEF Rows, Statuses, Final
    <3> QED BY <3>1, <3>2
  <2>3. ASSUME NEW v \in Workers PROVE WorkerOK(v)' /\ DraftOK(v)'
    <3>1. CASE v = w
        BY <2>1, <2>2, <3>1
    <3>2. CASE v # w
        BY <2>1, <2>2, <3>2
    <3> QED BY <3>1, <3>2
  <2> QED BY <2>1, <2>3
<1>8. ASSUME NEW w \in Workers, Notify(w) PROVE Goal
  <2>2. /\ draft'[w] # None
        /\ draft'[w].status = draft[w].status
        /\ draft'[w].reason = draft[w].reason
        /\ draft'[w].webhook <=> Payout(w) \in Subscribed
        /\ \A v \in Workers \ {w} : draft'[v] = draft[v]
      BY <1>8, NotifyWrites
  <2>3. pc' = [pc EXCEPT ![w] = "commitRecord"] /\ pc[w] = "notify"
      BY <1>8 DEF Notify, Goto
  <2>4. UNCHANGED <<row, executions, ready, job, delivered, outcome>>
      BY <1>8 DEF Notify
  <2>5. ASSUME NEW v \in Workers PROVE WorkerOK(v)' /\ DraftOK(v)'
    <3>1. CASE v = w
        BY <2>2, <2>3, <2>4, <3>1
    <3>2. CASE v # w
        BY <2>2, <2>3, <2>4, <3>2
    <3> QED BY <3>1, <3>2
  <2> QED BY <2>4, <2>5
<1>9. ASSUME NEW w \in Workers, CommitRecord(w) PROVE Goal
    BY <1>9 DEF CommitRecord, Goto, Apply
<1>10. ASSUME NEW w \in Workers, Ack(w) PROVE Goal
    BY <1>10 DEF Ack, Settle
<1>11. ASSUME NEW w \in Workers, Nack(w) PROVE Goal
    BY <1>11 DEF Nack, Settle, Held
<1>12. ASSUME NEW w \in Workers, Drop(w) PROVE Goal
    BY <1>12 DEF Drop, Settle
<1>13. ASSUME NEW w \in Workers, Start(w) PROVE Goal
    BY <1>13 DEF Start, Goto
<1>14. ASSUME NEW w \in Workers, StatementFails(w) PROVE Goal
    BY <1>14 DEF StatementFails, Rollback
<1>15. ASSUME NEW w \in Workers, CommitAckLost(w) PROVE Goal
    BY <1>15 DEF CommitAckLost, Apply
<1>16. ASSUME NEW w \in Workers, ProviderFails(w) PROVE Goal
    BY <1>16 DEF ProviderFails, Goto
<1>17. ASSUME NEW w \in Workers, Disconnect(w) PROVE Goal
    BY <1>17 DEF Disconnect
<1>18. ASSUME NEW w \in Workers, Stop(w) PROVE Goal
    BY <1>18 DEF Stop, Settle, Held
<1>19. CASE UNCHANGED vars
    BY <1>19 DEF vars
<1> QED
    BY <1>1, <1>2, <1>3, <1>4, <1>5, <1>6, <1>7, <1>8, <1>9, <1>10, <1>11,
       <1>12, <1>13, <1>14, <1>15, <1>16, <1>17, <1>18, <1>19
    DEF Next, Step, Faults, Terminating
LEMMA NextTypes == TypeInv /\ [Next]_vars => TypeInv'
BY NextData, NextControl DEF TypeInv, TypeOK

LEMMA TypeInvariance == Spec => []TypeInv
BY InitTypes, NextTypes, PTL DEF Spec

\* The type invariant holds in every behaviour: in particular a message in a
\* worker's hands is not in the queue, and a row is locked only by a worker in
\* the middle of one of its two transactions.
THEOREM TypesHold == Spec => []TypeOK
<1>1. TypeInv => TypeOK
    BY DEF TypeInv
<1> QED BY <1>1, TypeInvariance, PTL

----------------------------------------------------------------------------
(* Outcomes, and jobs that are not forgotten. *)

\* What worker w is about to record was answered for its payout, and what it
\* is about to acknowledge was tried.
BackedOK(w) ==
    /\ pc[w] \in {"record", "notify", "commitRecord"} =>
          outcome[w] \in Answers(executions[Payout(w)])
    /\ pc[w] \in {"commitSkip", "ack"} => executions[Payout(w)] # <<>>

OutcomeInv == TypeInv /\ OutcomeIsBacked /\ \A w \in Workers : BackedOK(w)

LEMMA AppendAnswers ==
    ASSUME NEW s \in Seq(Outcomes), NEW o \in Outcomes
    PROVE  Answers(Append(s, o)) = Answers(s) \cup {o} /\ Append(s, o) # <<>>
<1>1. /\ Append(s, o) \in Seq(Outcomes)
      /\ Len(Append(s, o)) = Len(s) + 1
      /\ Append(s, o)[Len(s) + 1] = o
      /\ \A i \in 1 .. Len(s) : Append(s, o)[i] = s[i]
      /\ Len(s) \in Nat
    OBVIOUS
<1>2. 1 .. Len(s) + 1 = (1 .. Len(s)) \cup {Len(s) + 1}
    BY <1>1
<1> QED BY <1>1, <1>2 DEF Answers

LEMMA NoAnswers == Answers(<<>>) = {}
BY DEF Answers

LEMMA InitOutcome == Init => OutcomeInv
<1>1. Init => OutcomeIsBacked /\ \A w \in Workers : BackedOK(w)
    BY DEF Init, OutcomeIsBacked, BackedOK, Final
<1> QED BY <1>1, InitTypes DEF OutcomeInv

\* A commit writes a status that was answered, or one that is not final.
LEMMA ApplyBacked ==
    ASSUME OutcomeInv, NEW w \in Workers, pc[w] \in Commits, Apply(w),
           UNCHANGED executions
    PROVE  OutcomeIsBacked'
<1> USE DEF OutcomeInv, OutcomeIsBacked
<1>1. CASE draft[w] = None
    BY <1>1 DEF Apply, row
<1>2. CASE draft[w] # None
  <2>1. /\ draft[w].status \in Final =>
              /\ draft[w].status \in Answers(executions[Payout(w)])
              /\ draft[w].status = "failed" => draft[w].reason = "rejected"
    BY <1>2
    DEF TypeInv, TypeOK, WorkerOK, DraftOK, BackedOK, Commits, Final
  <2>2. /\ status' = [status EXCEPT ![Payout(w)] = draft[w].status]
        /\ reason' = [reason EXCEPT ![Payout(w)] = draft[w].reason]
    BY <1>2 DEF Apply
  <2>3. status \in [Payouts -> Statuses] /\ reason \in [Payouts -> Reasons]
    BY DEF TypeInv, TypeOK, DataOK
  <2>4. ASSUME NEW p \in Payouts
        PROVE  /\ status'[p] \in Final => status'[p] \in Answers(executions[p])
               /\ status'[p] = "failed" => reason'[p] = "rejected"
    <3>1. CASE p = Payout(w)
        BY <2>1, <2>2, <2>3, <3>1 DEF Final
    <3>2. CASE p # Payout(w)
        BY <2>2, <2>3, <3>2
    <3> QED BY <3>1, <3>2
  <2> QED BY <2>4
<1> QED BY <1>1, <1>2

LEMMA NextOutcome == OutcomeInv /\ [Next]_vars => OutcomeInv'
<1> SUFFICES ASSUME OutcomeInv, [Next]_vars
             PROVE  OutcomeIsBacked' /\ \A v \in Workers : BackedOK(v)'
    BY NextTypes DEF OutcomeInv
<1> DEFINE Goal == OutcomeIsBacked' /\ \A v \in Workers : BackedOK(v)'
<1> USE OutcomeAssumption, DistinctAssumption, NoAnswers
    DEF OutcomeInv, TypeInv, TypeOK, DataOK, WorkerOK, DraftOK, BackedOK,
        OutcomeIsBacked, Busy, Statements, Commits, Payout, row
<1>1. ASSUME NEW w \in Workers, NEW m \in Messages, Take(w, m) PROVE Goal
    BY <1>1 DEF Take
<1>2. ASSUME NEW w \in Workers, Read(w) PROVE Goal
    BY <1>2 DEF Read, Goto, Gate, Statuses, Final
<1>3. ASSUME NEW w \in Workers, MarkProcessing(w) PROVE Goal
    BY <1>3 DEF MarkProcessing, Goto
<1>4. ASSUME NEW w \in Workers, CommitPrepare(w) PROVE Goal
  <2>1. OutcomeIsBacked'
      BY <1>4, ApplyBacked DEF CommitPrepare, Goto
  <2>2. \A v \in Workers : BackedOK(v)'
      BY <1>4 DEF CommitPrepare, Goto
  <2> QED BY <2>1, <2>2
<1>5. ASSUME NEW w \in Workers, CommitSkip(w) PROVE Goal
    BY <1>5 DEF CommitSkip, Goto
<1>6. ASSUME NEW w \in Workers, NEW o \in Outcomes, Execute(w, o) PROVE Goal
  <2>1. /\ Payout(w) \in Payouts
        /\ executions' = [executions EXCEPT ![Payout(w)] =
                             Append(executions[Payout(w)], o)]
        /\ outcome' = [outcome EXCEPT ![w] = o]
        /\ pc' = [pc EXCEPT ![w] = "record"]
        /\ UNCHANGED <<status, reason, job>>
      BY <1>6 DEF Execute, Goto
  <2>2. \A p \in Payouts :
          /\ Answers(executions[p]) \subseteq Answers(executions'[p])
          /\ executions[p] # <<>> => executions'[p] # <<>>
    <3> SUFFICES ASSUME NEW p \in Payouts
                 PROVE  /\ Answers(executions[p]) \subseteq Answers(executions'[p])
                        /\ executions[p] # <<>> => executions'[p] # <<>>
        OBVIOUS
    <3>1. executions[p] \in Seq(Outcomes)
        OBVIOUS
    <3>2. CASE p = Payout(w)
      <4>1. executions'[p] = Append(executions[p], o)
          BY <2>1, <3>2
      <4>2. /\ Answers(Append(executions[p], o)) = Answers(executions[p]) \cup {o}
            /\ Append(executions[p], o) # <<>>
          BY <3>1, AppendAnswers
      <4> QED BY <4>1, <4>2
    <3>3. CASE p # Payout(w)
        BY <2>1, <3>3
    <3> QED BY <3>2, <3>3
  <2>3. o \in Answers(executions'[Payout(w)])
      BY <2>1, AppendAnswers
  <2>4. OutcomeIsBacked'
      BY <2>1, <2>2
  <2>5. \A v \in Workers : BackedOK(v)'
    <3> SUFFICES ASSUME NEW v \in Workers PROVE BackedOK(v)'
        OBVIOUS
    <3>1. CASE v = w
        BY <2>1, <2>3, <3>1
    <3>2. CASE v # w
        BY <2>1, <2>2, <3>2
    <3> QED BY <3>1, <3>2
  <2> QED BY <2>4, <2>5
<1>7. ASSUME NEW w \in Workers, Record(w) PROVE Goal
    BY <1>7 DEF Record, Goto
<1>8. ASSUME NEW w \in Workers, Notify(w) PROVE Goal
    BY <1>8 DEF Notify, Goto
<1>9. ASSUME NEW w \in Workers, CommitRecord(w) PROVE Goal
  <2>1. OutcomeIsBacked'
      BY <1>9, ApplyBacked DEF CommitRecord, Goto
  <2>2. \A v \in Workers : BackedOK(v)'
      BY <1>9 DEF CommitRecord, Goto
  <2> QED BY <2>1, <2>2
<1>10. ASSUME NEW w \in Workers, Ack(w) PROVE Goal
    BY <1>10 DEF Ack, Settle
<1>11. ASSUME NEW w \in Workers, Nack(w) PROVE Goal
    BY <1>11 DEF Nack, Settle, Held
<1>12. ASSUME NEW w \in Workers, Drop(w) PROVE Goal
    BY <1>12 DEF Drop, Settle
<1>13. ASSUME NEW w \in Workers, Start(w) PROVE Goal
    BY <1>13 DEF Start, Goto
<1>14. ASSUME NEW w \in Workers, StatementFails(w) PROVE Goal
    BY <1>14 DEF StatementFails
<1>15. ASSUME NEW w \in Workers, CommitAckLost(w) PROVE Goal
  <2>1. OutcomeIsBacked'
      BY <1>15, ApplyBacked DEF CommitAckLost
  <2>2. \A v \in Workers : BackedOK(v)'
      BY <1>15 DEF CommitAckLost
  <2> QED BY <2>1, <2>2
<1>16. ASSUME NEW w \in Workers, ProviderFails(w) PROVE Goal
    BY <1>16 DEF ProviderFails, Goto
<1>17. ASSUME NEW w \in Workers, Disconnect(w) PROVE Goal
    BY <1>17 DEF Disconnect
<1>18. ASSUME NEW w \in Workers, Stop(w) PROVE Goal
    BY <1>18 DEF Stop, Settle, Held
<1>19. CASE UNCHANGED vars
    BY <1>19 DEF vars
<1> QED
    BY <1>1, <1>2, <1>3, <1>4, <1>5, <1>6, <1>7, <1>8, <1>9, <1>10, <1>11,
       <1>12, <1>13, <1>14, <1>15, <1>16, <1>17, <1>18, <1>19
    DEF Next, Step, Faults, Terminating

LEMMA OutcomeInvariance == Spec => []OutcomeInv
BY InitOutcome, NextOutcome, PTL DEF Spec

\* A final status is one the provider reported for the payout, and a failure
\* has its reason, whatever workers, redeliveries and faults race.
THEOREM OutcomesAreBacked == Spec => []OutcomeIsBacked
<1>1. OutcomeInv => OutcomeIsBacked
    BY DEF OutcomeInv
<1> QED BY <1>1, OutcomeInvariance, PTL
----------------------------------------------------------------------------
LEMMA InitForgotten == Init => NoPayoutForgotten
BY PublishedAssumption DEF Init, NoPayoutForgotten, Alive

\* An untried payout stays untried only in a step that executes another, and
\* its message leaves the queue and the workers' hands only acknowledged.
LEMMA UntriedStaysAlive ==
    ASSUME OutcomeInv, [Next]_vars, NEW p \in Payouts, executions'[p] = <<>>,
           NEW m \in Messages, JobOf[m] = p, executions[p] = <<>> => Alive(m)
    PROVE  Alive(m)'
<1>1. executions[p] = <<>>
  <2>1. CASE UNCHANGED executions
    BY <2>1
  <2>2. ASSUME NEW w \in Workers, NEW o \in Outcomes, Execute(w, o)
        PROVE  executions[p] = <<>>
    BY <2>2, AppendAnswers DEF Execute, OutcomeInv, TypeInv, TypeOK, DataOK
  <2> QED
    BY <2>1, <2>2
    DEF Next, Step, Faults, Terminating, vars, Take, Read, MarkProcessing,
        CommitPrepare, CommitSkip, Record, Notify, CommitRecord, Ack, Nack, Drop,
        Start, StatementFails, CommitAckLost, ProviderFails, Disconnect, Stop
<1>2. Alive(m)
    BY <1>1
<1> USE <1>2 DEF OutcomeInv, TypeInv, TypeOK, DataOK, WorkerOK, Alive, Held
<1>3. CASE UNCHANGED <<ready, job, delivered>>
    BY <1>3
<1>4. ASSUME NEW w \in Workers, NEW n \in Messages, Take(w, n) PROVE Alive(m)'
  <2>1. ~delivered[w]
      BY <1>4 DEF Take, Busy, Statements, Commits
  <2>2. /\ job' = [job EXCEPT ![w] = n] /\ delivered' = [delivered EXCEPT ![w] = TRUE]
        /\ ready' = ready \ {n}
      BY <1>4 DEF Take
  <2>3. job'[w] = n /\ delivered'[w]
      BY <2>2
  <2>4. \A v \in Workers \ {w} : job'[v] = job[v] /\ delivered'[v] = delivered[v]
      BY <2>2
  <2>5. CASE m \in ready
      BY <2>2, <2>3, <2>5
  <2>6. ASSUME NEW v \in Workers, m \in Held(v) PROVE Alive(m)'
      BY <2>1, <2>4, <2>6
  <2> QED BY <2>5, <2>6
<1>5. ASSUME NEW w \in Workers, Ack(w) PROVE Alive(m)'
    BY <1>1, <1>5 DEF Ack, Settle, BackedOK, Payout
<1>6. ASSUME NEW w \in Workers, Nack(w) PROVE Alive(m)'
    BY <1>6 DEF Nack, Settle
<1>7. ASSUME NEW w \in Workers, Drop(w) PROVE Alive(m)'
  <2>1. job[w] # m
      BY <1>7, DistinctAssumption DEF Drop, DraftOK, Payout
  <2>2. /\ \A v \in Workers \ {w} : job'[v] = job[v] /\ delivered'[v] = delivered[v]
        /\ ready' = ready
      BY <1>7 DEF Drop, Settle
  <2> QED BY <2>1, <2>2
<1>8. ASSUME NEW w \in Workers, Disconnect(w) PROVE Alive(m)'
    BY <1>8 DEF Disconnect
<1>9. ASSUME NEW w \in Workers, Stop(w) PROVE Alive(m)'
    BY <1>9 DEF Stop, Settle
<1> QED
    BY <1>3, <1>4, <1>5, <1>6, <1>7, <1>8, <1>9
    DEF Next, Step, Faults, Terminating, vars, Read, MarkProcessing,
        CommitPrepare, CommitSkip, Execute, Record, Notify, CommitRecord, Start,
        StatementFails, CommitAckLost, ProviderFails

LEMMA NextForgotten ==
    ASSUME OutcomeInv, NoPayoutForgotten, [Next]_vars
    PROVE  NoPayoutForgotten'
<1> SUFFICES ASSUME NEW p \in Payouts, executions'[p] = <<>>
             PROVE  \E m \in Messages : JobOf[m] = p /\ Alive(m)'
    BY DEF NoPayoutForgotten
<1>1. \E m \in Messages : JobOf[m] = p /\ (executions[p] = <<>> => Alive(m))
    BY PublishedAssumption DEF NoPayoutForgotten
<1> QED BY <1>1, UntriedStaysAlive

\* A payout that was never tried has a message that will be delivered.
THEOREM NothingIsForgotten == Spec => []NoPayoutForgotten
BY InitForgotten, NextForgotten, OutcomeInvariance, PTL DEF Spec

----------------------------------------------------------------------------
\* A worker that has a settled payout reads, skips or refuses it, and a new
\* one begins by reading.
LEMMA SettledStep ==
    ASSUME TypeInv, [Next]_vars, NEW p \in Payouts, Settled(p)
    PROVE  /\ Settled(p)'
           /\ UNCHANGED <<status[p], reason[p], webhooks[p], executions[p]>>
<1> DEFINE Goal ==
        /\ Settled(p)'
        /\ UNCHANGED <<status[p], reason[p], webhooks[p], executions[p]>>
<1> USE JobAssumption, DistinctAssumption
    DEF TypeInv, TypeOK, DataOK, WorkerOK, Settled, Works, Payout, row
<1>1. ASSUME NEW w \in Workers, NEW m \in Messages, Take(w, m) PROVE Goal
    BY <1>1 DEF Take
<1>2. ASSUME NEW w \in Workers, Read(w) PROVE Goal
    BY <1>2 DEF Read, Goto, Gate, Final
<1>3. ASSUME NEW w \in Workers, MarkProcessing(w) PROVE Goal
    BY <1>3 DEF MarkProcessing, Goto
<1>4. ASSUME NEW w \in Workers, CommitPrepare(w) PROVE Goal
    BY <1>4 DEF CommitPrepare, Goto, Apply
<1>5. ASSUME NEW w \in Workers, CommitSkip(w) PROVE Goal
    BY <1>5 DEF CommitSkip, Goto
<1>6. ASSUME NEW w \in Workers, NEW o \in Outcomes, Execute(w, o) PROVE Goal
    BY <1>6 DEF Execute, Goto
<1>7. ASSUME NEW w \in Workers, Record(w) PROVE Goal
    BY <1>7 DEF Record, Goto
<1>8. ASSUME NEW w \in Workers, Notify(w) PROVE Goal
    BY <1>8 DEF Notify, Goto
<1>9. ASSUME NEW w \in Workers, CommitRecord(w) PROVE Goal
    BY <1>9 DEF CommitRecord, Goto, Apply
<1>10. ASSUME NEW w \in Workers, Ack(w) PROVE Goal
    BY <1>10 DEF Ack, Settle
<1>11. ASSUME NEW w \in Workers, Nack(w) PROVE Goal
    BY <1>11 DEF Nack, Settle, Held
<1>12. ASSUME NEW w \in Workers, Drop(w) PROVE Goal
    BY <1>12 DEF Drop, Settle
<1>13. ASSUME NEW w \in Workers, Start(w) PROVE Goal
    BY <1>13 DEF Start, Goto
<1>14. ASSUME NEW w \in Workers, StatementFails(w) PROVE Goal
    BY <1>14 DEF StatementFails
<1>15. ASSUME NEW w \in Workers, CommitAckLost(w) PROVE Goal
    BY <1>15 DEF CommitAckLost, Commits, Apply
<1>16. ASSUME NEW w \in Workers, ProviderFails(w) PROVE Goal
    BY <1>16 DEF ProviderFails, Goto
<1>17. ASSUME NEW w \in Workers, Disconnect(w) PROVE Goal
    BY <1>17 DEF Disconnect
<1>18. ASSUME NEW w \in Workers, Stop(w) PROVE Goal
    BY <1>18 DEF Stop, Settle, Held
<1>19. CASE UNCHANGED vars
    BY <1>19 DEF vars
<1> QED
    BY <1>1, <1>2, <1>3, <1>4, <1>5, <1>6, <1>7, <1>8, <1>9, <1>10, <1>11,
       <1>12, <1>13, <1>14, <1>15, <1>16, <1>17, <1>18, <1>19
    DEF Next, Step, Faults, Terminating

\* Delivering the message of a settled payout again changes nothing.
THEOREM RedeliveriesAreHarmless == Spec => RedeliveryIsHarmless
<1>1. TypeInv /\ [Next]_vars =>
        [\A p \in Payouts : Settled(p) =>
            /\ Settled(p)'
            /\ UNCHANGED <<status[p], reason[p], webhooks[p], executions[p]>>]_vars
    BY SettledStep
<1> QED BY <1>1, TypeInvariance, PTL DEF Spec, RedeliveryIsHarmless
----------------------------------------------------------------------------
(* Webhooks. *)

\* The workers that have an answer about p and have not recorded it.
Recording(p) ==
    {w \in Workers : pc[w] \in {"record", "notify", "commitRecord"} /\ Payout(w) = p}

Announces ==
    \A p \in Payouts :
        /\ p \in Subscribed /\ status[p] \in Final =>
              /\ webhooks[p] # <<>>
              /\ webhooks[p][Len(webhooks[p])] =
                    [status |-> status[p], reason |-> reason[p]]
        /\ p \notin Subscribed => webhooks[p] = <<>>

\* Each webhook event is paid for by an answer that nobody will record again.
Counted(p) ==
    Len(webhooks[p]) + Cardinality(Recording(p)) <= Len(executions[p])

WebhookInv == OutcomeInv /\ Announces /\ \A p \in Payouts : Counted(p)

LEMMA RecordingIsFinite ==
    ASSUME NEW p \in Payouts
    PROVE  IsFiniteSet(Recording(p)) /\ Cardinality(Recording(p)) \in Nat
BY WorkersAssumption, FS_Subset, FS_CardinalityType DEF Recording

LEMMA InitWebhook == Init => WebhookInv
<1> SUFFICES ASSUME Init PROVE Announces /\ \A p \in Payouts : Counted(p)
    BY InitOutcome DEF WebhookInv
<1>1. Announces
    BY DEF Init, Announces, Final
<1>2. ASSUME NEW p \in Payouts PROVE Counted(p)
  <2>1. Recording(p) = {}
    BY DEF Init, Recording
  <2> QED BY <2>1, FS_EmptySet DEF Init, Counted
<1> QED BY <1>1, <1>2

LEMMA ApplyAnnounces ==
    ASSUME OutcomeInv, Announces, NEW w \in Workers, pc[w] \in Commits, Apply(w)
    PROVE  Announces'
<1>1. CASE draft[w] = None
    BY <1>1 DEF Apply, Announces, row
<1>2. CASE draft[w] # None
  <2> DEFINE q == Payout(w)
             note == [status |-> draft[w].status, reason |-> draft[w].reason]
  <2>1. /\ q \in Payouts
        /\ draft[w].webhook => q \in Subscribed
        /\ draft[w].status \in Final /\ q \in Subscribed => draft[w].webhook
    BY <1>2
    DEF OutcomeInv, TypeInv, TypeOK, WorkerOK, DraftOK, Commits, Busy, Statements, Final
  <2>2. /\ status' = [status EXCEPT ![q] = draft[w].status]
        /\ reason' = [reason EXCEPT ![q] = draft[w].reason]
        /\ webhooks' = IF draft[w].webhook
              THEN [webhooks EXCEPT ![q] = Append(webhooks[q], note)]
              ELSE webhooks
    BY <1>2 DEF Apply
  <2>3. /\ status \in [Payouts -> Statuses] /\ reason \in [Payouts -> Reasons]
        /\ webhooks \in [Payouts -> Seq([status : Final, reason : Reasons])]
    BY DEF OutcomeInv, TypeInv, TypeOK, DataOK
  <2>4. ASSUME draft[w].webhook
        PROVE  /\ webhooks'[q] # <<>>
               /\ webhooks'[q][Len(webhooks'[q])] = note
    <3>1. webhooks'[q] = Append(webhooks[q], note)
        BY <2>1, <2>2, <2>3, <2>4
    <3>2. webhooks[q] \in Seq([status : Final, reason : Reasons])
        BY <2>1, <2>3
    <3> HIDE DEF note
    <3>3. /\ Len(Append(webhooks[q], note)) = Len(webhooks[q]) + 1
          /\ Append(webhooks[q], note)[Len(webhooks[q]) + 1] = note
          /\ Len(webhooks[q]) \in Nat
        BY <3>2
    <3>4. Append(webhooks[q], note) # <<>>
        BY <3>3
    <3> QED BY <3>1, <3>3, <3>4
  <2> SUFFICES ASSUME NEW p \in Payouts
               PROVE  /\ p \in Subscribed /\ status'[p] \in Final =>
                            /\ webhooks'[p] # <<>>
                            /\ webhooks'[p][Len(webhooks'[p])] =
                                  [status |-> status'[p], reason |-> reason'[p]]
                      /\ p \notin Subscribed => webhooks'[p] = <<>>
      BY DEF Announces
  <2>5. CASE p = q
    <3>1. status'[q] = draft[w].status /\ reason'[q] = draft[w].reason
        BY <2>1, <2>2, <2>3
    <3>2. q \notin Subscribed => webhooks'[q] = <<>>
        BY <2>1, <2>2 DEF Announces
    <3> QED BY <2>1, <2>4, <2>5, <3>1, <3>2
  <2>6. CASE p # q
    <3>1. status'[p] = status[p] /\ reason'[p] = reason[p] /\ webhooks'[p] = webhooks[p]
        BY <2>2, <2>3, <2>6
    <3> QED BY <3>1 DEF Announces
  <2> QED BY <2>5, <2>6
<1> QED BY <1>1, <1>2

LEMMA NextAnnounces ==
    ASSUME OutcomeInv, Announces, [Next]_vars
    PROVE  Announces'
<1>1. CASE UNCHANGED row
    BY <1>1 DEF Announces, row
<1>2. ASSUME NEW w \in Workers,
             CommitPrepare(w) \/ CommitRecord(w) \/ CommitAckLost(w)
      PROVE  Announces'
    BY <1>2, ApplyAnnounces
    DEF CommitPrepare, CommitRecord, CommitAckLost, Goto, Commits
<1> QED
    BY <1>1, <1>2
    DEF Next, Step, Faults, Terminating, vars, Take, Read, MarkProcessing,
        CommitSkip, Execute, Record, Notify, Ack, Nack, Drop, Start,
        StatementFails, ProviderFails, Disconnect, Stop
\* The three ways in which a step moves what is counted.
LEMMA CountKept ==
    ASSUME OutcomeInv, NEW p \in Payouts, Counted(p), OutcomeInv',
           Recording(p)' \subseteq Recording(p),
           UNCHANGED <<webhooks[p], executions[p]>>
    PROVE  Counted(p)'
<1>1. Cardinality(Recording(p)') <= Cardinality(Recording(p))
    BY RecordingIsFinite, FS_Subset
<1>2. /\ Len(webhooks[p]) \in Nat /\ Len(executions[p]) \in Nat
      /\ Cardinality(Recording(p)) \in Nat /\ Cardinality(Recording(p)') \in Nat
  <2>1. IsFiniteSet(Recording(p)')
      BY RecordingIsFinite, FS_Subset
  <2> QED
      BY <2>1, RecordingIsFinite, FS_CardinalityType
      DEF OutcomeInv, TypeInv, TypeOK, DataOK
<1> QED BY <1>1, <1>2 DEF Counted

LEMMA CountRecorded ==
    ASSUME OutcomeInv, NEW p \in Payouts, Counted(p), NEW w \in Recording(p),
           Recording(p)' = Recording(p) \ {w},
           UNCHANGED executions[p], Len(webhooks[p])' \in Nat,
           Len(webhooks[p])' <= Len(webhooks[p]) + 1
    PROVE  Counted(p)'
<1>1. Cardinality(Recording(p)') = Cardinality(Recording(p)) - 1
    BY RecordingIsFinite, FS_RemoveElement
<1>2. /\ Len(webhooks[p]) \in Nat /\ Len(executions[p]) \in Nat
      /\ Cardinality(Recording(p)) \in Nat
    BY RecordingIsFinite DEF OutcomeInv, TypeInv, TypeOK, DataOK
<1> QED BY <1>1, <1>2 DEF Counted

LEMMA CountExecuted ==
    ASSUME OutcomeInv, NEW p \in Payouts, Counted(p),
           NEW w \in Workers, NEW o \in Outcomes,
           Recording(p)' = Recording(p) \cup {w}, w \notin Recording(p),
           UNCHANGED webhooks[p], executions'[p] = Append(executions[p], o)
    PROVE  Counted(p)'
<1>1. Cardinality(Recording(p)') = Cardinality(Recording(p)) + 1
    BY RecordingIsFinite, FS_AddElement
<1>2. /\ Len(webhooks[p]) \in Nat /\ executions[p] \in Seq(Outcomes)
      /\ Cardinality(Recording(p)) \in Nat
    BY RecordingIsFinite DEF OutcomeInv, TypeInv, TypeOK, DataOK
<1>3. Len(executions'[p]) = Len(executions[p]) + 1 /\ Len(executions[p]) \in Nat
    BY <1>2
<1> QED BY <1>1, <1>2, <1>3 DEF Counted

LEMMA NextCounted ==
    ASSUME OutcomeInv, [Next]_vars, NEW p \in Payouts, Counted(p)
    PROVE  Counted(p)'
<1>0. OutcomeInv'
    BY NextOutcome
<1> USE DEF OutcomeInv, TypeInv, TypeOK, DataOK
<1>1. CASE UNCHANGED vars
    BY <1>0, <1>1, CountKept DEF vars, row, Recording, Payout
<1>2. ASSUME NEW w \in Workers,
             UNCHANGED <<webhooks, executions>>,
             \A v \in Workers \ {w} : UNCHANGED <<pc[v], job[v]>>,
             \/ pc'[w] \notin {"record", "notify", "commitRecord"}
             \/ pc[w] \in {"record", "notify"} /\ UNCHANGED job[w]
      PROVE  Counted(p)'
  <2>1. Recording(p)' \subseteq Recording(p)
      BY <1>2 DEF Recording, Payout
  <2> QED BY <1>0, <1>2, <2>1, CountKept
<1>3. ASSUME NEW w \in Workers, NEW o \in Outcomes, Execute(w, o)
      PROVE  Counted(p)'
  <2>1. CASE Payout(w) = p
    <3>1. /\ Recording(p)' = Recording(p) \cup {w} /\ w \notin Recording(p)
          /\ UNCHANGED webhooks[p]
        BY <1>3, <2>1 DEF Execute, Goto, Recording, Payout, row
    <3>2. executions'[p] = Append(executions[p], o)
        BY <1>3, <2>1 DEF Execute
    <3> QED BY <3>1, <3>2, CountExecuted
  <2>2. CASE Payout(w) # p
    <3>1. /\ Recording(p)' \subseteq Recording(p)
          /\ UNCHANGED <<webhooks[p], executions[p]>>
        BY <1>3, <2>2 DEF Execute, Goto, Recording, Payout, row
    <3> QED BY <1>0, <3>1, CountKept
  <2> QED BY <2>1, <2>2
<1>4. ASSUME NEW w \in Workers, pc[w] \in Commits, Apply(w),
             UNCHANGED <<executions, job>>,
             \A v \in Workers \ {w} : UNCHANGED pc[v],
             pc'[w] \in {"execute", "ack", "nack"}
      PROVE  Counted(p)'
  <2>1. CASE pc[w] = "commitRecord" /\ Payout(w) = p
    <3>1. w \in Recording(p) /\ Recording(p)' = Recording(p) \ {w}
        BY <1>4, <2>1 DEF Recording, Payout
    <3>2. Len(webhooks[p])' \in Nat /\ Len(webhooks[p])' <= Len(webhooks[p]) + 1
      <4> DEFINE note == [status |-> draft[w].status, reason |-> draft[w].reason]
                 Notes == [status : Final, reason : Reasons]
      <4>1. \/ webhooks'[p] = webhooks[p]
            \/ webhooks'[p] = Append(webhooks[p], note)
          BY <1>4, <2>1 DEF Apply, row
      <4>2. webhooks[p] \in Seq(Notes)
          OBVIOUS
      <4> HIDE DEF note, Notes
      <4> QED BY <4>1, <4>2
    <3> QED BY <1>4, <3>1, <3>2, CountRecorded
  <2>2. CASE ~(pc[w] = "commitRecord" /\ Payout(w) = p)
    <3>1. Recording(p)' \subseteq Recording(p)
        BY <1>4 DEF Recording, Payout
    <3>2. webhooks'[p] = webhooks[p]
        BY <1>4, <2>2
        DEF Apply, row, DraftOK, WorkerOK, Commits, Busy, Statements
    <3> QED BY <1>0, <1>4, <3>1, <3>2, CountKept
  <2> QED BY <2>1, <2>2
<1>5. ASSUME NEW w \in Workers, Step(w) \/ Faults(w) \/ \E m \in Messages : Take(w, m)
      PROVE  Counted(p)'
  <2>1. CASE CommitPrepare(w) \/ CommitRecord(w) \/ CommitAckLost(w)
      BY <1>4, <2>1 DEF CommitPrepare, CommitRecord, CommitAckLost, Goto, Commits
  <2>2. CASE Record(w) \/ Notify(w)
      BY <1>2, <2>2 DEF Record, Notify, Goto, row
  <2>3. CASE Read(w)
    <3>1. Gate(status[Payout(w)]) \in {"markProcessing", "commitPrepare", "commitSkip", "nack"}
        BY <2>3 DEF Read, Goto, WorkerOK, Gate, Statuses, Final, Busy, Statements
    <3> QED BY <1>2, <2>3, <3>1 DEF Read, Goto, row
  <2>4. CASE \E m \in Messages : Take(w, m)
      BY <1>2, <2>4 DEF Take, row
  <2>5. CASE MarkProcessing(w) \/ CommitSkip(w) \/ Start(w)
      BY <1>2, <2>5 DEF MarkProcessing, CommitSkip, Start, Goto, row
  <2>6. CASE Ack(w) \/ Nack(w) \/ Drop(w) \/ Stop(w)
      BY <1>2, <2>6 DEF Ack, Nack, Drop, Stop, Settle, row
  <2>7. CASE StatementFails(w) \/ ProviderFails(w)
      BY <1>2, <2>7 DEF StatementFails, ProviderFails, Goto, row
  <2>8. CASE Disconnect(w)
    <3>1. Recording(p)' \subseteq Recording(p)
        BY <2>8 DEF Disconnect, Recording, Payout
    <3> QED BY <1>0, <2>8, <3>1, CountKept DEF Disconnect, row
  <2> QED
      BY <1>3, <1>5, <2>1, <2>2, <2>3, <2>4, <2>5, <2>6, <2>7, <2>8
      DEF Step, Faults
<1> QED BY <1>1, <1>5 DEF Next, Terminating

LEMMA NextWebhook == WebhookInv /\ [Next]_vars => WebhookInv'
BY NextOutcome, NextAnnounces, NextCounted DEF WebhookInv

LEMMA WebhookInvariance == Spec => []WebhookInv
BY InitWebhook, NextWebhook, PTL DEF Spec

\* The last webhook event of a payout in a final status tells that status and
\* its reason, and no event was made without an answer of the provider.
THEOREM WebhooksTellOutcomes == Spec => []WebhookTellsOutcome
<1>1. WebhookInv => WebhookTellsOutcome
  <2> SUFFICES ASSUME WebhookInv, NEW p \in Payouts
               PROVE  Len(webhooks[p]) <= Len(executions[p])
      BY DEF WebhookInv, WebhookTellsOutcome, Announces
  <2>1. /\ Len(webhooks[p]) \in Nat /\ Len(executions[p]) \in Nat
        /\ Cardinality(Recording(p)) \in Nat
      BY RecordingIsFinite DEF WebhookInv, OutcomeInv, TypeInv, TypeOK, DataOK
  <2> QED BY <2>1 DEF WebhookInv, Counted
<1> QED BY <1>1, WebhookInvariance, PTL

----------------------------------------------------------------------------
(* How often a payout is paid. *)

MessagesOf(p) == {m \in Messages : JobOf[m] = p}
Waiting(p) == {m \in ready : JobOf[m] = p}

\* The workers that may still ask the provider to pay p, or put its message back.
Trying(p) ==
    {w \in Workers : /\ pc[w] \in {"read", "markProcessing", "commitPrepare", "execute", "nack"}
                     /\ Payout(w) = p}

\* A message is one right to pay, wherever it is, and a fault is another.
Tried(p) ==
    Len(executions[p]) + Cardinality(Waiting(p)) + Cardinality(Trying(p))
        <= Cardinality(MessagesOf(p)) + faults

TriedInv == OutcomeInv /\ \A p \in Payouts : Tried(p)

LEMMA TriedTypes ==
    ASSUME TypeOK, NEW p \in Payouts
    PROVE  /\ IsFiniteSet(Waiting(p)) /\ Cardinality(Waiting(p)) \in Nat
           /\ IsFiniteSet(Trying(p)) /\ Cardinality(Trying(p)) \in Nat
           /\ Cardinality(MessagesOf(p)) \in Nat
           /\ Len(executions[p]) \in Nat /\ faults \in Nat
<1>1. Waiting(p) \in SUBSET Messages /\ MessagesOf(p) \in SUBSET Messages
    BY DEF Waiting, MessagesOf, TypeOK, DataOK
<1>2. IsFiniteSet(Waiting(p)) /\ IsFiniteSet(MessagesOf(p))
    BY <1>1, MessagesAssumption, FS_Subset
<1>3. IsFiniteSet(Trying(p))
    BY WorkersAssumption, FS_Subset DEF Trying
<1>4. Len(executions[p]) \in Nat /\ faults \in Nat
    BY BoundAssumption DEF TypeOK, DataOK
<1> QED BY <1>2, <1>3, <1>4, FS_CardinalityType

LEMMA Grown ==
    ASSUME NEW S, IsFiniteSet(S), NEW x, NEW T, T \subseteq S \cup {x}
    PROVE  Cardinality(T) <= Cardinality(S) + 1
<1>0. Cardinality(S) \in Nat
    BY FS_CardinalityType
<1>1. IsFiniteSet(S \cup {x}) /\ Cardinality(S \cup {x}) <= Cardinality(S) + 1
  <2>1. /\ IsFiniteSet(S \cup {x})
        /\ Cardinality(S \cup {x}) =
              IF x \in S THEN Cardinality(S) ELSE Cardinality(S) + 1
      BY FS_AddElement
  <2> QED BY <1>0, <2>1
<1>2. Cardinality(T) <= Cardinality(S \cup {x}) /\ IsFiniteSet(T)
    BY <1>1, FS_Subset
<1>3. Cardinality(T) \in Nat /\ Cardinality(S \cup {x}) \in Nat
    BY <1>1, <1>2, FS_CardinalityType
<1> QED BY <1>0, <1>1, <1>2, <1>3

LEMMA Shrunk ==
    ASSUME NEW S, IsFiniteSet(S), NEW x \in S, NEW T, T \subseteq S \ {x}
    PROVE  Cardinality(T) <= Cardinality(S) - 1
<1>1. IsFiniteSet(S \ {x}) /\ Cardinality(S \ {x}) = Cardinality(S) - 1
    BY FS_RemoveElement
<1>2. Cardinality(T) <= Cardinality(S \ {x})
    BY <1>1, FS_Subset
<1> QED BY <1>1, <1>2

\* The five ways in which a step moves what is counted: it uses a right up,
LEMMA TriedKept ==
    ASSUME TypeOK, TypeOK', NEW p \in Payouts, Tried(p),
           Waiting(p)' \subseteq Waiting(p), Trying(p)' \subseteq Trying(p),
           UNCHANGED executions[p], faults <= faults'
    PROVE  Tried(p)'
<1>1. /\ Cardinality(Waiting(p)') <= Cardinality(Waiting(p))
      /\ Cardinality(Trying(p)') <= Cardinality(Trying(p))
    BY TriedTypes, FS_Subset
<1>2. IsFiniteSet(Waiting(p)') /\ IsFiniteSet(Trying(p)')
    BY TriedTypes, FS_Subset
<1>3. Cardinality(Waiting(p)') \in Nat /\ Cardinality(Trying(p)') \in Nat
    BY <1>2, FS_CardinalityType
<1>4. faults' \in Nat
    BY BoundAssumption DEF TypeOK, DataOK
<1> QED BY <1>1, <1>3, <1>4, TriedTypes DEF Tried, MessagesOf

\* takes a message from the queue,
LEMMA TriedTaken ==
    ASSUME TypeOK, TypeOK', NEW p \in Payouts, Tried(p), NEW w, NEW m \in Waiting(p),
           Waiting(p)' \subseteq Waiting(p) \ {m}, Trying(p)' \subseteq Trying(p) \cup {w},
           UNCHANGED <<executions[p], faults>>
    PROVE  Tried(p)'
<1>1. /\ Cardinality(Waiting(p)') <= Cardinality(Waiting(p)) - 1
      /\ Cardinality(Trying(p)') <= Cardinality(Trying(p)) + 1
    BY TriedTypes, Grown, Shrunk
<1>2. IsFiniteSet(Waiting(p)') /\ IsFiniteSet(Trying(p)')
    BY TriedTypes, FS_Subset, FS_AddElement, FS_RemoveElement
<1>3. Cardinality(Waiting(p)') \in Nat /\ Cardinality(Trying(p)') \in Nat
    BY <1>2, FS_CardinalityType
<1> QED BY <1>1, <1>3, TriedTypes DEF Tried, MessagesOf

\* puts one back,
LEMMA TriedPutBack ==
    ASSUME TypeOK, TypeOK', NEW p \in Payouts, Tried(p), NEW w \in Trying(p), NEW m,
           Waiting(p)' \subseteq Waiting(p) \cup {m}, Trying(p)' \subseteq Trying(p) \ {w},
           UNCHANGED <<executions[p], faults>>
    PROVE  Tried(p)'
<1>1. /\ Cardinality(Waiting(p)') <= Cardinality(Waiting(p)) + 1
      /\ Cardinality(Trying(p)') <= Cardinality(Trying(p)) - 1
    BY TriedTypes, Grown, Shrunk
<1>2. IsFiniteSet(Waiting(p)') /\ IsFiniteSet(Trying(p)')
    BY TriedTypes, FS_Subset, FS_AddElement, FS_RemoveElement
<1>3. Cardinality(Waiting(p)') \in Nat /\ Cardinality(Trying(p)') \in Nat
    BY <1>2, FS_CardinalityType
<1> QED BY <1>1, <1>3, TriedTypes DEF Tried, MessagesOf

\* pays,
LEMMA TriedPaid ==
    ASSUME TypeOK, TypeOK', NEW p \in Payouts, Tried(p), NEW w \in Trying(p),
           NEW o \in Outcomes, executions'[p] = Append(executions[p], o),
           Waiting(p)' \subseteq Waiting(p), Trying(p)' \subseteq Trying(p) \ {w},
           UNCHANGED faults
    PROVE  Tried(p)'
<1>1. /\ Cardinality(Waiting(p)') <= Cardinality(Waiting(p))
      /\ Cardinality(Trying(p)') <= Cardinality(Trying(p)) - 1
    BY TriedTypes, Shrunk, FS_Subset
<1>2. IsFiniteSet(Waiting(p)') /\ IsFiniteSet(Trying(p)')
    BY TriedTypes, FS_Subset, FS_RemoveElement
<1>3. Cardinality(Waiting(p)') \in Nat /\ Cardinality(Trying(p)') \in Nat
    BY <1>2, FS_CardinalityType
<1>4. executions[p] \in Seq(Outcomes)
    BY DEF TypeOK, DataOK
<1>5. Len(executions'[p]) = Len(executions[p]) + 1
    BY <1>4
<1> QED BY <1>1, <1>3, <1>5, TriedTypes DEF Tried, MessagesOf

\* or is a fault, which gives a worker or the queue a right.
LEMMA TriedFault ==
    ASSUME TypeOK, TypeOK', NEW p \in Payouts, Tried(p), NEW w, NEW m,
           \/ Waiting(p)' \subseteq Waiting(p) /\ Trying(p)' \subseteq Trying(p) \cup {w}
           \/ Waiting(p)' \subseteq Waiting(p) \cup {m} /\ Trying(p)' \subseteq Trying(p),
           UNCHANGED executions[p], Fault
    PROVE  Tried(p)'
<1>1. Waiting(p) \subseteq Waiting(p) \cup {m} /\ Trying(p) \subseteq Trying(p) \cup {w}
    OBVIOUS
<1>2. IsFiniteSet(Waiting(p) \cup {m}) /\ IsFiniteSet(Trying(p) \cup {w})
    BY TriedTypes, FS_AddElement
<1>3. IsFiniteSet(Waiting(p)') /\ IsFiniteSet(Trying(p)')
  <2>1. Waiting(p)' \subseteq Waiting(p) \cup {m} /\ Trying(p)' \subseteq Trying(p) \cup {w}
      BY <1>1
  <2> QED BY <1>2, <2>1, FS_Subset
<1>4. Cardinality(Waiting(p)') \in Nat /\ Cardinality(Trying(p)') \in Nat
    BY <1>3, FS_CardinalityType
<1>5. \/ /\ Cardinality(Waiting(p)') <= Cardinality(Waiting(p))
         /\ Cardinality(Trying(p)') <= Cardinality(Trying(p)) + 1
      \/ /\ Cardinality(Waiting(p)') <= Cardinality(Waiting(p)) + 1
         /\ Cardinality(Trying(p)') <= Cardinality(Trying(p))
    BY TriedTypes, Grown, FS_Subset
<1>6. faults' = faults + 1
    BY DEF Fault
<1>7. Cardinality(Waiting(p)') + Cardinality(Trying(p)')
        <= Cardinality(Waiting(p)) + Cardinality(Trying(p)) + 1
    BY <1>4, <1>5, TriedTypes
<1>8. Len(executions'[p]) = Len(executions[p]) /\ MessagesOf(p)' = MessagesOf(p)
    BY DEF MessagesOf
<1>9. /\ Cardinality(Waiting(p)) \in Nat /\ Cardinality(Trying(p)) \in Nat
      /\ Cardinality(MessagesOf(p)) \in Nat /\ Len(executions[p]) \in Nat /\ faults \in Nat
    BY TriedTypes
<1>10. Len(executions[p]) + Cardinality(Waiting(p)) + Cardinality(Trying(p))
         <= Cardinality(MessagesOf(p)) + faults
    BY DEF Tried
<1>11. ASSUME NEW l \in Nat, NEW a \in Nat, NEW b \in Nat, NEW a2 \in Nat, NEW b2 \in Nat,
              NEW k \in Nat, NEW n \in Nat, l + a + b <= k + n, a2 + b2 <= a + b + 1
       PROVE  l + a2 + b2 <= k + (n + 1)
    BY <1>11
<1>12. Len(executions[p]) + Cardinality(Waiting(p)') + Cardinality(Trying(p)')
         <= Cardinality(MessagesOf(p)) + (faults + 1)
    BY ONLY <1>4, <1>7, <1>9, <1>10, <1>11
<1> QED BY ONLY <1>6, <1>8, <1>12 DEF Tried

LEMMA NextTried ==
    ASSUME OutcomeInv, [Next]_vars, NEW p \in Payouts, Tried(p)
    PROVE  Tried(p)'
<1>0. TypeOK /\ TypeOK'
    BY NextTypes DEF OutcomeInv, TypeInv
<1>00. /\ faults \in Nat
       /\ pc \in [Workers -> Busy \cup {"idle", "stopped"}]
       /\ job \in [Workers -> Messages \cup {None}]
       /\ executions \in [Payouts -> Seq(Outcomes)]
    BY <1>0, TriedTypes DEF TypeOK, DataOK
<1> USE <1>00
<1> DEFINE Pre == {"read", "markProcessing", "commitPrepare", "execute", "nack"}
\* A step of a worker that moves no message and pays nothing.
<1>1. ASSUME NEW w \in Workers, UNCHANGED <<ready, executions>>, faults <= faults',
             \A v \in Workers \ {w} : UNCHANGED <<pc[v], job[v]>>,
             \/ pc'[w] \notin Pre
             \/ pc[w] \in Pre /\ UNCHANGED job[w]
      PROVE  Tried(p)'
  <2>1. Waiting(p)' \subseteq Waiting(p) /\ Trying(p)' \subseteq Trying(p)
      BY <1>1 DEF Waiting, Trying, Payout
  <2> QED BY <1>0, <1>1, <2>1, TriedKept
\* A step of a worker that fails.
<1>2. ASSUME NEW w \in Workers, UNCHANGED <<ready, executions, job>>, Fault,
             \A v \in Workers \ {w} : UNCHANGED pc[v]
      PROVE  Tried(p)'
  <2>1. Waiting(p)' \subseteq Waiting(p) /\ Trying(p)' \subseteq Trying(p) \cup {w}
      BY <1>2 DEF Waiting, Trying, Payout
  <2> QED BY <1>0, <1>2, <2>1, TriedFault
<1>3. CASE UNCHANGED vars
  <2>1. Waiting(p)' \subseteq Waiting(p) /\ Trying(p)' \subseteq Trying(p)
      BY <1>3 DEF vars, Waiting, Trying, Payout
  <2>2. UNCHANGED <<executions, faults>>
      BY <1>3 DEF vars
  <2> QED BY <1>0, <2>1, <2>2, TriedKept
<1>4. ASSUME NEW w \in Workers, NEW m \in Messages, Take(w, m) PROVE Tried(p)'
  <2>1. CASE JobOf[m] = p
    <3>1. m \in Waiting(p) /\ Waiting(p)' \subseteq Waiting(p) \ {m}
        BY <1>4, <2>1 DEF Take, Waiting
    <3>2. Trying(p)' \subseteq Trying(p) \cup {w}
        BY <1>4 DEF Take, Trying, Payout
    <3>3. UNCHANGED <<executions, faults>>
        BY <1>4 DEF Take
    <3> QED BY <1>0, <3>1, <3>2, <3>3, TriedTaken
  <2>2. CASE JobOf[m] # p
    <3>1. Waiting(p)' \subseteq Waiting(p) /\ Trying(p)' \subseteq Trying(p)
        BY <1>4, <2>2 DEF Take, Waiting, Trying, Payout
    <3>2. UNCHANGED <<executions, faults>>
        BY <1>4 DEF Take
    <3> QED BY <1>0, <3>1, <3>2, TriedKept
  <2> QED BY <2>1, <2>2
<1>5. ASSUME NEW w \in Workers, NEW o \in Outcomes, Execute(w, o) PROVE Tried(p)'
  <2>1. CASE Payout(w) = p
    <3>1. w \in Trying(p) /\ Trying(p)' \subseteq Trying(p) \ {w}
        BY <1>5, <2>1 DEF Execute, Goto, Trying, Payout
    <3>2. Waiting(p)' \subseteq Waiting(p) /\ UNCHANGED faults
        BY <1>5 DEF Execute, Waiting
    <3>3. executions'[p] = Append(executions[p], o)
        BY <1>5, <2>1 DEF Execute
    <3> QED BY <1>0, <3>1, <3>2, <3>3, TriedPaid
  <2>2. CASE Payout(w) # p
    <3>1. Waiting(p)' \subseteq Waiting(p) /\ Trying(p)' \subseteq Trying(p)
        BY <1>5, <2>2 DEF Execute, Goto, Waiting, Trying, Payout
    <3>2. UNCHANGED <<executions[p], faults>>
        BY <1>5, <2>2 DEF Execute
    <3> QED BY <1>0, <3>1, <3>2, TriedKept
  <2> QED BY <2>1, <2>2
<1>6. ASSUME NEW w \in Workers, Nack(w) PROVE Tried(p)'
  <2>1. /\ pc[w] = "nack" /\ ready' = ready \cup Held(w)
        /\ pc'[w] \in {"idle", "stopped"}
        /\ \A v \in Workers \ {w} : UNCHANGED <<pc[v], job[v]>>
        /\ UNCHANGED <<executions, faults>>
      BY <1>6 DEF Nack, Settle
  <2>2. Held(w) \subseteq {job[w]}
      BY DEF Held
  <2>3. CASE Payout(w) = p
    <3>1. w \in Trying(p) /\ Trying(p)' \subseteq Trying(p) \ {w}
        BY <2>1, <2>3 DEF Trying, Payout
    <3>2. Waiting(p)' \subseteq Waiting(p) \cup {job[w]}
        BY <2>1, <2>2 DEF Waiting
    <3> QED BY <1>0, <2>1, <3>1, <3>2, TriedPutBack
  <2>4. CASE Payout(w) # p
    <3>1. Waiting(p)' \subseteq Waiting(p) /\ Trying(p)' \subseteq Trying(p)
        BY <2>1, <2>2, <2>4 DEF Waiting, Trying, Payout
    <3> QED BY <1>0, <2>1, <3>1, TriedKept
  <2> QED BY <2>3, <2>4
<1>7. ASSUME NEW w \in Workers, Disconnect(w) \/ Stop(w) PROVE Tried(p)'
  <2>1. /\ ready' \subseteq ready \cup {job[w]} /\ UNCHANGED executions /\ Fault
        /\ \A v \in Workers \ {w} : UNCHANGED <<pc[v], job[v]>>
        /\ (UNCHANGED <<pc[w], job[w]>>) \/ pc'[w] = "stopped"
      BY <1>7 DEF Disconnect, Stop, Settle, Held
  <2>2. /\ Waiting(p)' \subseteq Waiting(p) \cup {job[w]}
        /\ Trying(p)' \subseteq Trying(p)
      BY <2>1 DEF Waiting, Trying, Payout
  <2> QED BY <1>0, <2>1, <2>2, TriedFault
<1>8. ASSUME NEW w \in Workers, Step(w) \/ Faults(w) \/ \E m \in Messages : Take(w, m)
      PROVE  Tried(p)'
  <2>1. CASE Read(w)
      BY <1>1, <2>1 DEF Read, Goto
  <2>2. CASE MarkProcessing(w) \/ CommitPrepare(w)
      BY <1>1, <2>2 DEF MarkProcessing, CommitPrepare, Goto
  <2>3. CASE CommitSkip(w) \/ Record(w) \/ Notify(w) \/ CommitRecord(w) \/ Start(w)
      BY <1>1, <2>3 DEF CommitSkip, Record, Notify, CommitRecord, Start, Goto
  <2>4. CASE Ack(w) \/ Drop(w)
      BY <1>1, <2>4 DEF Ack, Drop, Settle
  <2>5. CASE StatementFails(w) \/ CommitAckLost(w) \/ ProviderFails(w)
      BY <1>2, <2>5 DEF StatementFails, CommitAckLost, ProviderFails, Goto
  <2> QED
      BY <1>4, <1>5, <1>6, <1>7, <1>8, <2>1, <2>2, <2>3, <2>4, <2>5 DEF Step, Faults
<1> QED BY <1>3, <1>8 DEF Next, Terminating

LEMMA InitTried == Init => TriedInv
<1> SUFFICES ASSUME Init, NEW p \in Payouts PROVE Tried(p)
    BY InitOutcome DEF TriedInv
<1>1. Trying(p) = {} /\ Waiting(p) = MessagesOf(p) /\ Len(executions[p]) = 0 /\ faults = 0
    BY DEF Init, Trying, Waiting, MessagesOf
<1>2. TypeOK
    BY InitTypes DEF TypeInv
<1> QED BY <1>1, <1>2, TriedTypes, FS_EmptySet DEF Tried

LEMMA NextTriedInv == TriedInv /\ [Next]_vars => TriedInv'
BY NextOutcome, NextTried DEF TriedInv

LEMMA TriedInvariance == Spec => []TriedInv
BY InitTried, NextTriedInv, PTL DEF Spec

\* f numbers the messages of p that left the queue, up to n.
Numbers(f, p, n) == \A m \in MessagesOf(p) \ Waiting(p) : \E i \in 1 .. n : m = f[i]

\* Where all messages of p but n wait, p was paid for n messages at most, and for
\* one less while a worker may still pay it.
LEMMA PaidAtMost ==
    ASSUME TriedInv, NEW p \in Payouts, NEW n \in Nat, NEW f, Numbers(f, p, n)
    PROVE  /\ Len(executions[p]) <= n + faults
           /\ Trying(p) # {} => Len(executions[p]) + 1 <= n + faults
<1> DEFINE Gone == {f[i] : i \in 1 .. n}
<1>0. TypeOK
    BY DEF TriedInv, OutcomeInv, TypeInv
<1>1. IsFiniteSet(1 .. n) /\ Cardinality(1 .. n) = n
    BY FS_Interval
<1>2. IsFiniteSet(Gone) /\ Cardinality(Gone) <= n /\ Cardinality(Gone) \in Nat
  <2>1. [i \in 1 .. n |-> f[i]] \in Surjection(1 .. n, Gone)
      BY DEF Surjection
  <2> QED BY <1>1, <2>1, FS_Surjection, FS_CardinalityType
<1>3. MessagesOf(p) \subseteq Waiting(p) \cup Gone
    BY DEF Numbers
<1> HIDE DEF Gone
<1>4. /\ IsFiniteSet(Waiting(p) \cup Gone)
      /\ Cardinality(Waiting(p) \cup Gone) <= Cardinality(Waiting(p)) + Cardinality(Gone)
  <2>1. IsFiniteSet(Waiting(p) \cap Gone)
      BY <1>2, FS_Intersection
  <2>2. Cardinality(Waiting(p) \cap Gone) \in Nat
      BY <2>1, FS_CardinalityType
  <2>3. /\ IsFiniteSet(Waiting(p) \cup Gone)
        /\ Cardinality(Waiting(p) \cup Gone) =
              Cardinality(Waiting(p)) + Cardinality(Gone) - Cardinality(Waiting(p) \cap Gone)
      BY <1>0, <1>2, TriedTypes, FS_Union
  <2> QED BY <1>0, <1>2, <2>2, <2>3, TriedTypes
<1>5. Cardinality(MessagesOf(p)) <= Cardinality(Waiting(p) \cup Gone)
    BY <1>3, <1>4, FS_Subset
<1>6. Cardinality(Waiting(p) \cup Gone) \in Nat
    BY <1>4, FS_CardinalityType
<1>7. Tried(p)
    BY DEF TriedInv
<1>8. Len(executions[p]) + Cardinality(Trying(p)) <= n + faults
    BY <1>0, <1>2, <1>4, <1>5, <1>6, <1>7, TriedTypes DEF Tried
<1>9. Trying(p) # {} => Cardinality(Trying(p)) # 0
    BY <1>0, TriedTypes, FS_EmptySet
<1> QED BY <1>0, <1>8, <1>9, TriedTypes

\* A payout is paid at most once for each of its messages and each fault.
THEOREM ExecutionsHaveACause == Spec => []ExecutionsAreAccountedFor
<1>1. TriedInv => ExecutionsAreAccountedFor
  <2> SUFFICES ASSUME TriedInv, NEW p \in Payouts
               PROVE  Len(executions[p]) <= Cardinality(MessagesOf(p)) + faults
      BY DEF ExecutionsAreAccountedFor, MessagesOf
  <2>1. TypeOK
      BY DEF TriedInv, OutcomeInv, TypeInv
  <2> QED BY <2>1, TriedTypes DEF TriedInv, Tried
<1> QED BY <1>1, TriedInvariance, PTL

----------------------------------------------------------------------------
(* What the steps are to the payout. *)

\* The provider is asked once the mark of the payout is committed.
MarkedOK(w) ==
    /\ pc[w] = "commitPrepare" /\ draft[w] = None => status[Payout(w)] # "pending"
    /\ pc[w] \in {"execute", "record", "notify", "commitRecord"}
          => status[Payout(w)] # "pending"

MarkedInv == OutcomeInv /\ \A w \in Workers : MarkedOK(w)

LEMMA InitMarked == Init => MarkedInv
BY InitOutcome DEF MarkedInv, MarkedOK, Init

LEMMA ApplyMarks ==
    ASSUME OutcomeInv, NEW w \in Workers, pc[w] \in Commits, Apply(w)
    PROVE  /\ \A p \in Payouts : status[p] # "pending" => status'[p] # "pending"
           /\ draft[w] # None => status'[Payout(w)] # "pending"
<1>1. CASE draft[w] = None
    BY <1>1 DEF Apply, row
<1>2. CASE draft[w] # None
  <2>1. Payout(w) \in Payouts /\ draft[w].status # "pending"
    BY <1>2, OutcomeAssumption
    DEF OutcomeInv, TypeInv, TypeOK, DataOK, WorkerOK, DraftOK, Commits, Busy, Statements
  <2> QED BY <1>2, <2>1 DEF Apply, OutcomeInv, TypeInv, TypeOK, DataOK
<1> QED BY <1>1, <1>2

LEMMA MarksLast ==
    ASSUME OutcomeInv, [Next]_vars
    PROVE  \A p \in Payouts : status[p] # "pending" => status'[p] # "pending"
<1>1. ASSUME UNCHANGED status
      PROVE  \A p \in Payouts : status[p] # "pending" => status'[p] # "pending"
    BY <1>1
<1>2. ASSUME NEW w \in Workers, CommitPrepare(w) \/ CommitRecord(w) \/ CommitAckLost(w)
      PROVE  pc[w] \in Commits /\ Apply(w)
    BY <1>2 DEF CommitPrepare, CommitRecord, CommitAckLost, Goto, Commits
<1>3. ASSUME NEW w \in Workers,
             Step(w) \/ Faults(w) \/ \E m \in Messages : Take(w, m),
             ~CommitPrepare(w), ~CommitRecord(w), ~CommitAckLost(w)
      PROVE  UNCHANGED status
    BY <1>3
    DEF Step, Faults, Take, Read, MarkProcessing, CommitSkip, Execute, Record, Notify, Ack,
        Nack, Drop, Start, StatementFails, ProviderFails, Disconnect, Stop, row
<1> QED BY <1>1, <1>2, <1>3, ApplyMarks DEF Next, Terminating, vars, row

LEMMA NextMarked == MarkedInv /\ [Next]_vars => MarkedInv'
<1> SUFFICES ASSUME MarkedInv, [Next]_vars, NEW v \in Workers PROVE MarkedOK(v)'
    BY NextOutcome DEF MarkedInv
<1>1. /\ OutcomeInv /\ MarkedOK(v)
      /\ \A p \in Payouts : status[p] # "pending" => status'[p] # "pending"
    BY MarksLast DEF MarkedInv
<1>2. /\ pc \in [Workers -> Busy \cup {"idle", "stopped"}]
      /\ draft \in [Workers -> Drafts] /\ job \in [Workers -> Messages \cup {None}]
      /\ pc[v] \in Busy \ {"drop"} => Payout(v) \in Payouts
    BY <1>1 DEF OutcomeInv, TypeInv, TypeOK, DataOK, WorkerOK
\* A worker that stays where it is, or is past its payout, keeps what it had.
<1>3. ASSUME pc'[v] = pc[v], draft'[v] = draft[v], job'[v] = job[v] PROVE MarkedOK(v)'
    BY <1>1, <1>2, <1>3 DEF MarkedOK, Payout, Busy, Statements, Commits
<1>4. ASSUME pc'[v] \notin {"commitPrepare", "execute", "record", "notify", "commitRecord"}
      PROVE  MarkedOK(v)'
    BY <1>4 DEF MarkedOK
<1>5. ASSUME NEW w \in Workers, w # v,
             Step(w) \/ Faults(w) \/ \E m \in Messages : Take(w, m)
      PROVE  pc'[v] = pc[v] /\ draft'[v] = draft[v] /\ job'[v] = job[v]
    BY <1>2, <1>5
    DEF Step, Faults, Take, Read, MarkProcessing, CommitPrepare, CommitSkip, Execute, Record,
        Notify, CommitRecord, Ack, Nack, Drop, Start, StatementFails, CommitAckLost,
        ProviderFails, Disconnect, Stop, Goto, Write, Apply, Rollback, Settle
<1>6. CASE Read(v)
    BY <1>1, <1>2, <1>6
    DEF Read, Goto, Gate, MarkedOK, Payout, row, OutcomeInv, TypeInv, TypeOK, DataOK, Statuses,
        Final, Busy, Statements
<1>7. CASE MarkProcessing(v)
  <2>1. draft'[v] # None /\ pc'[v] = "commitPrepare"
    <3>1. [status |-> "processing", reason |-> reason[Payout(v)], webhook |-> FALSE] \in Rows
      BY <1>1, <1>2, <1>7
      DEF OutcomeInv, TypeInv, TypeOK, DataOK, MarkProcessing, Goto, Rows, Statuses, Busy,
          Statements
    <3> QED BY <1>2, <1>7, <3>1, RowAssumption DEF MarkProcessing, Goto, Write
  <2> QED BY <2>1 DEF MarkedOK
<1>8. CASE CommitPrepare(v)
  <2>1. status'[Payout(v)] # "pending" /\ pc'[v] = "execute" /\ Payout(v)' = Payout(v)
    BY <1>1, <1>2, <1>8, ApplyMarks
    DEF CommitPrepare, Goto, Commits, MarkedOK, Payout, Busy, Statements
  <2> QED BY <2>1 DEF MarkedOK
<1>9. ASSUME \/ \E o \in Outcomes : Execute(v, o)
             \/ Record(v) \/ Notify(v)
      PROVE  MarkedOK(v)'
  <2>1. /\ pc[v] \in {"execute", "record", "notify"}
        /\ pc'[v] \in {"record", "notify", "commitRecord"}
        /\ job' = job
    BY <1>2, <1>9 DEF Execute, Record, Notify, Goto
  <2> QED BY <1>1, <1>2, <2>1 DEF MarkedOK, Payout, Busy, Statements
<1>10. ASSUME \/ CommitSkip(v) \/ CommitRecord(v) \/ Ack(v) \/ Nack(v) \/ Drop(v) \/ Start(v)
              \/ StatementFails(v) \/ CommitAckLost(v) \/ ProviderFails(v) \/ Stop(v)
              \/ \E m \in Messages : Take(v, m)
      PROVE  MarkedOK(v)'
    BY <1>2, <1>4, <1>10
    DEF CommitSkip, CommitRecord, Ack, Nack, Drop, Start, StatementFails, CommitAckLost,
        ProviderFails, Stop, Take, Goto, Settle
<1>11. CASE Disconnect(v)
    BY <1>3, <1>11 DEF Disconnect
<1>12. CASE UNCHANGED vars
    BY <1>3, <1>12 DEF vars
<1>13. ASSUME Step(v) \/ Faults(v) \/ \E m \in Messages : Take(v, m) PROVE MarkedOK(v)'
    BY <1>6, <1>7, <1>8, <1>9, <1>10, <1>11, <1>13 DEF Step, Faults
<1> QED BY <1>3, <1>5, <1>12, <1>13 DEF Next, Terminating

\* The payout a step concerns is marked,
Marks(w) ==
    /\ w \in Trying(Payout(w))
    /\ status' = [status EXCEPT ![Payout(w)] = "processing"]
    /\ UNCHANGED <<webhooks, executions>>

\* paid,
Pays(w, o) ==
    /\ status[Payout(w)] # "pending"
    /\ executions' = [executions EXCEPT ![Payout(w)] = Append(@, o)]
    /\ UNCHANGED <<status, webhooks, faults>>

\* or concluded, and its client told, with an outcome answered for it;
Concludes(w, o) ==
    LET p == Payout(w) IN
    /\ o \in Answers(executions[p])
    /\ status[p] # "pending"
    /\ status' = [status EXCEPT ![p] = o]
    /\ Len(webhooks[p]) < Len(executions[p])
    /\ IF p \in Subscribed
       THEN \E why \in Reasons :
              webhooks' = [webhooks EXCEPT ![p] = Append(@, [status |-> o, reason |-> why])]
       ELSE UNCHANGED webhooks
    /\ UNCHANGED executions

\* no step does anything else to a payout, and at most one thing goes wrong in it.
Effect ==
    \/ UNCHANGED <<status, webhooks, executions>>
    \/ \E w \in Workers :
          /\ Payout(w) \in Payouts /\ job[w] # None
          /\ Marks(w) \/ \E o \in Outcomes : Pays(w, o) \/ Concludes(w, o)

LEMMA ApplyEffect ==
    ASSUME WebhookInv, MarkedInv, NEW w \in Workers, pc[w] \in Commits, Apply(w),
           UNCHANGED executions
    PROVE  Effect
<1>1. /\ OutcomeInv /\ MarkedOK(w) /\ TypeOK /\ DraftOK(w)
      /\ Payout(w) \in Payouts /\ job[w] # None
    BY DEF MarkedInv, OutcomeInv, TypeInv, TypeOK, WorkerOK, Commits, Busy, Statements
<1>2. CASE draft[w] = None
    BY <1>2 DEF Apply, row, Effect
<1>3. CASE draft[w] # None /\ pc[w] = "commitPrepare"
  <2>1. draft[w].status = "processing" /\ ~draft[w].webhook
    BY <1>1, <1>3 DEF DraftOK
  <2>2. w \in Trying(Payout(w))
    BY <1>3 DEF Trying
  <2> QED BY <1>1, <1>3, <2>1, <2>2 DEF Apply, Marks, Effect
<1>4. CASE draft[w] # None /\ pc[w] # "commitPrepare"
  <2> DEFINE p == Payout(w)
             o == outcome[w]
  <2>1. pc[w] = "commitRecord"
    BY <1>1, <1>4 DEF TypeOK, WorkerOK, Commits
  <2>2. /\ o \in Outcomes /\ o \in Answers(executions[p])
        /\ draft[w].status = o /\ draft[w].reason \in Reasons
        /\ draft[w].webhook <=> p \in Subscribed
        /\ status[p] # "pending"
    BY <1>1, <1>4, <2>1
    DEF TypeOK, DataOK, WorkerOK, DraftOK, OutcomeInv, BackedOK, MarkedOK, Drafts, Rows
  <2>3. Len(webhooks[p]) < Len(executions[p])
    <3>1. w \in Recording(p)
      BY <2>1 DEF Recording
    <3>2. IsFiniteSet(Recording(p)) /\ Cardinality(Recording(p)) \in Nat \ {0}
      BY <1>1, <3>1, RecordingIsFinite, FS_EmptySet
    <3>3. Len(webhooks[p]) \in Nat /\ Len(executions[p]) \in Nat
      BY <1>1 DEF TypeOK, DataOK
    <3>4. Len(webhooks[p]) + Cardinality(Recording(p)) <= Len(executions[p])
      BY <1>1 DEF WebhookInv, Counted
    <3> QED BY <3>2, <3>3, <3>4
  <2>4. Concludes(w, o)
    BY <1>4, <2>2, <2>3 DEF Apply, Concludes
  <2> QED BY <1>1, <2>2, <2>4 DEF Effect
<1> QED BY <1>2, <1>3, <1>4

LEMMA StepsHaveEffects ==
    ASSUME WebhookInv, MarkedInv, [Next]_vars
    PROVE  Effect /\ faults' \in {faults, faults + 1}
<1>1. /\ TypeOK /\ \A w \in Workers : MarkedOK(w)
    BY DEF MarkedInv, OutcomeInv, TypeInv
<1>2. faults' \in {faults, faults + 1}
  <2>1. ASSUME NEW w \in Workers, Faults(w) PROVE Fault
    BY <2>1 DEF Faults, StatementFails, CommitAckLost, ProviderFails, Disconnect, Stop
  <2>2. ASSUME NEW w \in Workers, Step(w) \/ \E m \in Messages : Take(w, m)
        PROVE  UNCHANGED faults
    BY <2>2
    DEF Step, Take, Read, MarkProcessing, CommitPrepare, CommitSkip, Execute, Record, Notify,
        CommitRecord, Ack, Nack, Drop, Start
  <2> QED BY <2>1, <2>2 DEF Next, Terminating, vars, Fault
<1>3. ASSUME NEW w \in Workers, CommitPrepare(w) \/ CommitRecord(w) \/ CommitAckLost(w)
      PROVE  Effect
    BY <1>3, ApplyEffect DEF CommitPrepare, CommitRecord, CommitAckLost, Goto, Commits
<1>4. ASSUME NEW w \in Workers, NEW o \in Outcomes, Execute(w, o) PROVE Effect
  <2>1. pc[w] = "execute"
    BY <1>4 DEF Execute, Goto
  <2>2. Payout(w) \in Payouts /\ job[w] # None /\ status[Payout(w)] # "pending"
    BY <1>1, <2>1 DEF TypeOK, WorkerOK, MarkedOK, Busy, Statements
  <2> QED BY <1>4, <2>2 DEF Execute, Pays, Effect, row
<1>5. ASSUME NEW w \in Workers,
             Step(w) \/ Faults(w) \/ \E m \in Messages : Take(w, m),
             ~CommitPrepare(w), ~CommitRecord(w), ~CommitAckLost(w),
             ~\E o \in Outcomes : Execute(w, o)
      PROVE  UNCHANGED <<status, webhooks, executions>>
    BY <1>5
    DEF Step, Faults, Take, Read, MarkProcessing, CommitSkip, Record, Notify, Ack,
        Nack, Drop, Start, StatementFails, ProviderFails, Disconnect, Stop, row
<1> QED BY <1>2, <1>3, <1>4, <1>5 DEF Next, Terminating, vars, row, Effect

----------------------------------------------------------------------------
(* How far TransitionsAreValid and NoPayoutStranded go.  Neither holds of  *)
(* the code; these are the conditions under which it does.                 *)

Underway(w) == pc[w] \in {"execute", "record", "notify", "commitRecord"}

\* Before anything goes wrong, who marked a payout is at work on it.
Pursued ==
    faults = 0 =>
        \A p \in Payouts : status[p] = "processing" =>
            \E w \in Workers : Works(w, p) /\ Underway(w)

\* What is pending was never tried.
PendingIsUntried == \A p \in Payouts : status[p] = "pending" => executions[p] = <<>>

PursuitInv ==
    WebhookInv /\ MarkedInv /\ NoPayoutForgotten /\ PendingIsUntried /\ Pursued

LEMMA InitPursuit == Init => PursuitInv
BY InitWebhook, InitMarked, InitForgotten
DEF PursuitInv, Init, PendingIsUntried, Pursued

LEMMA NextUntried ==
    ASSUME WebhookInv, MarkedInv, PendingIsUntried, [Next]_vars
    PROVE  PendingIsUntried'
<1>1. /\ status \in [Payouts -> Statuses]
      /\ executions \in [Payouts -> Seq(Outcomes)]
    BY DEF MarkedInv, OutcomeInv, TypeInv, TypeOK, DataOK
<1>2. Effect
    BY StepsHaveEffects
<1>3. CASE UNCHANGED <<status, webhooks, executions>>
    BY <1>3 DEF PendingIsUntried
<1>4. ASSUME NEW w \in Workers, Payout(w) \in Payouts, Marks(w) PROVE PendingIsUntried'
    BY <1>1, <1>4 DEF PendingIsUntried, Marks
<1>5. ASSUME NEW w \in Workers, Payout(w) \in Payouts, NEW o \in Outcomes,
             Pays(w, o) \/ Concludes(w, o)
      PROVE  PendingIsUntried'
    BY <1>1, <1>5, OutcomeAssumption DEF PendingIsUntried, Pays, Concludes
<1> QED BY <1>2, <1>3, <1>4, <1>5 DEF Effect

\* A step of a worker leaves the others where they are,
LEMMA OthersKeep ==
    ASSUME TypeOK, NEW w \in Workers, NEW v \in Workers, v # w,
           Step(w) \/ Faults(w) \/ \E m \in Messages : Take(w, m)
    PROVE  pc'[v] = pc[v] /\ draft'[v] = draft[v] /\ job'[v] = job[v]
           /\ delivered'[v] = delivered[v]
BY DEF TypeOK, DataOK, Step, Faults, Take, Read, MarkProcessing, CommitPrepare, CommitSkip,
       Execute, Record, Notify, CommitRecord, Ack, Nack, Drop, Start, StatementFails,
       CommitAckLost, ProviderFails, Disconnect, Stop, Goto, Write, Apply, Rollback, Settle

\* and without a fault only a commit writes a row.
LEMMA OnlyCommitsWrite ==
    ASSUME NEW w \in Workers, Step(w) \/ \E m \in Messages : Take(w, m),
           ~CommitPrepare(w), ~CommitRecord(w)
    PROVE  UNCHANGED status
BY DEF Step, Take, Read, MarkProcessing, CommitSkip, Execute, Record, Notify, Ack, Nack, Drop,
       Start, row

\* Where a commit takes the row of its payout.
LEMMA CommitsWrite ==
    ASSUME OutcomeInv, NEW w \in Workers, CommitPrepare(w) \/ CommitRecord(w)
    PROVE  /\ Payout(w) \in Payouts /\ job[w] # None /\ job' = job
           /\ \A p \in Payouts \ {Payout(w)} : status'[p] = status[p]
           /\ CommitPrepare(w) =>
                 /\ pc[w] = "commitPrepare" /\ pc'[w] = "execute"
                 /\ status'[Payout(w)] =
                       IF draft[w] = None THEN status[Payout(w)] ELSE "processing"
           /\ CommitRecord(w) =>
                 /\ pc[w] = "commitRecord" /\ pc'[w] = "ack"
                 /\ status'[Payout(w)] \in Final
<1>1. /\ TypeOK /\ DraftOK(w) /\ WorkerOK(w)
      /\ pc \in [Workers -> Busy \cup {"idle", "stopped"}]
      /\ status \in [Payouts -> Statuses]
      /\ outcome \in [Workers -> Outcomes \cup {None}]
    BY DEF OutcomeInv, TypeInv, TypeOK, DataOK
<1>2. /\ pc[w] \in {"commitPrepare", "commitRecord"} /\ job' = job /\ Apply(w)
      /\ Payout(w) \in Payouts /\ job[w] # None
    BY <1>1 DEF CommitPrepare, CommitRecord, Goto, WorkerOK, Busy, Statements, Commits
<1>3. status' = IF draft[w] = None THEN status
                ELSE [status EXCEPT ![Payout(w)] = draft[w].status]
    BY <1>2 DEF Apply, row
<1>4. CASE CommitPrepare(w)
  <2>1. pc[w] = "commitPrepare" /\ pc'[w] = "execute" /\ ~CommitRecord(w)
    BY <1>1, <1>4 DEF CommitPrepare, CommitRecord, Goto
  <2>2. draft[w] # None => draft[w].status = "processing"
    BY <1>1, <2>1 DEF DraftOK
  <2> QED BY <1>1, <1>2, <1>3, <1>4, <2>1, <2>2
<1>5. CASE CommitRecord(w)
  <2>1. pc[w] = "commitRecord" /\ pc'[w] = "ack" /\ ~CommitPrepare(w)
    BY <1>1, <1>5 DEF CommitPrepare, CommitRecord, Goto
  <2>2. draft[w] # None /\ draft[w].status \in Final
    BY <1>1, <2>1, OutcomeAssumption DEF DraftOK, WorkerOK, Final
  <2> QED BY <1>1, <1>2, <1>3, <1>5, <2>1, <2>2
<1> QED BY <1>4, <1>5

LEMMA NextPursued ==
    ASSUME OutcomeInv, Pursued, [Next]_vars
    PROVE  Pursued'
<1> SUFFICES ASSUME faults' = 0, NEW p \in Payouts, status'[p] = "processing"
             PROVE  (\E w \in Workers : Works(w, p) /\ Underway(w))'
    BY DEF Pursued
<1>1. /\ TypeOK /\ faults \in Nat /\ status \in [Payouts -> Statuses]
      /\ pc \in [Workers -> Busy \cup {"idle", "stopped"}]
      /\ job \in [Workers -> Messages \cup {None}]
  <2>1. TypeOK
    BY DEF OutcomeInv, TypeInv
  <2>2. DataOK
    BY <2>1 DEF TypeOK
  <2> QED BY <2>1, <2>2, BoundAssumption DEF DataOK
\* A worker that stays at work on p pursues it.
<1>2. ASSUME NEW v \in Workers, Works(v, p), pc'[v] \in {"execute", "record", "notify", "commitRecord"},
             job'[v] = job[v]
      PROVE  (\E w \in Workers : Works(w, p) /\ Underway(w))'
    BY <1>2 DEF Works, Payout, Underway
<1>3. CASE UNCHANGED vars
    BY <1>3 DEF vars, row, Pursued, Works, Payout, Underway
<1>4. ASSUME NEW w \in Workers, Faults(w) PROVE FALSE
    BY <1>1, <1>4
    DEF Faults, StatementFails, CommitAckLost, ProviderFails, Disconnect, Stop, Fault
<1>5. ASSUME NEW w \in Workers, Step(w) \/ \E m \in Messages : Take(w, m)
      PROVE  (\E u \in Workers : Works(u, p) /\ Underway(u))'
  <2>0. UNCHANGED faults
    BY <1>5
    DEF Step, Take, Read, MarkProcessing, CommitPrepare, CommitSkip, Execute, Record, Notify,
        CommitRecord, Ack, Nack, Drop, Start
  <2>1. ASSUME status[p] = "processing"
        PROVE  \E v \in Workers : Works(v, p) /\ Underway(v)
    BY <2>0, <2>1 DEF Pursued
  <2>2. ASSUME NEW v \in Workers, v # w, Works(v, p), Underway(v)
        PROVE  (\E u \in Workers : Works(u, p) /\ Underway(u))'
    <3>1. pc'[v] = pc[v] /\ job'[v] = job[v]
      BY <1>1, <1>5, <2>2, OthersKeep
    <3> QED BY <1>2, <2>2, <3>1 DEF Underway
  <2>3. ASSUME Works(w, p), Underway(w), ~CommitRecord(w)
        PROVE  (\E u \in Workers : Works(u, p) /\ Underway(u))'
    <3>1. (\E o \in Outcomes : Execute(w, o)) \/ Record(w) \/ Notify(w)
      <4>1. /\ ~Read(w) /\ ~MarkProcessing(w) /\ ~CommitPrepare(w) /\ ~CommitSkip(w)
            /\ ~Ack(w) /\ ~Nack(w) /\ ~Drop(w) /\ ~Start(w)
            /\ ~\E m \in Messages : Take(w, m)
        BY <2>3
        DEF Underway, Take, Read, MarkProcessing, CommitPrepare, CommitSkip, Ack, Nack, Drop,
            Start, Goto
      <4> QED BY <1>5, <2>3, <4>1 DEF Step
    <3>2. pc'[w] \in {"record", "notify", "commitRecord"} /\ job' = job
      BY <1>1, <3>1 DEF Execute, Record, Notify, Goto
    <3> QED BY <1>2, <2>3, <3>2
  <2>4. CASE CommitPrepare(w)
    <3>1. Payout(w) = p \/ status[p] = "processing"
      BY <2>4, CommitsWrite
    <3>2. CASE Payout(w) = p
      BY <1>2, <2>4, <3>2, CommitsWrite DEF Works
    <3>3. CASE Payout(w) # p
      BY <2>1, <2>2, <2>3, <2>4, <3>1, <3>3 DEF Works
    <3> QED BY <3>2, <3>3
  <2>5. CASE CommitRecord(w)
    <3>1. Payout(w) # p /\ status[p] = "processing"
      BY <2>5, CommitsWrite DEF Final
    <3> QED BY <2>1, <2>2, <3>1 DEF Works
  <2>6. CASE ~CommitPrepare(w) /\ ~CommitRecord(w)
    BY <1>5, <2>1, <2>2, <2>3, <2>6, OnlyCommitsWrite
  <2> QED BY <2>4, <2>5, <2>6
<1> QED BY <1>3, <1>4, <1>5 DEF Next, Terminating

LEMMA NextPursuit == PursuitInv /\ [Next]_vars => PursuitInv'
<1>1. WebhookInv => OutcomeInv /\ TypeInv
    BY DEF WebhookInv, OutcomeInv
<1> QED
    BY <1>1, NextWebhook, NextMarked, NextForgotten, NextUntried, NextPursued DEF PursuitInv

\* A payout is left in processing without a message or a worker only by a fault:
\* the workers alone never strand one, however often its job is published; and
\* one that is pending has a message whatever fails (execution.go:64-150).
THEOREM StrandingHasACause ==
    Spec => [](/\ faults = 0 => NoPayoutStranded
               /\ \A p \in Payouts : status[p] = "pending" =>
                     \E m \in Messages : JobOf[m] = p /\ Alive(m))
<1> DEFINE Kept == /\ faults = 0 => NoPayoutStranded
                   /\ \A p \in Payouts : status[p] = "pending" =>
                         \E m \in Messages : JobOf[m] = p /\ Alive(m)
<1>1. ASSUME PursuitInv PROVE Kept
  <2>1. ASSUME NEW p \in Payouts, status[p] = "pending"
        PROVE  \E m \in Messages : JobOf[m] = p /\ Alive(m)
    BY <1>1, <2>1 DEF PursuitInv, PendingIsUntried, NoPayoutForgotten
  <2>2. ASSUME faults = 0, NEW p \in Payouts, status[p] \notin Final, status[p] # "pending"
        PROVE  \E w \in Workers : Works(w, p)
    <3>1. status[p] = "processing"
      BY <1>1, <2>2
      DEF PursuitInv, MarkedInv, OutcomeInv, TypeInv, TypeOK, DataOK, Statuses
    <3> QED BY <1>1, <2>2, <3>1 DEF PursuitInv, Pursued
  <2> QED BY <2>1, <2>2 DEF NoPayoutStranded
<1> QED BY <1>1, InitPursuit, NextPursuit, PTL DEF Spec

\* Message m still brings its payout back: it waits, or its worker has not found
\* the payout done.
Returns(m) ==
    m \in ready \/ \E w \in Workers : m \in Held(w) /\ pc[w] \notin {"commitSkip", "ack"}

Chased(p) == status[p] \notin Final => \E m \in Messages : JobOf[m] = p /\ Returns(m)

\* Whoever sets a settled payout back still has its message, or reopens it.
LEMMA WhoeverSetsBack ==
    ASSUME OutcomeInv, [Next]_vars, NEW p \in Payouts, ~Reopens(p),
           status[p] \in Final, status'[p] \notin Final
    PROVE  \E m \in Messages : JobOf[m] = p /\ Returns(m)'
<1>1. /\ TypeOK /\ status \in [Payouts -> Statuses] /\ delivered \in [Workers -> BOOLEAN]
      /\ pc \in [Workers -> Busy \cup {"idle", "stopped"}]
      /\ job \in [Workers -> Messages \cup {None}]
      /\ \A w \in Workers : DraftOK(w) /\ WorkerOK(w)
    BY DEF OutcomeInv, TypeInv, TypeOK, DataOK
<1>2. PICK w \in Workers : /\ pc[w] \in Commits /\ Apply(w)
                           /\ CommitPrepare(w) \/ CommitRecord(w) \/ CommitAckLost(w)
  <2>1. UNCHANGED status \/ \E w \in Workers :
            CommitPrepare(w) \/ CommitRecord(w) \/ CommitAckLost(w)
      BY DEF Next, Step, Faults, Terminating, vars, row, Take, Read, MarkProcessing, CommitSkip,
             Execute, Record, Notify, Ack, Nack, Drop, Start, StatementFails, ProviderFails,
             Disconnect, Stop
  <2>2. PICK w \in Workers : CommitPrepare(w) \/ CommitRecord(w) \/ CommitAckLost(w)
      BY <2>1
  <2> QED BY <2>2 DEF CommitPrepare, CommitRecord, CommitAckLost, Goto, Commits
<1>3. /\ draft[w] # None /\ Payout(w) = p /\ status'[p] = draft[w].status
      /\ job[w] \in Messages
  <2>1. draft[w] # None
      BY <1>2 DEF Apply, row
  <2>2. status' = [status EXCEPT ![Payout(w)] = draft[w].status]
      BY <1>2, <2>1 DEF Apply
  <2>3. pc[w] \in Busy
      BY <1>2 DEF Busy, Statements
  <2> QED BY <1>1, <2>1, <2>2, <2>3 DEF WorkerOK
<1>4. pc[w] = "commitPrepare"
  <2>1. pc[w] = "commitRecord" => draft[w].status \in Final
      BY <1>1, OutcomeAssumption DEF DraftOK, WorkerOK, DataOK, TypeOK, Final
  <2> QED BY <1>1, <1>2, <1>3, <2>1 DEF WorkerOK, Commits
<1>5. delivered[w]
    BY <1>1, <1>3, <1>4, DistinctAssumption DEF Reopens, Works, WorkerOK, Busy, Statements, Commits
<1>6. pc'[w] \in {"execute", "nack"} /\ job' = job /\ delivered' = delivered
    BY <1>1, <1>2, <1>4 DEF CommitPrepare, CommitRecord, CommitAckLost, Goto
<1>7. ASSUME NEW m \in Messages, m = job[w] PROVE JobOf[m] = p /\ Returns(m)'
    BY <1>3, <1>5, <1>6, <1>7 DEF Returns, Held, Payout
<1> QED BY <1>3, <1>7

\* A message stops bringing its payout back only once the payout is settled.
LEMMA UnsettledReturns ==
    ASSUME OutcomeInv, [Next]_vars, NEW p \in Payouts,
           status[p] \notin Final, status'[p] \notin Final,
           NEW m \in Messages, JobOf[m] = p, Returns(m)
    PROVE  Returns(m)'
<1>1. /\ TypeOK /\ status \in [Payouts -> Statuses] /\ delivered \in [Workers -> BOOLEAN]
      /\ pc \in [Workers -> Busy \cup {"idle", "stopped"}]
      /\ job \in [Workers -> Messages \cup {None}]
      /\ \A w \in Workers : DraftOK(w) /\ WorkerOK(w)
    BY DEF OutcomeInv, TypeInv, TypeOK, DataOK
<1>2. CASE UNCHANGED vars
    BY <1>2 DEF vars, Returns, Held
<1>3. ASSUME NEW w \in Workers, Step(w) \/ Faults(w) \/ \E n \in Messages : Take(w, n)
      PROVE  Returns(m)'
  <2>1. CASE m \in ready
    <3>1. CASE m \in ready'
        BY <3>1 DEF Returns
    <3>2. CASE m \notin ready'
      <4>1. Take(w, m)
          BY <1>3, <2>1, <3>2
          DEF Step, Faults, Take, Read, MarkProcessing, CommitPrepare, CommitSkip, Execute, Record,
              Notify, CommitRecord, Ack, Nack, Drop, Start, StatementFails, CommitAckLost,
              ProviderFails, Disconnect, Stop
      <4>2. job'[w] = m /\ delivered'[w] /\ pc'[w] \in {"drop", "read"}
          BY <1>1, <4>1 DEF Take
      <4> QED BY <4>2 DEF Returns, Held
    <3> QED BY <3>1, <3>2
  <2>2. ASSUME NEW v \in Workers, m \in Held(v), pc[v] \notin {"commitSkip", "ack"}, v # w
        PROVE  Returns(m)'
    <3>1. pc'[v] = pc[v] /\ job'[v] = job[v] /\ delivered'[v] = delivered[v]
        BY <1>1, <1>3, <2>2, OthersKeep
    <3> QED BY <2>2, <3>1 DEF Returns, Held
  <2>3. ASSUME m \in Held(w), pc[w] \notin {"commitSkip", "ack"}
        PROVE  Returns(m)'
    <3>1. delivered[w] /\ job[w] = m /\ Payout(w) = p /\ pc[w] \in Busy \ {"drop"}
        BY <1>1, <2>3, DistinctAssumption DEF Held, Payout, WorkerOK, DraftOK
    <3>2. CASE Read(w)
      <4>1. Gate(status[p]) # "commitSkip" /\ Gate(status[p]) # "ack"
          BY <1>1 DEF Gate, Statuses, Final
      <4> QED BY <1>1, <3>1, <3>2, <4>1 DEF Read, Goto, Returns, Held
    <3>3. CASE CommitRecord(w)
        BY <3>1, <3>3, CommitsWrite
    <3>4. CASE Nack(w) \/ Disconnect(w) \/ Stop(w)
        BY <2>3, <3>4 DEF Nack, Disconnect, Stop, Returns, Held
    <3>5. CASE MarkProcessing(w) \/ CommitPrepare(w) \/ (\E o \in Outcomes : Execute(w, o))
                  \/ Record(w) \/ Notify(w)
        BY <1>1, <3>1, <3>5
        DEF MarkProcessing, CommitPrepare, Execute, Record, Notify, Goto, Returns, Held
    <3>6. CASE StatementFails(w) \/ CommitAckLost(w) \/ ProviderFails(w)
        BY <1>1, <3>1, <3>6 DEF StatementFails, CommitAckLost, ProviderFails, Goto, Returns, Held
    <3>7. ~CommitSkip(w) /\ ~Ack(w) /\ ~Drop(w) /\ ~Start(w)
                  /\ \A n \in Messages : ~Take(w, n)
        BY <2>3, <3>1
        DEF CommitSkip, Ack, Drop, Start, Take, Goto, Busy, Statements, Commits
    <3> QED BY <1>3, <3>2, <3>3, <3>4, <3>5, <3>6, <3>7 DEF Step, Faults
  <2> QED BY <2>1, <2>2, <2>3 DEF Returns
<1> QED BY <1>2, <1>3 DEF Next, Terminating

\* Only a worker that lost its connection and then sets back a payout which
\* another has concluded leaves it without a message: whatever else fails, and
\* however often, a payout that is not settled is delivered again
\* (execution.go:133-141, worker.go:59-68).
THEOREM ReopeningStrands ==
    ASSUME NEW p \in Payouts
    PROVE  Spec /\ []~Reopens(p) =>
               [](status[p] \notin Final => \E m \in Messages : JobOf[m] = p /\ Alive(m))
<1>1. Init => Chased(p)
    BY PublishedAssumption DEF Init, Chased, Returns
<1>2. ASSUME OutcomeInv, Chased(p), ~Reopens(p), [Next]_vars PROVE Chased(p)'
  <2> SUFFICES ASSUME status'[p] \notin Final
               PROVE  \E m \in Messages : JobOf[m] = p /\ Returns(m)'
      BY DEF Chased
  <2> QED BY <1>2, WhoeverSetsBack, UnsettledReturns DEF Chased
<1>3. Chased(p) =>
        (status[p] \notin Final => \E m \in Messages : JobOf[m] = p /\ Alive(m))
    BY DEF Chased, Returns, Alive
<1> QED BY <1>1, <1>2, <1>3, OutcomeInvariance, PTL DEF Spec

\* The job of each payout is published once.
OnePublish ==
    \A m, n \in Messages : JobOf[m] = JobOf[n] /\ JobOf[m] \in Payouts => m = n

\* Where the payout of worker w stands while nobody else works on it.
PlaceOK(w) ==
    /\ job[w] # None => delivered[w]
    /\ pc[w] = "markProcessing" => status[Payout(w)] = "pending"
    /\ pc[w] = "commitPrepare" =>
          status[Payout(w)] = IF draft[w] = None THEN "processing" ELSE "pending"
    /\ Underway(w) => status[Payout(w)] = "processing"

InPlace == faults = 0 => \A w \in Workers : PlaceOK(w)

PlaceInv == OutcomeInv /\ InPlace

LEMMA InitPlace == Init => PlaceInv
BY InitOutcome DEF PlaceInv, InPlace, PlaceOK, Underway, Init

\* Who has a payout has it alone.
LEMMA Alone ==
    ASSUME OnePublish, PlaceInv, faults = 0, NEW w \in Workers, NEW v \in Workers, w # v,
           job[w] # None, job[v] # None, Payout(w) \in Payouts
    PROVE  Payout(v) # Payout(w)
<1>1. /\ job[w] \in Messages /\ job[v] \in Messages /\ delivered[w] /\ delivered[v] /\ Exclusive
    BY DEF PlaceInv, InPlace, PlaceOK, OutcomeInv, TypeInv, TypeOK, DataOK
<1>2. job[w] # job[v]
    BY <1>1 DEF Exclusive
<1> QED BY <1>1, <1>2 DEF OnePublish, Payout

LEMMA NextPlace ==
    ASSUME OnePublish, PlaceInv, [Next]_vars
    PROVE  PlaceInv'
<1> SUFFICES ASSUME faults' = 0, NEW v \in Workers PROVE PlaceOK(v)'
    BY NextOutcome DEF PlaceInv, InPlace
<1>1. TypeOK /\ DataOK /\ WorkerOK(v) /\ faults \in Nat
  <2>1. TypeOK
    BY DEF PlaceInv, OutcomeInv, TypeInv
  <2>2. DataOK /\ WorkerOK(v)
    BY <2>1 DEF TypeOK
  <2>3. faults \in Nat
    BY <2>2, BoundAssumption DEF DataOK
  <2> QED BY <2>1, <2>2, <2>3
<1>2. /\ status \in [Payouts -> Statuses] /\ draft \in [Workers -> Drafts]
      /\ pc \in [Workers -> Busy \cup {"idle", "stopped"}]
      /\ job \in [Workers -> Messages \cup {None}] /\ delivered \in [Workers -> BOOLEAN]
      /\ pc[v] \in Busy <=> job[v] # None
      /\ pc[v] \in Busy \ {"drop"} => Payout(v) \in Payouts
    BY <1>1 DEF DataOK, WorkerOK
<1>3. CASE UNCHANGED vars
    BY <1>3 DEF vars, row, PlaceInv, InPlace, PlaceOK, Payout, Underway
<1>4. ASSUME NEW w \in Workers, Faults(w) PROVE FALSE
    BY <1>1, <1>4
    DEF Faults, StatementFails, CommitAckLost, ProviderFails, Disconnect, Stop, Fault
<1>5. ASSUME NEW w \in Workers, Step(w) \/ \E m \in Messages : Take(w, m)
      PROVE  PlaceOK(v)'
  <2>0. UNCHANGED faults
    BY <1>5
    DEF Step, Take, Read, MarkProcessing, CommitPrepare, CommitSkip, Execute, Record, Notify,
        CommitRecord, Ack, Nack, Drop, Start
  <2>1. PlaceOK(v)
    BY <2>0 DEF PlaceInv, InPlace
  \* Whatever another worker does, it does to another payout.
  <2>2. CASE w # v
    <3>1. pc'[v] = pc[v] /\ draft'[v] = draft[v] /\ job'[v] = job[v] /\ delivered'[v] = delivered[v]
      BY <1>1, <1>5, <2>2, OthersKeep
    <3>2. Payout(v)' = Payout(v)
      BY <3>1 DEF Payout
    <3>3. pc[v] \in Busy \ {"drop"} => status'[Payout(v)] = status[Payout(v)]
      <4>1. CASE CommitPrepare(w) \/ CommitRecord(w)
        <5>1. /\ Payout(w) \in Payouts /\ job[w] # None
              /\ \A p \in Payouts \ {Payout(w)} : status'[p] = status[p]
          BY <4>1, CommitsWrite DEF PlaceInv
        <5> QED BY <1>2, <2>0, <2>2, <5>1, Alone
      <4>2. CASE ~CommitPrepare(w) /\ ~CommitRecord(w)
        BY <1>5, <4>2, OnlyCommitsWrite
      <4> QED BY <4>1, <4>2
    <3> QED
        BY <2>1, <3>1, <3>2, <3>3 DEF PlaceOK, Underway, Busy, Statements, Commits
  <2>3. CASE w = v
    <3> USE <1>2, <2>1, <2>3
    <3>1. CASE \E m \in Messages : Take(v, m)
      <4>1. pc'[v] \in {"drop", "read"} /\ delivered'[v]
        BY <3>1 DEF Take
      <4> QED BY <4>1 DEF PlaceOK, Underway
    <3>2. CASE Read(v)
      <4>1. /\ Payout(v)' = Payout(v) /\ UNCHANGED <<status, draft, job, delivered>>
            /\ pc'[v] = Gate(status[Payout(v)]) /\ Payout(v) \in Payouts
            /\ draft[v] = None
        BY <1>1, <3>2 DEF Read, Goto, Payout, row, Busy, Statements, WorkerOK
      <4>2. /\ pc'[v] = "markProcessing" => status[Payout(v)] = "pending"
            /\ pc'[v] = "commitPrepare" => status[Payout(v)] = "processing"
            /\ pc'[v] \notin {"execute", "record", "notify", "commitRecord"}
        BY <4>1 DEF Gate, Statuses, Final
      <4> QED BY <4>1, <4>2 DEF PlaceOK, Underway
    <3>3. CASE MarkProcessing(v)
      <4>1. /\ Payout(v)' = Payout(v) /\ UNCHANGED <<status, job, delivered>>
            /\ pc[v] = "markProcessing" /\ pc'[v] = "commitPrepare"
        BY <3>3 DEF MarkProcessing, Goto, Payout, row
      <4>2. draft'[v] # None
        <5>1. Payout(v) \in Payouts /\ reason[Payout(v)] \in Reasons
          BY <1>1, <4>1 DEF DataOK, Busy, Statements
        <5>2. [status |-> "processing", reason |-> reason[Payout(v)], webhook |-> FALSE] \in Rows
          BY <5>1 DEF Rows, Statuses
        <5> QED BY <3>3, <5>2, RowAssumption DEF MarkProcessing, Write
      <4> QED BY <4>1, <4>2 DEF PlaceOK, Underway
    <3>4. CASE CommitPrepare(v)
      <4>1. /\ pc[v] = "commitPrepare" /\ pc'[v] = "execute" /\ job' = job
            /\ status'[Payout(v)] = IF draft[v] = None THEN status[Payout(v)] ELSE "processing"
        BY <3>4, CommitsWrite DEF PlaceInv
      <4>2. Payout(v)' = Payout(v) /\ delivered' = delivered
        BY <3>4, <4>1 DEF Payout, CommitPrepare
      <4> QED BY <4>1, <4>2 DEF PlaceOK, Underway
    <3>5. CASE (\E o \in Outcomes : Execute(v, o)) \/ Record(v) \/ Notify(v)
      <4>1. /\ pc[v] \in {"execute", "record", "notify"}
            /\ pc'[v] \in {"record", "notify", "commitRecord"}
            /\ UNCHANGED <<status, job, delivered>>
        BY <3>5 DEF Execute, Record, Notify, Goto, row
      <4> QED BY <4>1 DEF PlaceOK, Underway, Payout
    <3>6. CASE CommitSkip(v) \/ CommitRecord(v)
      <4>1. pc'[v] = "ack" /\ UNCHANGED <<job, delivered>>
        BY <3>6 DEF CommitSkip, CommitRecord, Goto, Apply
      <4> QED BY <4>1 DEF PlaceOK, Underway
    <3>7. CASE Ack(v) \/ Nack(v) \/ Drop(v)
      <4>1. pc'[v] \in {"idle", "stopped"} /\ job'[v] = None
        BY <3>7 DEF Ack, Nack, Drop, Settle
      <4> QED BY <4>1 DEF PlaceOK, Underway
    <3>8. CASE Start(v)
      <4>1. pc'[v] = "idle" /\ UNCHANGED <<job, delivered>>
        BY <3>8 DEF Start, Goto
      <4> QED BY <4>1 DEF PlaceOK, Underway
    <3> QED
        BY <1>5, <3>1, <3>2, <3>3, <3>4, <3>5, <3>6, <3>7, <3>8 DEF Step
  <2> QED BY <2>2, <2>3
<1> QED BY <1>3, <1>4, <1>5 DEF Next, Terminating

\* Until something goes wrong, a row moves along the table.
TransitionsUntilFault ==
    [][faults' = 0 => \A p \in Payouts :
          status'[p] # status[p] => CanTransition(status[p], status'[p])]_vars

\* The transitions are those of domain/payout/status.go:21 as long as each job
\* is published once and nothing fails: the races of workers alone do not
\* violate them, it takes a second message or a fault (execution.go:64-115).
THEOREM TransitionsHaveACause ==
    ASSUME OnePublish
    PROVE  Spec => TransitionsUntilFault
<1> DEFINE Moves == faults' = 0 => \A p \in Payouts :
              status'[p] # status[p] => CanTransition(status[p], status'[p])
<1>1. ASSUME PlaceInv, [Next]_vars PROVE Moves
  <2> SUFFICES ASSUME faults' = 0, NEW p \in Payouts, status'[p] # status[p]
               PROVE  CanTransition(status[p], status'[p])
      OBVIOUS
  <2>1. faults \in Nat
    BY <1>1, BoundAssumption DEF PlaceInv, OutcomeInv, TypeInv, TypeOK, DataOK
  <2>2. ASSUME NEW w \in Workers, Faults(w) PROVE FALSE
    BY <2>1, <2>2
    DEF Faults, StatementFails, CommitAckLost, ProviderFails, Disconnect, Stop, Fault
  <2>3. PICK w \in Workers : CommitPrepare(w) \/ CommitRecord(w)
    BY <1>1, <2>2, OnlyCommitsWrite DEF Next, Terminating, vars, row
  <2>4. UNCHANGED faults /\ p = Payout(w)
    BY <1>1, <2>3, CommitsWrite DEF PlaceInv, CommitPrepare, CommitRecord
  <2>5. PlaceOK(w)
    BY <1>1, <2>4 DEF PlaceInv, InPlace
  <2>6. CASE CommitPrepare(w)
    BY <1>1, <2>4, <2>5, <2>6, CommitsWrite DEF PlaceInv, PlaceOK, CanTransition
  <2>7. CASE CommitRecord(w)
    BY <1>1, <2>4, <2>5, <2>7, CommitsWrite DEF PlaceInv, PlaceOK, Underway, CanTransition
  <2> QED BY <2>3, <2>6, <2>7
<1> QED BY <1>1, InitPlace, NextPlace, PTL DEF Spec, TransitionsUntilFault
=============================================================================
