------------------------- MODULE PayoutIntakeProofs -------------------------
(***************************************************************************)
(* Proofs about PayoutIntake, for any calls, requests and funding sources. *)
(***************************************************************************)
EXTENDS PayoutIntake, TLAPS

----------------------------------------------------------------------------
(* The inductive invariant. *)

HasPayout(c) == \E p \in payouts : p.id = c
HasKey(c) == \E k \in keys : k.payoutId = c
HasEvent(c) == \E e \in events : e.entityId = c
Live(c) == txn[c] \in {"active", "committed"}

\* A committed key backs the payout id for the request of call c.
Backed(c, id) ==
    \E k \in CommittedKeys :
        /\ SameKey(k, request[c])
        /\ SameHash(k, request[c])
        /\ k.payoutId = id

\* A transaction is open exactly while its statements run.
TxnInv ==
    \A c \in Calls :
        /\ pc[c] \in TxnStatements <=> txn[c] = "active"
        /\ pc[c] = "idle" => txn[c] = "none" /\ request[c] = None
        /\ pc[c] \in ReloadStatements => txn[c] = "aborted"
        /\ HasPayout(c) => txn[c] # "none"

\* Rows repeat the request of the call that wrote them, in the order written.
RowInv ==
    /\ \A p \in payouts : p = PayoutRow(p.id, request[p.id])
    /\ \A k \in keys :
          k = KeyRow(k.payoutId, request[k.payoutId]) /\ HasPayout(k.payoutId)
    /\ \A e \in events :
          e = EventRow(e.entityId, request[e.entityId]) /\ HasKey(e.entityId)

\* How far a transaction is tells which of its rows are there.
ProgressInv ==
    \A c \in Calls :
        /\ HasPayout(c) => pc[c] \notin {"idle", "lookupKey", "loadPayout",
                                         "checkFunding", "insertPayout"}
        /\ HasPayout(c) \/ pc[c] = "insertPayout" => Funded(request[c])
        /\ HasKey(c) => pc[c] # "insertKey"
        /\ pc[c] \in {"insertKey", "insertEvent"} => HasPayout(c)
        /\ pc[c] = "insertEvent" => HasKey(c)
        /\ HasPayout(c) /\ pc[c] = "commit" => HasEvent(c) /\ chosen[c] = c
        /\ HasPayout(c) /\ txn[c] = "committed" => HasEvent(c)

\* The unique indexes, over every row whose transaction did not abort.
UniqueInv ==
    /\ \A k, l \in keys :
          Live(k.payoutId) /\ Live(l.payoutId) /\ SameKey(k, l)
             => k.payoutId = l.payoutId
    /\ \A p, q \in payouts :
          Live(p.id) /\ Live(q.id) /\ SameExternalId(p, q) => p.id = q.id

\* What a call holds, or has answered, is backed by a committed key.
AnswerOk(c) ==
    /\ pc[c] # "answered" => answer[c] = NoAnswer
    /\ pc[c] = "reloadKey" => KeyTaken(request[c])
    /\ pc[c] \in {"loadPayout", "reloadPayout", "reply"}
          => Backed(c, chosen[c])
    /\ pc[c] = "commit" /\ ~HasPayout(c) => Backed(c, chosen[c])
    /\ answer[c].code = "created" => Backed(c, answer[c].payout)
    /\ answer[c].code \in ErrorCodes \ {"internal"} => txn[c] # "committed"

AnswerInv == \A c \in Calls : AnswerOk(c)

\* The first four, inductive by themselves: where each call and its rows stand.
PlaceInv == TypeOK /\ TxnInv /\ RowInv /\ ProgressInv

IInv == PlaceInv /\ UniqueInv /\ AnswerInv

----------------------------------------------------------------------------
(* Type correctness. *)

LEMMA InitTypes == Init => TypeOK
BY DEF Init, TypeOK, Labels, InFlight, TxnStatements, ReloadStatements, Answers

\* What every action does to the types, one action per step.
LEMMA NextTypes == TypeOK /\ [Next]_vars => TypeOK'
<1> SUFFICES ASSUME TypeOK, [Next]_vars PROVE TypeOK'
    OBVIOUS
<1> USE DEF TypeOK, Labels, InFlight, TxnStatements, ReloadStatements, tables
<1>1. ASSUME NEW c \in Calls, NEW code \in ErrorCodes, Refuse(c, code)
      PROVE  TypeOK'
    BY <1>1 DEF Refuse, Rollback, Answers
<1>2. ASSUME NEW c \in Calls, NEW r \in Requests, Receive(c, r)
      PROVE  TypeOK'
    BY <1>2 DEF Receive, ValidationError, ErrorCodes, Answers, StorableRequests
<1>3. ASSUME NEW c \in Calls, NEW from \in InFlight, NEW to \in InFlight,
             NEW missing \in InFlight, LoadKey(c, from, to, missing)
      PROVE  TypeOK'
  <2>1. CASE ~KeyTaken(request[c])
    BY <1>3, <2>1 DEF LoadKey, Goto
  <2>2. ASSUME NEW k \in CommittedKeys, ~SameHash(k, request[c]),
               Refuse(c, "idempotencyConflict")
        PROVE  TypeOK'
    BY <1>1, <2>2 DEF ErrorCodes
  <2>3. ASSUME NEW k \in CommittedKeys, Goto(c, from, to),
               chosen' = [chosen EXCEPT ![c] = k.payoutId],
               UNCHANGED <<request, answer, txn, tables>>
        PROVE  TypeOK'
    <3>1. k.payoutId \in Calls
      BY DEF CommittedKeys, KeyRow
    <3> QED BY <2>3, <3>1 DEF Goto
  <2> QED BY <1>3, <2>1, <2>2, <2>3 DEF LoadKey
<1>4. ASSUME NEW c \in Calls, NEW from \in InFlight, NEW to \in InFlight,
             LoadPayout(c, from, to)
      PROVE  TypeOK'
    BY <1>1, <1>4 DEF LoadPayout, Goto, ErrorCodes
<1>5. ASSUME NEW c \in Calls, CheckFunding(c) PROVE TypeOK'
    BY <1>1, <1>5 DEF CheckFunding, Goto, ErrorCodes
<1>6. ASSUME NEW c \in Calls, InsertPayout(c) PROVE TypeOK'
    BY <1>1, <1>6 DEF InsertPayout, Goto, ErrorCodes
<1>7. ASSUME NEW c \in Calls, InsertKey(c) PROVE TypeOK'
    BY <1>7 DEF InsertKey, Goto, Rollback
<1>8. ASSUME NEW c \in Calls, InsertEvent(c) PROVE TypeOK'
    BY <1>8 DEF InsertEvent, Goto
<1>9. ASSUME NEW c \in Calls, Commit(c) PROVE TypeOK'
    BY <1>9 DEF Commit, Goto
<1>10. ASSUME NEW c \in Calls, Reply(c) PROVE TypeOK'
    BY <1>10 DEF Reply, Goto, Answers, ErrorCodes
<1>11. ASSUME NEW c \in Calls, CommitAckLost(c) PROVE TypeOK'
    BY <1>11 DEF CommitAckLost, Goto, Answers, ErrorCodes
<1>12. ASSUME NEW c \in Calls, Lose(c) PROVE TypeOK'
    BY <1>12 DEF Lose, Rollback
<1>13. CASE UNCHANGED vars
    BY <1>13 DEF vars
<1>14. ASSUME NEW c \in Calls, Step(c) \/ Fault(c) PROVE TypeOK'
  <2> HIDE DEF TypeOK
  <2>1. LookupKey(c) \/ ReloadKey(c) => TypeOK'
    BY <1>3 DEF LookupKey, ReloadKey
  <2>3. LoadExisting(c) \/ ReloadPayout(c) => TypeOK'
    BY <1>4 DEF LoadExisting, ReloadPayout
  <2>2. StatementFails(c) => TypeOK'
    BY <1>1 DEF StatementFails, ErrorCodes
  <2> QED BY <1>5, <1>6, <1>7, <1>8, <1>9, <1>10, <1>11, <1>12, <1>14,
             <2>1, <2>2, <2>3
          DEF Step, Fault
<1> QED BY <1>2, <1>13, <1>14 DEF Next, Terminating

\* The type invariant holds in every behaviour: rows carry only values that
\* passed validation, and a call under way holds a valid request.
THEOREM TypesHold == Spec => []TypeOK
BY InitTypes, NextTypes, PTL DEF Spec

----------------------------------------------------------------------------
(* Where calls, transactions and rows stand. *)

LEMMA InitPlace == Init => PlaceInv
<1> SUFFICES ASSUME Init PROVE TxnInv /\ RowInv /\ ProgressInv
    BY InitTypes DEF PlaceInv
<1> QED BY DEF Init, TxnInv, RowInv, ProgressInv, HasPayout, HasKey, HasEvent,
               TxnStatements, ReloadStatements

LEMMA NextPlace == PlaceInv /\ [Next]_vars => PlaceInv'
<1> SUFFICES ASSUME PlaceInv, [Next]_vars
             PROVE  TxnInv' /\ RowInv' /\ ProgressInv'
    BY NextTypes DEF PlaceInv
<1> DEFINE Place == TxnInv /\ RowInv /\ ProgressInv
<1> USE DEF PlaceInv, TypeOK, TxnInv, RowInv, ProgressInv, HasPayout, HasKey, HasEvent, InFlight, TxnStatements, ReloadStatements, tables
<1>1. ASSUME NEW c \in Calls, NEW code \in ErrorCodes, Refuse(c, code),
             pc[c] \in InFlight \ {"reply"}
      PROVE  Place'
    BY <1>1 DEF Refuse, Rollback
<1>2. ASSUME NEW c \in Calls, NEW r \in Requests, Receive(c, r)
      PROVE  Place'
    BY <1>2 DEF Receive, ValidationError, PayoutRow, KeyRow, EventRow
<1>3. ASSUME NEW c \in Calls, NEW from, NEW to, NEW missing,
             <<from, to, missing>> \in
                 {<<"lookupKey", "loadPayout", "checkFunding">>,
                  <<"reloadKey", "reloadPayout", "reply">>},
             LoadKey(c, from, to, missing)
      PROVE  Place'
  <2>1. CASE ~KeyTaken(request[c])
    BY <1>3, <2>1 DEF LoadKey, Goto
  <2>2. CASE Refuse(c, "idempotencyConflict")
    BY <1>1, <1>3, <2>2 DEF LoadKey, ErrorCodes
  <2>3. ASSUME NEW id, Goto(c, from, to), chosen' = [chosen EXCEPT ![c] = id],
               UNCHANGED <<request, answer, txn, tables>>
        PROVE  Place'
    BY <1>3, <2>3 DEF Goto
  <2> QED BY <1>3, <2>1, <2>2, <2>3 DEF LoadKey
<1>4. ASSUME NEW c \in Calls, NEW from, NEW to,
             <<from, to>> \in {<<"loadPayout", "commit">>,
                               <<"reloadPayout", "reply">>},
             LoadPayout(c, from, to)
      PROVE  Place'
    BY <1>1, <1>4 DEF LoadPayout, Goto, ErrorCodes
<1>5. ASSUME NEW c \in Calls, CheckFunding(c) PROVE Place'
    BY <1>1, <1>5 DEF CheckFunding, Goto, ErrorCodes
<1>6. ASSUME NEW c \in Calls, InsertPayout(c) PROVE Place'
  <2>1. CASE ExternalIdTaken(request[c])
    BY <1>1, <1>6, <2>1 DEF InsertPayout, ErrorCodes
  <2>2. CASE ~ExternalIdTaken(request[c])
    <3> DEFINE row == PayoutRow(c, request[c])
    <3>1. /\ Goto(c, "insertPayout", "insertKey")
          /\ payouts' = payouts \cup {row}
          /\ UNCHANGED <<request, chosen, answer, txn, keys, events>>
      BY <1>6, <2>2 DEF InsertPayout
    <3>2. row.id = c
      BY DEF PayoutRow
    <3>3. \A d : HasPayout(d)' <=> HasPayout(d) \/ d = c
      BY <3>1, <3>2
    <3>4. \A d : HasKey(d)' = HasKey(d) /\ HasEvent(d)' = HasEvent(d)
      BY <3>1
    <3>8. ~HasKey(c)
      BY <3>1 DEF Goto
    <3> HIDE DEF row, HasPayout, HasKey, HasEvent
    <3>5. TxnInv'
      BY <3>1, <3>3 DEF Goto
    <3>6. RowInv'
      BY <3>1, <3>2, <3>3, <3>4 DEF row
    <3>7. ProgressInv'
      BY <3>1, <3>3, <3>4, <3>8 DEF Goto
    <3> QED BY <3>5, <3>6, <3>7
  <2> QED BY <2>1, <2>2
<1>7. ASSUME NEW c \in Calls, InsertKey(c) PROVE Place'
  <2>1. CASE KeyTaken(request[c])
    BY <1>7, <2>1 DEF InsertKey, Goto, Rollback
  <2>2. CASE ~KeyTaken(request[c])
    <3> DEFINE row == KeyRow(c, request[c])
    <3>1. /\ Goto(c, "insertKey", "insertEvent")
          /\ keys' = keys \cup {row}
          /\ UNCHANGED <<request, chosen, answer, txn, payouts, events>>
      BY <1>7, <2>2 DEF InsertKey
    <3>2. row.payoutId = c
      BY DEF KeyRow
    <3>3. \A d : HasKey(d)' <=> HasKey(d) \/ d = c
      BY <3>1, <3>2
    <3>4. \A d : HasPayout(d)' = HasPayout(d) /\ HasEvent(d)' = HasEvent(d)
      BY <3>1
    <3> HIDE DEF row, HasPayout, HasKey, HasEvent
    <3>5. TxnInv'
      BY <3>1, <3>4 DEF Goto
    <3>6. RowInv'
      BY <3>1, <3>2, <3>3, <3>4 DEF row, Goto
    <3>7. ProgressInv'
      BY <3>1, <3>3, <3>4 DEF Goto
    <3> QED BY <3>5, <3>6, <3>7
  <2> QED BY <2>1, <2>2
<1>8. ASSUME NEW c \in Calls, InsertEvent(c) PROVE Place'
  <2> DEFINE row == EventRow(c, request[c])
  <2>1. /\ Goto(c, "insertEvent", "commit")
        /\ events' = events \cup {row}
        /\ chosen' = [chosen EXCEPT ![c] = c]
        /\ UNCHANGED <<request, answer, txn, payouts, keys>>
    BY <1>8 DEF InsertEvent
  <2>2. row.entityId = c
    BY DEF EventRow
  <2>3. \A d : HasEvent(d)' <=> HasEvent(d) \/ d = c
    BY <2>1, <2>2
  <2>4. \A d : HasPayout(d)' = HasPayout(d) /\ HasKey(d)' = HasKey(d)
    BY <2>1
  <2> HIDE DEF row, HasPayout, HasKey, HasEvent
  <2>5. TxnInv'
    BY <2>1, <2>4 DEF Goto
  <2>6. RowInv'
    BY <2>1, <2>2, <2>3, <2>4 DEF row, Goto
  <2>7. ProgressInv'
    BY <2>1, <2>3, <2>4 DEF Goto
  <2> QED BY <2>5, <2>6, <2>7
<1>9. ASSUME NEW c \in Calls, Commit(c) PROVE Place'
    BY <1>9 DEF Commit, Goto
<1>10. ASSUME NEW c \in Calls, Reply(c) PROVE Place'
    BY <1>10 DEF Reply, Goto
<1>11. ASSUME NEW c \in Calls, CommitAckLost(c) PROVE Place'
    BY <1>11 DEF CommitAckLost, Goto
<1>12. ASSUME NEW c \in Calls, Lose(c) PROVE Place'
    BY <1>12 DEF Lose, Rollback
<1>13. CASE UNCHANGED vars
    BY <1>13 DEF vars
<1>14. ASSUME NEW c \in Calls, Step(c) \/ Fault(c) PROVE Place'
  <2> HIDE DEF Place
  <2>1. LookupKey(c) \/ ReloadKey(c) => Place'
    BY <1>3 DEF LookupKey, ReloadKey
  <2>2. LoadExisting(c) \/ ReloadPayout(c) => Place'
    BY <1>4 DEF LoadExisting, ReloadPayout
  <2>3. StatementFails(c) => Place'
    BY <1>1 DEF StatementFails, ErrorCodes
  <2> QED BY <1>5, <1>6, <1>7, <1>8, <1>9, <1>10, <1>11, <1>12, <1>14,
             <2>1, <2>2, <2>3 DEF Step, Fault
<1> QED BY <1>2, <1>13, <1>14 DEF Next, Terminating

----------------------------------------------------------------------------
(* What no step undoes. *)

\* A commit is final, a request does not change once received, and a row is
\* never taken out.
Lasting ==
    /\ \A d \in Calls : txn[d] = "committed" => txn'[d] = "committed"
    /\ \A d \in Calls : pc[d] # "idle" => request'[d] = request[d]
    /\ \A d \in Calls : Live(d)' => Live(d) \/ pc[d] = "idle"
    /\ payouts \subseteq payouts'
    /\ keys \subseteq keys'

LEMMA StepsLast == PlaceInv /\ [Next]_vars => Lasting
<1> SUFFICES ASSUME PlaceInv, [Next]_vars PROVE Lasting
    OBVIOUS
<1> USE DEF PlaceInv, TypeOK, TxnInv, InFlight, TxnStatements,
            ReloadStatements, tables, Lasting, Live, Goto, Rollback
<1>1. ASSUME NEW c \in Calls, NEW code, Refuse(c, code) PROVE Lasting
    BY <1>1 DEF Refuse
<1>2. ASSUME NEW c \in Calls, NEW r \in Requests, Receive(c, r) PROVE Lasting
    BY <1>2 DEF Receive
<1>3. ASSUME NEW c \in Calls, NEW from, NEW to, NEW missing,
             LoadKey(c, from, to, missing)
      PROVE  Lasting
    BY <1>1, <1>3 DEF LoadKey
<1>4. ASSUME NEW c \in Calls, NEW from, NEW to, LoadPayout(c, from, to)
      PROVE  Lasting
    BY <1>1, <1>4 DEF LoadPayout
<1>5. ASSUME NEW c \in Calls,
             CheckFunding(c) \/ InsertPayout(c) \/ InsertKey(c)
      PROVE  Lasting
    BY <1>1, <1>5 DEF CheckFunding, InsertPayout, InsertKey
<1>6. ASSUME NEW c \in Calls,
             \/ InsertEvent(c) \/ Commit(c) \/ Reply(c)
             \/ CommitAckLost(c) \/ Lose(c)
      PROVE  Lasting
    BY <1>6 DEF InsertEvent, Commit, Reply, CommitAckLost, Lose
<1>7. CASE UNCHANGED vars
    BY <1>7 DEF vars
<1>8. ASSUME NEW c \in Calls, Step(c) \/ Fault(c) PROVE Lasting
  <2> HIDE DEF Lasting
  <2>1. LookupKey(c) \/ ReloadKey(c) => Lasting
    BY <1>3 DEF LookupKey, ReloadKey
  <2>2. LoadExisting(c) \/ ReloadPayout(c) => Lasting
    BY <1>4 DEF LoadExisting, ReloadPayout
  <2>3. StatementFails(c) => Lasting
    BY <1>1 DEF StatementFails
  <2> QED BY <1>5, <1>6, <1>8, <2>1, <2>2, <2>3 DEF Step, Fault
<1> QED BY <1>2, <1>7, <1>8 DEF Next, Terminating

----------------------------------------------------------------------------
(* The unique indexes. *)

LEMMA RowOwners ==
    TypeOK => /\ \A p \in payouts : p.id \in Calls
              /\ \A k \in keys : k.payoutId \in Calls
              /\ \A e \in events : e.entityId \in Calls
BY DEF TypeOK, PayoutRow, KeyRow, EventRow

LEMMA OnlyInsertsAddRows ==
    [Next]_vars => \/ UNCHANGED <<payouts, keys>>
                   \/ \E c \in Calls : InsertPayout(c) /\ UNCHANGED <<txn, keys>>
                   \/ \E c \in Calls : InsertKey(c) /\ UNCHANGED <<txn, payouts>>
BY DEF Next, Step, Fault, Receive, LookupKey, ReloadKey, LoadKey, LoadExisting,
       ReloadPayout, LoadPayout, CheckFunding, InsertPayout, InsertKey,
       InsertEvent, Commit, Reply, StatementFails, CommitAckLost, Lose, Refuse,
       Terminating, vars, tables

LEMMA NextUnique == PlaceInv /\ UniqueInv /\ [Next]_vars => UniqueInv'
<1> SUFFICES ASSUME PlaceInv, UniqueInv, [Next]_vars PROVE UniqueInv'
    OBVIOUS
<1>1. Lasting /\ TypeOK
    BY StepsLast DEF PlaceInv
<1>2. /\ \A p \in payouts : p.id \in Calls /\ pc[p.id] # "idle"
      /\ \A k \in keys : k.payoutId \in Calls /\ pc[k.payoutId] # "idle"
    BY <1>1, RowOwners DEF PlaceInv, RowInv, ProgressInv, HasPayout
<1>3. CASE UNCHANGED <<payouts, keys>>
    BY <1>1, <1>2, <1>3 DEF UniqueInv, Lasting, SameKey, SameExternalId
<1>4. ASSUME NEW c \in Calls, InsertPayout(c), UNCHANGED <<txn, keys>>
      PROVE  UniqueInv'
  <2> DEFINE row == PayoutRow(c, request[c])
  <2>1. CASE UNCHANGED payouts
    BY <1>3, <1>4, <2>1
  <2>2. CASE payouts' = payouts \cup {row}
    <3>1. ASSUME ~ExternalIdTaken(request[c])
          PROVE  \A p \in payouts : Live(p.id) => ~SameExternalId(p, row)
      BY <1>4, <3>1 DEF InsertPayout, ExternalIdLocked, ExternalIdTaken,
                        CommittedPayouts, SameExternalId, PayoutRow, Live
    <3>2. CASE ExternalIdTaken(request[c])
      BY <1>3, <1>4, <3>2 DEF InsertPayout, Refuse, tables
    <3>3. CASE ~ExternalIdTaken(request[c])
      BY <1>4, <2>2, <3>1, <3>3 DEF UniqueInv, Live, SameKey, SameExternalId
    <3> QED BY <3>2, <3>3
  <2> QED BY <1>4, <2>1, <2>2 DEF InsertPayout, Refuse, tables
<1>5. ASSUME NEW c \in Calls, InsertKey(c), UNCHANGED <<txn, payouts>>
      PROVE  UniqueInv'
  <2> DEFINE row == KeyRow(c, request[c])
  <2>1. CASE UNCHANGED keys
    BY <1>3, <1>5, <2>1
  <2>2. CASE ~KeyTaken(request[c]) /\ keys' = keys \cup {row}
    <3>1. \A k \in keys : Live(k.payoutId) => ~SameKey(k, row)
      BY <1>5, <2>2 DEF InsertKey, KeyLocked, KeyTaken, CommittedKeys, SameKey,
                        KeyRow, Live
    <3> QED BY <1>5, <2>2, <3>1 DEF UniqueInv, Live, SameKey, SameExternalId
  <2> QED BY <1>5, <2>1, <2>2 DEF InsertKey, tables
<1> QED BY <1>3, <1>4, <1>5, OnlyInsertsAddRows

----------------------------------------------------------------------------
(* What calls hold and answer. *)

LEMMA InitRest == Init => UniqueInv /\ AnswerInv
BY DEF Init, UniqueInv, AnswerInv, AnswerOk, NoAnswer, Refused, ErrorCodes

\* A committed key goes on backing what it backs.
LEMMA BackedLasts ==
    ASSUME TypeOK, Lasting, NEW c \in Calls, pc[c] # "idle"
    PROVE  /\ \A id : Backed(c, id) => Backed(c, id)'
           /\ KeyTaken(request[c]) => KeyTaken(request[c])'
BY RowOwners DEF Lasting, Backed, KeyTaken, CommittedKeys, SameKey, SameHash, RequestHash

\* A call that a step does not concern is as it was.
LEMMA OthersKeep ==
    ASSUME PlaceInv, Lasting, NEW d \in Calls, AnswerOk(d),
           pc'[d] = pc[d], chosen'[d] = chosen[d], answer'[d] = answer[d],
           txn'[d] = txn[d], HasPayout(d)' = HasPayout(d)
    PROVE  AnswerOk(d)'
<1>1. CASE pc[d] = "idle"
    BY <1>1 DEF AnswerOk, NoAnswer, Refused, ErrorCodes
<1>2. CASE pc[d] # "idle"
    BY <1>2, BackedLasts DEF AnswerOk, PlaceInv
<1> QED BY <1>1, <1>2

LEMMA NextAnswers == IInv /\ [Next]_vars => AnswerInv'
<1> SUFFICES ASSUME IInv, [Next]_vars PROVE AnswerInv'
    OBVIOUS
<1>1. PlaceInv /\ TypeOK /\ AnswerInv /\ Lasting
    BY StepsLast DEF IInv, PlaceInv
<1> DEFINE Same(d) == /\ pc'[d] = pc[d] /\ chosen'[d] = chosen[d]
                      /\ answer'[d] = answer[d] /\ txn'[d] = txn[d]
                      /\ HasPayout(d)' = HasPayout(d)
           Others(c) == \A d \in Calls \ {c} : Same(d)
\* It is enough to look at the call that moves.
<1>2. ASSUME NEW c \in Calls, Others(c), AnswerOk(c)' PROVE AnswerInv'
    BY <1>1, <1>2, OthersKeep DEF AnswerInv
<1>3. ASSUME NEW c \in Calls, NEW code \in ErrorCodes, Refuse(c, code),
             pc[c] \in InFlight \ {"reply"}
      PROVE  AnswerInv'
  <2>1. Others(c)
    BY <1>1, <1>3 DEF TypeOK, Refuse, Rollback, tables, HasPayout
  <2>2. /\ pc'[c] = "answered"
        /\ answer'[c] = Refused(code)
        /\ txn'[c] = "aborted"
    BY <1>1, <1>3 DEF TypeOK, Refuse, Rollback, PlaceInv, TxnInv, InFlight,
                      TxnStatements, ReloadStatements
  <2>3. AnswerOk(c)'
    BY <2>2 DEF AnswerOk, Refused, ErrorCodes
  <2> QED BY <1>2, <2>1, <2>3
<1>4. ASSUME NEW c \in Calls, NEW r \in Requests, Receive(c, r)
      PROVE  AnswerInv'
  <2>1. Others(c)
    BY <1>1, <1>4 DEF TypeOK, Receive, tables, HasPayout
  <2>2. CASE ValidationError(r) = "none"
    <3>1. pc'[c] = "lookupKey" /\ answer'[c] = NoAnswer
      BY <1>1, <1>4, <2>2 DEF TypeOK, Receive, AnswerInv, AnswerOk
    <3>2. AnswerOk(c)'
      BY <3>1 DEF AnswerOk, NoAnswer, Refused, ErrorCodes
    <3> QED BY <1>2, <2>1, <3>2
  <2>3. CASE ValidationError(r) # "none"
    <3>1. /\ pc'[c] = "answered"
          /\ answer'[c] = Refused(ValidationError(r))
          /\ txn'[c] = "none"
      BY <1>1, <1>4, <2>3 DEF TypeOK, Receive, PlaceInv, TxnInv
    <3>2. ValidationError(r) \in {"invalidIdempotencyKey", "invalidPayout"}
      BY <2>3 DEF ValidationError
    <3>3. AnswerOk(c)'
      BY <3>1, <3>2 DEF AnswerOk, Refused, ErrorCodes
    <3> QED BY <1>2, <2>1, <3>3
  <2> QED BY <2>2, <2>3
<1>5. ASSUME NEW c \in Calls, NEW from, NEW to, NEW missing,
             <<from, to, missing>> \in
                 {<<"lookupKey", "loadPayout", "checkFunding">>,
                  <<"reloadKey", "reloadPayout", "reply">>},
             LoadKey(c, from, to, missing)
      PROVE  AnswerInv'
  <2>1. CASE ~KeyTaken(request[c])
    <3>1. from = "lookupKey" /\ Goto(c, "lookupKey", "checkFunding")
          /\ UNCHANGED <<request, chosen, answer, txn, tables>>
      BY <1>1, <1>5, <2>1 DEF LoadKey, AnswerInv, AnswerOk
    <3>2. Others(c)
      BY <1>1, <3>1 DEF TypeOK, Goto, tables, HasPayout
    <3>3. pc'[c] = "checkFunding" /\ answer'[c] = NoAnswer
      BY <1>1, <3>1 DEF TypeOK, Goto, AnswerInv, AnswerOk
    <3>4. AnswerOk(c)'
      BY <3>3 DEF AnswerOk, NoAnswer, Refused, ErrorCodes
    <3> QED BY <1>2, <3>2, <3>4
  <2>2. CASE Refuse(c, "idempotencyConflict")
    BY <1>3, <1>5, <2>2 DEF LoadKey, ErrorCodes, InFlight, TxnStatements,
                            ReloadStatements
  <2>3. ASSUME NEW k \in CommittedKeys, SameKey(k, request[c]),
               SameHash(k, request[c]), Goto(c, from, to),
               chosen' = [chosen EXCEPT ![c] = k.payoutId],
               UNCHANGED <<request, answer, txn, tables>>
        PROVE  AnswerInv'
    <3>1. Others(c)
      BY <1>1, <2>3 DEF TypeOK, Goto, tables, HasPayout
    <3>2. /\ pc'[c] \in {"loadPayout", "reloadPayout"}
          /\ answer'[c] = NoAnswer
          /\ chosen'[c] = k.payoutId
      BY <1>1, <1>5, <2>3 DEF TypeOK, Goto, AnswerInv, AnswerOk
    <3>3. Backed(c, k.payoutId)'
      BY <2>3 DEF Backed, CommittedKeys, tables, SameKey, SameHash, RequestHash
    <3>4. AnswerOk(c)'
      BY <3>2, <3>3 DEF AnswerOk, NoAnswer, Refused, ErrorCodes, Backed
    <3> QED BY <1>2, <3>1, <3>4
  <2> QED BY <1>5, <2>1, <2>2, <2>3 DEF LoadKey
<1>6. ASSUME NEW c \in Calls, NEW from, NEW to,
             <<from, to>> \in {<<"loadPayout", "commit">>,
                               <<"reloadPayout", "reply">>},
             LoadPayout(c, from, to)
      PROVE  AnswerInv'
  <2>1. CASE Refuse(c, "internal")
    BY <1>3, <1>6, <2>1 DEF LoadPayout, ErrorCodes, InFlight, TxnStatements,
                            ReloadStatements
  <2>2. CASE Goto(c, from, to) /\ UNCHANGED <<request, chosen, answer, txn, tables>>
    <3>1. Others(c)
      BY <1>1, <2>2 DEF TypeOK, Goto, tables, HasPayout
    <3>2. /\ pc'[c] \in {"commit", "reply"}
          /\ answer'[c] = NoAnswer
      BY <1>1, <1>6, <2>2 DEF TypeOK, Goto, AnswerInv, AnswerOk
    <3>4. Backed(c, chosen[c])
      BY <1>1, <1>6, <2>2 DEF Goto, AnswerInv, AnswerOk
    <3>5. Backed(c, chosen[c])'
      BY <3>4, <2>2 DEF tables, Backed, CommittedKeys
    <3>3. AnswerOk(c)'
      BY <3>2, <3>5 DEF AnswerOk, NoAnswer, Refused, ErrorCodes
    <3> QED BY <1>2, <3>1, <3>3
  <2> QED BY <1>6, <2>1, <2>2 DEF LoadPayout
<1>7. ASSUME NEW c \in Calls,
             NEW to \in {"insertPayout", "insertKey", "insertEvent", "reloadKey"},
             pc[c] \in InFlight, pc'[c] = to, Others(c), UNCHANGED answer,
             to = "reloadKey" => KeyTaken(request[c])'
      PROVE  AnswerInv'
  <2>1. answer'[c] = NoAnswer
    BY <1>1, <1>7 DEF AnswerInv, AnswerOk, InFlight, TxnStatements,
                      ReloadStatements
  <2>2. AnswerOk(c)'
    BY <1>7, <2>1 DEF AnswerOk, NoAnswer, Refused, ErrorCodes
  <2> QED BY <1>2, <1>7, <2>2
<1>8. ASSUME NEW c \in Calls, CheckFunding(c) PROVE AnswerInv'
  <2> USE DEF InFlight, TxnStatements, ReloadStatements, ErrorCodes
  <2>1. CASE Funded(request[c])
    BY <1>1, <1>7, <1>8, <2>1 DEF CheckFunding, Goto, TypeOK, tables, HasPayout
  <2>2. CASE ~Funded(request[c])
    BY <1>3, <1>8, <2>2 DEF CheckFunding
  <2> QED BY <2>1, <2>2
<1>9. ASSUME NEW c \in Calls, InsertPayout(c) PROVE AnswerInv'
  <2> USE DEF InFlight, TxnStatements, ReloadStatements, ErrorCodes
  <2>1. CASE ~ExternalIdTaken(request[c])
    <3>1. Others(c)
      BY <1>1, <1>9, <2>1 DEF InsertPayout, Goto, TypeOK, HasPayout, PayoutRow
    <3> QED BY <1>1, <1>7, <1>9, <2>1, <3>1 DEF InsertPayout, Goto, TypeOK
  <2>2. CASE ExternalIdTaken(request[c])
    BY <1>3, <1>9, <2>2 DEF InsertPayout
  <2> QED BY <2>1, <2>2
<1>10. ASSUME NEW c \in Calls, InsertKey(c) PROVE AnswerInv'
  <2> USE DEF InFlight, TxnStatements, ReloadStatements, ErrorCodes
  <2>1. CASE ~KeyTaken(request[c])
    BY <1>1, <1>7, <1>10, <2>1 DEF InsertKey, Goto, TypeOK, HasPayout
  <2>2. CASE KeyTaken(request[c])
    <3>1. Others(c)
      BY <1>1, <1>10, <2>2 DEF InsertKey, Goto, Rollback, TypeOK, tables, HasPayout
    <3>2. KeyTaken(request[c])'
      BY <1>1, <1>10, <2>2, BackedLasts DEF InsertKey, Goto
    <3> QED BY <1>1, <1>7, <1>10, <2>2, <3>1, <3>2 DEF InsertKey, Goto, TypeOK
  <2> QED BY <2>1, <2>2
<1>11. ASSUME NEW c \in Calls, InsertEvent(c) PROVE AnswerInv'
  <2>1. Others(c)
    BY <1>1, <1>11 DEF InsertEvent, Goto, TypeOK, HasPayout
  <2>2. pc'[c] = "commit" /\ answer'[c] = NoAnswer /\ HasPayout(c)'
    BY <1>1, <1>11 DEF InsertEvent, Goto, TypeOK, AnswerInv, AnswerOk,
                       PlaceInv, ProgressInv, HasPayout
  <2>3. AnswerOk(c)'
    BY <2>2 DEF AnswerOk, NoAnswer, Refused, ErrorCodes
  <2> QED BY <1>2, <2>1, <2>3
\* The transaction commits: its key, if it wrote one, now backs the call.
<1>12. ASSUME NEW c \in Calls, pc[c] = "commit",
              txn' = [txn EXCEPT ![c] = "committed"],
              UNCHANGED <<request, chosen, tables>>
       PROVE  Backed(c, chosen[c])'
  <2>1. CASE HasPayout(c)
    <3>1. HasKey(c) /\ chosen[c] = c
      BY <1>1, <1>12, <2>1 DEF PlaceInv, ProgressInv, RowInv, HasEvent
    <3>2. PICK k \in keys : k.payoutId = c
      BY <3>1 DEF HasKey
    <3>3. k = KeyRow(c, request[c])
      BY <1>1, <3>2 DEF PlaceInv, RowInv
    <3>4. SameKey(k, request[c]) /\ SameHash(k, request[c])
      BY <3>3 DEF KeyRow, SameKey, SameHash
    <3> QED BY <1>1, <1>12, <3>1, <3>2, <3>4
            DEF Backed, CommittedKeys, tables, TypeOK, SameKey, SameHash, RequestHash
  <2>2. CASE ~HasPayout(c)
    <3>1. Backed(c, chosen[c])
      BY <1>1, <1>12, <2>2 DEF AnswerInv, AnswerOk
    <3> QED BY <1>1, <1>12, <3>1
            DEF Backed, CommittedKeys, tables, TypeOK, SameKey, SameHash, RequestHash
  <2> QED BY <2>1, <2>2
<1>13. ASSUME NEW c \in Calls, Commit(c) PROVE AnswerInv'
  <2>1. Others(c)
    BY <1>1, <1>13 DEF Commit, Goto, TypeOK, tables, HasPayout
  <2>2. pc'[c] = "reply" /\ answer'[c] = NoAnswer
    BY <1>1, <1>13 DEF Commit, Goto, TypeOK, AnswerInv, AnswerOk
  <2>4. Backed(c, chosen[c])'
    BY <1>12, <1>13 DEF Commit, Goto
  <2>3. AnswerOk(c)'
    BY <2>2, <2>4 DEF AnswerOk, NoAnswer, Refused, ErrorCodes
  <2> QED BY <1>2, <2>1, <2>3
<1>14. ASSUME NEW c \in Calls, CommitAckLost(c) PROVE AnswerInv'
  <2>1. Others(c)
    BY <1>1, <1>14 DEF CommitAckLost, Goto, TypeOK, tables, HasPayout
  <2>2. pc'[c] = "answered" /\ answer'[c] = Refused("internal")
    BY <1>1, <1>14 DEF CommitAckLost, Goto, TypeOK
  <2>3. AnswerOk(c)'
    BY <2>2 DEF AnswerOk, Refused
  <2> QED BY <1>2, <2>1, <2>3
<1>15. ASSUME NEW c \in Calls, Reply(c) PROVE AnswerInv'
  <2>1. Others(c)
    BY <1>1, <1>15 DEF Reply, Goto, TypeOK, tables, HasPayout
  <2>2. /\ pc'[c] = "answered"
        /\ answer'[c] \in {Refused("internal"), Created(chosen[c])}
        /\ Backed(c, chosen[c])
    BY <1>1, <1>15 DEF Reply, Goto, TypeOK, AnswerInv, AnswerOk
  <2>3. Backed(c, chosen[c])'
    BY <2>2, <1>15 DEF Reply, Backed, CommittedKeys, tables
  <2>4. AnswerOk(c)'
    BY <2>2, <2>3, <1>15 DEF AnswerOk, Refused, Created, ErrorCodes, Reply
  <2> QED BY <1>2, <2>1, <2>4
<1>16. ASSUME NEW c \in Calls, Lose(c) PROVE AnswerInv'
  <2>1. Others(c)
    BY <1>1, <1>16 DEF Lose, Rollback, TypeOK, tables, HasPayout
  <2>2. pc'[c] = "lost" /\ answer'[c] = NoAnswer
    BY <1>1, <1>16 DEF Lose, TypeOK, AnswerInv, AnswerOk, InFlight,
                       TxnStatements, ReloadStatements
  <2>3. AnswerOk(c)'
    BY <2>2 DEF AnswerOk, NoAnswer, Refused, ErrorCodes
  <2> QED BY <1>2, <2>1, <2>3
<1>17. CASE UNCHANGED vars
    BY <1>1, <1>17 DEF vars, AnswerInv, AnswerOk, KeyTaken, Backed, HasPayout,
                       CommittedKeys
<1>18. ASSUME NEW c \in Calls, Step(c) \/ Fault(c) PROVE AnswerInv'
  <2>1. LookupKey(c) \/ ReloadKey(c) => AnswerInv'
    BY <1>5 DEF LookupKey, ReloadKey
  <2>2. LoadExisting(c) \/ ReloadPayout(c) => AnswerInv'
    BY <1>6 DEF LoadExisting, ReloadPayout
  <2>3. StatementFails(c) => AnswerInv'
    BY <1>3 DEF StatementFails, ErrorCodes, InFlight, TxnStatements,
                ReloadStatements
  <2> QED BY <1>8, <1>9, <1>10, <1>11, <1>13, <1>14, <1>15, <1>16, <1>18,
             <2>1, <2>2, <2>3 DEF Step, Fault
<1> QED BY <1>4, <1>17, <1>18 DEF Next, Terminating

----------------------------------------------------------------------------
(* The theorems. *)

LEMMA Invariance == Spec => []IInv
<1>1. Init => IInv
    BY InitPlace, InitRest DEF IInv
<1>2. IInv /\ [Next]_vars => IInv'
    BY NextPlace, NextUnique, NextAnswers DEF IInv
<1> QED BY <1>1, <1>2, PTL DEF Spec

LEMMA InvImpliesAtomic == IInv => IntakeIsAtomic
<1> SUFFICES ASSUME IInv, NEW c \in Calls
             PROVE  LET p == \E row \in CommittedPayouts : row.id = c
                        k == \E row \in CommittedKeys : row.payoutId = c
                        e == \E row \in CommittedEvents : row.entityId = c
                    IN  /\ p <=> k
                        /\ k <=> e
                        /\ p => /\ PayoutRow(c, request[c]) \in payouts
                                /\ KeyRow(c, request[c]) \in keys
                                /\ EventRow(c, request[c]) \in events
  BY DEF IntakeIsAtomic
<1>1. TypeOK /\ RowInv /\ ProgressInv
  BY DEF IInv, PlaceInv
<1>2. /\ HasEvent(c) => HasKey(c)
      /\ HasKey(c) => HasPayout(c)
      /\ HasPayout(c) /\ txn[c] = "committed" => HasEvent(c)
  BY <1>1 DEF RowInv, ProgressInv, HasEvent, HasKey
<1>3. /\ HasPayout(c) => PayoutRow(c, request[c]) \in payouts
      /\ HasKey(c) => KeyRow(c, request[c]) \in keys
      /\ HasEvent(c) => EventRow(c, request[c]) \in events
  BY <1>1 DEF RowInv, HasEvent, HasKey, HasPayout
<1> QED BY <1>2, <1>3 DEF CommittedPayouts, CommittedKeys, CommittedEvents,
                          HasEvent, HasKey, HasPayout

\* A payout, its key and its outbox event are committed together or not at
\* all, and agree, whatever fails in between.
THEOREM Atomicity == Spec => []IntakeIsAtomic
BY InvImpliesAtomic, Invariance, PTL

\* A 201 names a committed payout that has a job and was made from a request
\* with the caller's own fields.
THEOREM Backing == Spec => []CreatedIsBacked
<1>1. IInv => CreatedIsBacked
  <2> SUFFICES ASSUME IInv, NEW c \in Calls, answer[c].code = "created"
               PROVE  /\ Backed(c, answer[c].payout)
                      /\ \E p \in CommittedPayouts :
                            /\ p.id = answer[c].payout
                            /\ PayoutRow(p.id, request[c]) = p
                      /\ \E e \in CommittedEvents :
                            e.entityId = answer[c].payout
    BY DEF CreatedIsBacked, Backed
  <2>1. Backed(c, answer[c].payout)
    BY DEF IInv, AnswerInv, AnswerOk
  <2>2. PICK k \in CommittedKeys :
            /\ SameHash(k, request[c])
            /\ k.payoutId = answer[c].payout
    BY <2>1 DEF Backed
  <2> DEFINE id == k.payoutId
  <2>3. id \in Calls /\ k = KeyRow(id, request[id]) /\ txn[id] = "committed"
    BY <2>2, RowOwners DEF IInv, PlaceInv, RowInv, CommittedKeys
  <2>4. /\ PayoutRow(id, request[id]) \in CommittedPayouts
        /\ EventRow(id, request[id]) \in CommittedEvents
    BY <2>2, <2>3, InvImpliesAtomic
       DEF IntakeIsAtomic, CommittedPayouts, CommittedEvents, PayoutRow, EventRow
  <2>5. RequestHash(request[id]) = RequestHash(request[c])
    BY <2>2, <2>3 DEF SameHash, KeyRow
  <2>6. PayoutRow(id, request[c]) = PayoutRow(id, request[id])
    BY <2>5 DEF RequestHash, PayoutRow
  <2> HIDE DEF id
  <2>7. PayoutRow(id, request[id]).id = id /\ EventRow(id, request[id]).entityId = id
    BY DEF PayoutRow, EventRow
  <2>8. id = answer[c].payout
    BY <2>2 DEF id
  <2> QED BY <2>1, <2>4, <2>6, <2>7, <2>8
<1> QED BY <1>1, Invariance, PTL

\* A call refused for the caller's own fault has committed no payout.
THEOREM CleanRefusal == Spec => []RefusalCreatesNothing
<1>1. IInv => RefusalCreatesNothing
    BY DEF IInv, AnswerInv, AnswerOk, RefusalCreatesNothing, CommittedPayouts
<1> QED BY <1>1, Invariance, PTL

\* No client has two committed payouts for one key or one external id.
THEOREM NoDoubling == Spec => []NoDoublePayout
<1>1. IInv => NoDoublePayout
  <2> SUFFICES ASSUME IInv, NEW p \in CommittedPayouts, NEW q \in CommittedPayouts,
                      \/ SameKey(request[p.id], request[q.id])
                      \/ SameExternalId(p, q)
               PROVE  p = q
    BY DEF NoDoublePayout
  <2>1. /\ p.id \in Calls /\ p = PayoutRow(p.id, request[p.id])
        /\ q.id \in Calls /\ q = PayoutRow(q.id, request[q.id])
    BY RowOwners DEF IInv, PlaceInv, RowInv, CommittedPayouts
  <2>2. CASE SameExternalId(p, q)
    BY <2>1, <2>2 DEF IInv, UniqueInv, CommittedPayouts, Live
  <2>3. CASE SameKey(request[p.id], request[q.id])
    <3> DEFINE k == KeyRow(p.id, request[p.id])
               l == KeyRow(q.id, request[q.id])
    <3>1. k \in keys /\ l \in keys
      BY <2>1, InvImpliesAtomic DEF IntakeIsAtomic
    <3>2. /\ k.payoutId = p.id /\ l.payoutId = q.id /\ SameKey(k, l)
          /\ Live(p.id) /\ Live(q.id)
      BY <2>3 DEF KeyRow, SameKey, CommittedPayouts, Live
    <3> HIDE DEF k, l
    <3>3. p.id = q.id
      BY <3>1, <3>2 DEF IInv, UniqueInv
    <3> QED BY <2>1, <3>3
  <2> QED BY <2>2, <2>3
<1> QED BY <1>1, Invariance, PTL

\* All calls answered 201 for one client and key are told of one payout.
THEOREM Agreement == Spec => []OneAnswerPerKey
<1>1. IInv => OneAnswerPerKey
  <2> SUFFICES ASSUME IInv, NEW c \in Calls, NEW d \in Calls,
                      answer[c].code = "created", answer[d].code = "created",
                      SameKey(request[c], request[d])
               PROVE  answer[c].payout = answer[d].payout
    BY DEF OneAnswerPerKey
  <2>1. Backed(c, answer[c].payout) /\ Backed(d, answer[d].payout)
    BY DEF IInv, AnswerInv, AnswerOk
  <2>2. PICK k \in CommittedKeys :
            SameKey(k, request[c]) /\ k.payoutId = answer[c].payout
    BY <2>1 DEF Backed
  <2>3. PICK l \in CommittedKeys :
            SameKey(l, request[d]) /\ l.payoutId = answer[d].payout
    BY <2>1 DEF Backed
  <2>4. SameKey(k, l)
    BY <2>2, <2>3 DEF SameKey
  <2> QED BY <2>2, <2>3, <2>4 DEF IInv, UniqueInv, CommittedKeys, Live
<1> QED BY <1>1, Invariance, PTL

----------------------------------------------------------------------------
(* Retries. *)

\* What a retry of a committed request keeps: the key it found is committed for
\* good, and it goes on only where it can be answered with that payout or 500.
Replaying(c) ==
    /\ \E k \in CommittedKeys :
          SameKey(k, request[c]) /\ SameHash(k, request[c])
    /\ pc[c] \in {"lookupKey", "loadPayout", "commit", "reply", "answered", "lost"}
    /\ answer[c].code \in {"none", "created", "internal"}

\* Whichever committed row with its key the call reads, the hash is its own:
\* there is one such row.
LEMMA OneKeyIsRead ==
    ASSUME IInv, NEW c \in Calls, Replaying(c)
    PROVE  /\ KeyTaken(request[c])
           /\ \A k \in CommittedKeys : SameKey(k, request[c]) => SameHash(k, request[c])
<1>1. PICK l \in CommittedKeys : SameKey(l, request[c]) /\ SameHash(l, request[c])
    BY DEF Replaying
<1>2. ASSUME NEW k \in CommittedKeys, SameKey(k, request[c]) PROVE SameHash(k, request[c])
  <2>1. SameKey(k, l)
    BY <1>1, <1>2 DEF SameKey
  <2>2. k.payoutId = l.payoutId
    BY <2>1 DEF IInv, UniqueInv, CommittedKeys, Live
  <2>3. k = l
    BY <2>2 DEF IInv, PlaceInv, RowInv, CommittedKeys
  <2> QED BY <1>1, <2>3
<1> QED BY <1>1, <1>2 DEF KeyTaken

LEMMA ReplayBegins ==
    ASSUME IInv, NEW c \in Calls, Replayed(c) PROVE Replaying(c)
BY DEF Replayed, Replaying, IInv, AnswerInv, AnswerOk, NoAnswer, Refused

LEMMA ReplayGoesOn ==
    ASSUME IInv, NEW c \in Calls, Replaying(c), [Next]_vars
    PROVE  Replaying(c)'
<1>1. PlaceInv /\ TypeOK /\ Lasting /\ pc[c] # "idle"
    BY StepsLast DEF IInv, PlaceInv, Replaying
<1>2. \E k \in CommittedKeys' : SameKey(k, request'[c]) /\ SameHash(k, request'[c])
    BY <1>1, RowOwners DEF Lasting, Replaying, CommittedKeys, SameHash
<1> DEFINE Placed == /\ pc'[c] \in {"lookupKey", "loadPayout", "commit", "reply",
                                    "answered", "lost"}
                     /\ answer'[c].code \in {"none", "created", "internal"}
<1> USE <1>1 DEF TypeOK, Replaying, Goto
<1>3. ASSUME NEW d \in Calls, NEW code, Refuse(d, code), d = c => code = "internal"
      PROVE  Placed
    BY <1>3 DEF Refuse, Refused
<1>4. ASSUME NEW d \in Calls, NEW r \in Requests, Receive(d, r) PROVE Placed
    BY <1>4 DEF Receive
\* The lookup finds the key, and the hash is that of the request.
<1>5. ASSUME NEW d \in Calls, LookupKey(d) \/ ReloadKey(d) PROVE Placed
  <2>1. CASE d = c
    BY <1>5, <2>1, OneKeyIsRead DEF LookupKey, ReloadKey, LoadKey
  <2>2. CASE d # c
    BY <1>3, <1>5, <2>2 DEF LookupKey, ReloadKey, LoadKey
  <2> QED BY <2>1, <2>2
<1>6. ASSUME NEW d \in Calls, LoadExisting(d) \/ ReloadPayout(d) PROVE Placed
    BY <1>3, <1>6 DEF LoadExisting, ReloadPayout, LoadPayout
<1>7. ASSUME NEW d \in Calls,
             CheckFunding(d) \/ InsertPayout(d) \/ InsertKey(d) \/ InsertEvent(d)
      PROVE  Placed
    BY <1>3, <1>7 DEF CheckFunding, InsertPayout, InsertKey, InsertEvent
<1>8. ASSUME NEW d \in Calls, Commit(d) \/ Reply(d) \/ CommitAckLost(d) \/ Lose(d)
      PROVE  Placed
    BY <1>8 DEF Commit, Reply, CommitAckLost, Lose, Created, Refused
<1>9. ASSUME NEW d \in Calls, StatementFails(d) PROVE Placed
    BY <1>3, <1>9 DEF StatementFails
<1>10. ASSUME UNCHANGED vars PROVE Placed
    BY <1>10 DEF vars
<1>11. Placed
  <2> HIDE DEF Placed
  <2> QED BY <1>4, <1>5, <1>6, <1>7, <1>8, <1>9, <1>10
          DEF Next, Step, Fault, Terminating
<1> QED BY <1>2, <1>11

\* A call that starts after its key was committed with its hash is answered
\* with that payout or with a 500, for ever after.
THEOREM ReplaysAreNotRefused == Spec => ReplayIsNotRefused
<1> DEFINE Kind(c) == answer[c].code \in {"none", "created", "internal"}
<1>1. ASSUME NEW c \in Calls PROVE Spec => [](Replayed(c) => []Kind(c))
  <2>1. IInv /\ Replayed(c) => Replaying(c)
    BY ReplayBegins
  <2>2. IInv /\ Replaying(c) /\ [Next]_vars => Replaying(c)'
    BY ReplayGoesOn
  <2>3. Replaying(c) => Kind(c)
    BY DEF Replaying
  <2> QED BY <2>1, <2>2, <2>3, Invariance, PTL DEF Spec
<1> QED BY <1>1 DEF ReplayIsNotRefused

----------------------------------------------------------------------------
(* Waiting inserts. *)

\* Call c waits, at one of its two inserts, for the transaction of call d.
WaitsFor(c, d) ==
    /\ txn[d] = "active"
    /\ \/ /\ pc[c] = "insertPayout"
          /\ \E p \in payouts : p.id = d /\ SameExternalId(p, request[c])
       \/ /\ pc[c] = "insertKey"
          /\ \E k \in keys : k.payoutId = d /\ SameKey(k, request[c])

\* The guards of InsertPayout and InsertKey that a call can be held up by.
HeldUp(c) ==
    \/ pc[c] = "insertPayout" /\ ExternalIdLocked(request[c])
    \/ pc[c] = "insertKey" /\ KeyLocked(request[c])

\* Waiting for calls that wait for calls ends at the second: no circle of any
\* length.  Whoever is held up waits for calls that are under way, and while
\* calls are under way one of them is not held up.
NoCircleOfWaits ==
    /\ \A c, d, e, f \in Calls :
          ~(WaitsFor(c, d) /\ WaitsFor(d, e) /\ WaitsFor(e, f))
    /\ \A c \in Calls : HeldUp(c) =>
          \E d \in Calls : WaitsFor(c, d) /\ pc[d] \in TxnStatements
    /\ (\E c \in Calls : pc[c] \in InFlight)
          => \E c \in Calls : pc[c] \in InFlight /\ ~HeldUp(c)

\* One client holding its external id and waiting for the key of another, which
\* waits for the external id of a third, leads to a call that runs: the external
\* id comes first and the key second in every call (service.go:186-203).
THEOREM WaitsAreNotCircular == Spec => []NoCircleOfWaits
<1>1. ASSUME IInv PROVE NoCircleOfWaits
  <2> USE DEF WaitsFor, HeldUp
  <2>1. TypeOK /\ TxnInv /\ RowInv /\ ProgressInv
    BY <1>1 DEF IInv, PlaceInv
  <2>2. ASSUME NEW c \in Calls, NEW d \in Calls, WaitsFor(c, d)
        PROVE  /\ pc[d] \in {"insertKey", "insertEvent", "commit"}
               /\ pc[c] = "insertKey" => pc[d] # "insertKey"
    <3>1. pc[d] \in TxnStatements
      BY <2>1, <2>2 DEF TxnInv
    <3>2. HasPayout(d) /\ (pc[c] = "insertKey" => HasKey(d))
      BY <2>1, <2>2 DEF HasPayout, HasKey, RowInv
    <3> QED BY <2>1, <3>1, <3>2 DEF ProgressInv, TxnStatements
  <2>3. ASSUME NEW c \in Calls, HeldUp(c)
        PROVE  \E d \in Calls : WaitsFor(c, d)
    BY <2>1, <2>3, RowOwners DEF ExternalIdLocked, KeyLocked
  <2>4. \A c, d, e, f \in Calls :
            ~(WaitsFor(c, d) /\ WaitsFor(d, e) /\ WaitsFor(e, f))
    BY <2>2
  <2>5. \A c \in Calls : HeldUp(c) =>
            \E d \in Calls : WaitsFor(c, d) /\ pc[d] \in TxnStatements
    BY <2>2, <2>3 DEF TxnStatements
  <2>6. ASSUME NEW c \in Calls, pc[c] \in InFlight
        PROVE  \E d \in Calls : pc[d] \in InFlight /\ ~HeldUp(d)
    <3>1. ASSUME \A d \in Calls : pc[d] \in InFlight => \E e \in Calls : WaitsFor(d, e)
          PROVE  FALSE
      <4> HIDE DEF WaitsFor
      <4>1. ASSUME NEW d \in Calls, pc[d] \in InFlight
            PROVE  \E e \in Calls : WaitsFor(d, e) /\ pc[e] \in InFlight
        BY <2>2, <3>1, <4>1 DEF InFlight, TxnStatements
      <4> QED BY <2>4, <2>6, <4>1
    <3> QED BY <2>3, <3>1
  <2> QED BY <2>4, <2>5, <2>6 DEF NoCircleOfWaits
<1> QED BY <1>1, Invariance, PTL
=============================================================================
