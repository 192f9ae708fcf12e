----------------------- MODULE PayoutIntakeRefinement -----------------------
(***************************************************************************)
(* PayoutIntake implements IdempotentIntake: the initial state maps to an  *)
(* initial state, and each step to a step of the abstract specification or *)
(* to none.                                                                *)
(***************************************************************************)
EXTENDS PayoutIntakeProofs

----------------------------------------------------------------------------
(* The ledger, told by the calls whose rows are committed. *)

Accepts(c) == HasKey(c) /\ txn[c] = "committed"
Entry(c) == [id |-> c, request |-> request[c]]

LEMMA Ledger ==
    IInv => AcceptedPayouts = {Entry(x) : x \in {y \in Calls : Accepts(y)}}
<1> SUFFICES ASSUME IInv
             PROVE  AcceptedPayouts = {Entry(x) : x \in {y \in Calls : Accepts(y)}}
    OBVIOUS
<1> DEFINE joined(row) == /\ \E p \in CommittedPayouts : p.id = row.payoutId
                          /\ \E e \in CommittedEvents : e.entityId = row.payoutId
<1>1. \A k \in CommittedKeys : k.payoutId \in Calls /\ joined(k)
    BY RowOwners, InvImpliesAtomic DEF IInv, PlaceInv, IntakeIsAtomic, CommittedKeys
<1> HIDE DEF joined
<1>2. AcceptedPayouts = {Entry(k.payoutId) : k \in {row \in CommittedKeys : joined(row)}}
    BY DEF AcceptedPayouts, Entry, joined
<1>3. \A c \in Calls : Accepts(c) <=> \E k \in CommittedKeys : k.payoutId = c
    BY DEF Accepts, HasKey, CommittedKeys
<1>4. ASSUME NEW a \in AcceptedPayouts
      PROVE  a \in {Entry(x) : x \in {y \in Calls : Accepts(y)}}
    BY <1>1, <1>2, <1>3, <1>4
<1>5. ASSUME NEW c \in Calls, Accepts(c) PROVE Entry(c) \in AcceptedPayouts
    BY <1>1, <1>2, <1>3, <1>5
<1> QED BY <1>4, <1>5

LEMMA LedgerNext ==
    (IInv => AcceptedPayouts = {Entry(x) : x \in {y \in Calls : Accepts(y)}})'
BY Ledger, PTL

\* The ledger changes only when a transaction that wrote a key commits.
LEMMA LedgerKept ==
    ASSUME IInv, [Next]_vars, IInv',
           \A c \in Calls : Accepts(c)' <=> Accepts(c)
    PROVE  AcceptedPayouts' = AcceptedPayouts
<1>1. \A c \in Calls : Accepts(c) => request'[c] = request[c]
    BY StepsLast DEF IInv, Lasting, Accepts, PlaceInv, TxnInv
<1>2. (IInv => AcceptedPayouts = {Entry(x) : x \in {y \in Calls : Accepts(y)}})'
    BY LedgerNext
<1>3. \A c \in Calls : Accepts(c) => Entry(c)' = Entry(c)
    BY <1>1 DEF Entry
<1> HIDE DEF Accepts, Entry
<1> QED BY <1>2, <1>3, Ledger

\* Nothing enters it while no key is inserted and no transaction commits.
LEMMA LedgerQuiet ==
    ASSUME IInv, [Next]_vars, IInv', UNCHANGED keys,
           \A c \in Calls : txn'[c] = "committed" <=> txn[c] = "committed"
    PROVE  AcceptedPayouts' = AcceptedPayouts
<1>1. \A c \in Calls : Accepts(c)' <=> Accepts(c)
    BY DEF Accepts, HasKey
<1> QED BY <1>1, LedgerKept

----------------------------------------------------------------------------
(* The pieces of the abstract steps. *)

LEMMA Waiting ==
    ASSUME IInv, NEW c \in Calls, pc[c] \in InFlight
    PROVE  /\ Intake!Unanswered(c)
           /\ request[c] \in StorableRequests
           /\ Intake!Wellformed(request[c])
BY NoneAssumption DEF IInv, PlaceInv, TypeOK, StorableRequests, AnswerInv, AnswerOk,
       NoAnswer, Refused, Intake!Unanswered, Intake!Wellformed, InFlight,
       TxnStatements, ReloadStatements

\* Whatever backs a call is an entry of the ledger.
LEMMA KeysAreEntries ==
    ASSUME IInv, NEW k \in CommittedKeys
    PROVE  \E a \in AcceptedPayouts :
              /\ a.id = k.payoutId
              /\ a.request = request[k.payoutId]
              /\ k = KeyRow(k.payoutId, a.request)
<1>1. /\ k.payoutId \in Calls /\ Accepts(k.payoutId)
      /\ k = KeyRow(k.payoutId, request[k.payoutId])
    BY RowOwners DEF IInv, PlaceInv, RowInv, CommittedKeys, Accepts, HasKey
<1>2. Entry(k.payoutId) \in AcceptedPayouts
    BY <1>1, Ledger
<1> QED BY <1>1, <1>2 DEF Entry

\* A refusal for any reason but the client's own request, before the commit,
\* leaves the ledger as it is.
LEMMA RefusalMaps ==
    ASSUME IInv, [Next]_vars, IInv', NEW c \in Calls, NEW code,
           pc[c] \in InFlight \ {"reply"}, Refuse(c, code)
    PROVE  Intake!Tell(c, code, None) /\ UNCHANGED AcceptedPayouts
<1>1. \A d \in Calls : txn'[d] = "committed" <=> txn[d] = "committed"
    BY DEF Refuse, Rollback, IInv, PlaceInv, TypeOK
<1>2. UNCHANGED AcceptedPayouts
    BY <1>1, LedgerQuiet DEF Refuse, tables
<1>3. Intake!Unanswered(c)
    BY Waiting
<1> QED BY <1>2, <1>3 DEF Intake!Tell, Refuse, Refused

\* The commit of a transaction that wrote its rows enters its request.
LEMMA CommitEnters ==
    ASSUME IInv, [Next]_vars, IInv', NEW c \in Calls, pc[c] = "commit",
           HasPayout(c), txn' = [txn EXCEPT ![c] = "committed"],
           UNCHANGED <<request, tables>>
    PROVE  Intake!Enter(c)
<1>1. Intake!Wellformed(request[c])
    BY Waiting DEF InFlight, TxnStatements
<1>2. Intake!Funded(request[c])
    BY DEF IInv, PlaceInv, ProgressInv, Funded, Intake!Funded
<1>3. /\ HasKey(c) /\ KeyRow(c, request[c]) \in keys
      /\ PayoutRow(c, request[c]) \in payouts
      /\ txn[c] = "active"
    BY DEF IInv, PlaceInv, ProgressInv, RowInv, TxnInv, HasPayout, HasKey,
           HasEvent, TxnStatements
<1>4. ASSUME NEW a \in AcceptedPayouts
      PROVE  ~Intake!SameKey(request[c], a.request)
             /\ ~Intake!SameExternalId(request[c], a.request)
  <2>1. PICK d \in Calls : Accepts(d) /\ a = Entry(d)
    BY Ledger
  <2>2. /\ KeyRow(d, request[d]) \in keys /\ PayoutRow(d, request[d]) \in payouts
        /\ txn[d] = "committed" /\ a.request = request[d]
    BY <2>1 DEF Accepts, Entry, HasKey, HasPayout, IInv, PlaceInv, RowInv
  <2>3. c # d /\ Live(c) /\ Live(d)
    BY <1>3, <2>2 DEF Live
  <2>4. ~SameKey(KeyRow(c, request[c]), KeyRow(d, request[d]))
    BY <1>3, <2>2, <2>3 DEF IInv, UniqueInv, KeyRow
  <2>5. ~SameExternalId(PayoutRow(c, request[c]), PayoutRow(d, request[d]))
    BY <1>3, <2>2, <2>3 DEF IInv, UniqueInv, PayoutRow
  <2> QED BY <2>2, <2>4, <2>5
          DEF SameKey, SameExternalId, KeyRow, PayoutRow, Intake!SameKey,
              Intake!SameExternalId
<1>5. AcceptedPayouts' = AcceptedPayouts \cup {[id |-> c, request |-> request[c]]}
  <2>1. (IInv => AcceptedPayouts = {Entry(x) : x \in {y \in Calls : Accepts(y)}})'
    BY LedgerNext
  <2>2. \A d \in Calls : Accepts(d)' <=> Accepts(d) \/ d = c
    BY <1>3 DEF Accepts, HasKey, tables, IInv, PlaceInv, TypeOK
  <2>3. \A d : Entry(d)' = Entry(d)
    BY DEF Entry
  <2>4. Entry(c) = [id |-> c, request |-> request[c]]
    BY DEF Entry
  <2> HIDE DEF Entry, Accepts
  <2> QED BY <2>1, <2>2, <2>3, <2>4, Ledger
<1> QED BY <1>1, <1>2, <1>4, <1>5 DEF Intake!Enter

----------------------------------------------------------------------------
(* Every step maps to an abstract step, or to none. *)

LEMMA InitMaps == Init => Intake!Init
BY DEF Init, Intake!Init, AcceptedPayouts, CommittedKeys, NoAnswer, Refused

LEMMA StepMaps ==
    IInv /\ [Next]_vars /\ IInv' => [Intake!Next]_(Intake!vars)
<1> SUFFICES ASSUME IInv, [Next]_vars, IInv'
             PROVE  [Intake!Next]_(Intake!vars)
    OBVIOUS
<1> DEFINE Mapped == Intake!Next \/ UNCHANGED Intake!vars
<1>0. Mapped => [Intake!Next]_(Intake!vars)
    OBVIOUS
<1> USE DEF InFlight, TxnStatements, ReloadStatements
\* Refusals.
<1>1. ASSUME NEW c \in Calls, pc[c] \in InFlight \ {"reply"}, Refuse(c, "internal")
      PROVE  Mapped
    BY <1>1, RefusalMaps DEF Intake!Next, Intake!AnswerInternal
<1>2. ASSUME NEW c \in Calls, NEW k \in CommittedKeys,
             pc[c] \in InFlight \ {"reply"}, SameKey(k, request[c]),
             ~SameHash(k, request[c]), Refuse(c, "idempotencyConflict")
      PROVE  Mapped
  <2>1. Intake!Tell(c, "idempotencyConflict", None) /\ UNCHANGED AcceptedPayouts
    BY <1>2, RefusalMaps
  <2>2. PICK a \in AcceptedPayouts : k = KeyRow(k.payoutId, a.request)
    BY KeysAreEntries
  <2>3. /\ Intake!SameKey(request[c], a.request)
        /\ Intake!Hash(request[c]) # Intake!Hash(a.request)
    BY <1>2, <2>2 DEF SameKey, SameHash, KeyRow, RequestHash, Intake!SameKey,
                      Intake!Hash
  <2> QED BY <2>1, <2>3 DEF Intake!Next, Intake!AnswerConflict
<1>3. ASSUME NEW c \in Calls, pc[c] \in InFlight \ {"reply"},
             ExternalIdTaken(request[c]), Refuse(c, "duplicateExternalId")
      PROVE  Mapped
  <2>1. Intake!Tell(c, "duplicateExternalId", None) /\ UNCHANGED AcceptedPayouts
    BY <1>3, RefusalMaps
  <2>2. PICK p \in CommittedPayouts : SameExternalId(p, request[c])
    BY <1>3 DEF ExternalIdTaken
  <2>3. /\ p.id \in Calls /\ p = PayoutRow(p.id, request[p.id])
        /\ Accepts(p.id)
    BY RowOwners DEF IInv, PlaceInv, RowInv, ProgressInv, CommittedPayouts,
                     HasPayout, HasEvent, Accepts
  <2>4. Entry(p.id) \in AcceptedPayouts /\ Entry(p.id).request = request[p.id]
    BY <2>3, Ledger DEF Entry
  <2>5. Intake!SameExternalId(request[c], request[p.id])
    BY <2>2, <2>3 DEF SameExternalId, PayoutRow, Intake!SameExternalId
  <2> QED BY <2>1, <2>4, <2>5 DEF Intake!Next, Intake!AnswerDuplicate
<1>4. ASSUME NEW c \in Calls, pc[c] \in InFlight \ {"reply"},
             ~Funded(request[c]), Refuse(c, "fundingSourceNotFound")
      PROVE  Mapped
  <2>1. Intake!Tell(c, "fundingSourceNotFound", None) /\ UNCHANGED AcceptedPayouts
    BY <1>4, RefusalMaps
  <2> QED BY <1>4, <2>1 DEF Intake!Next, Intake!AnswerUnfunded, Funded, Intake!Funded
\* Steps the client does not see.
<1>5. ASSUME UNCHANGED <<request, answer, keys>>,
             \A c \in Calls : txn'[c] = "committed" <=> txn[c] = "committed"
      PROVE  Mapped
    BY <1>5, LedgerQuiet DEF Intake!vars
<1>6. ASSUME NEW c \in Calls, NEW r \in Requests, Receive(c, r)
      PROVE  Mapped
  <2>1. pc[c] = "idle" /\ request[c] = None /\ txn[c] = "none"
    BY <1>6 DEF Receive, IInv, PlaceInv, TxnInv
  <2>2. UNCHANGED AcceptedPayouts
    BY <1>6, <2>1, LedgerQuiet DEF Receive, tables, IInv, PlaceInv, TypeOK
  <2>3. CASE ValidationError(r) = "none"
    BY <1>6, <2>1, <2>2, <2>3 DEF Receive, Intake!Next, Intake!Ask
  <2>4. CASE ValidationError(r) # "none"
    <3>1. /\ ~Intake!Wellformed(r)
          /\ ValidationError(r) \in {"invalidIdempotencyKey", "invalidPayout"}
      BY <2>4 DEF ValidationError, Intake!Wellformed
    <3>2. answer' = [answer EXCEPT ![c] = [code |-> ValidationError(r), payout |-> None]]
      BY <1>6, <2>4 DEF Receive, Refused
    <3>3. Intake!AskMalformed(c, r)
      BY <1>6, <2>1, <2>2, <3>1, <3>2 DEF Receive, Intake!AskMalformed
    <3> QED BY <3>3 DEF Intake!Next
  <2> QED BY <2>3, <2>4
<1>7. ASSUME NEW c \in Calls, NEW from, NEW to, NEW missing,
             from \in {"lookupKey", "reloadKey"},
             LoadKey(c, from, to, missing)
      PROVE  Mapped
  <2>1. CASE UNCHANGED <<request, answer, txn, tables>>
    BY <1>5, <2>1 DEF tables
  <2>2. ASSUME NEW k \in CommittedKeys, SameKey(k, request[c]),
               ~SameHash(k, request[c]), Refuse(c, "idempotencyConflict")
        PROVE  Mapped
    BY <1>2, <1>7, <2>2 DEF LoadKey
  <2> QED BY <1>7, <2>1, <2>2 DEF LoadKey
<1>8. ASSUME NEW c \in Calls, NEW from \in {"loadPayout", "reloadPayout"}, NEW to,
             LoadPayout(c, from, to)
      PROVE  Mapped
    BY <1>1, <1>5, <1>8 DEF LoadPayout, tables
<1>9. ASSUME NEW c \in Calls, CheckFunding(c) PROVE Mapped
    BY <1>4, <1>5, <1>9 DEF CheckFunding, tables
<1>10. ASSUME NEW c \in Calls, InsertPayout(c) PROVE Mapped
    BY <1>3, <1>5, <1>10 DEF InsertPayout, tables
<1>11. ASSUME NEW c \in Calls, InsertKey(c) PROVE Mapped
  <2>1. CASE KeyTaken(request[c])
    BY <1>5, <1>11, <2>1 DEF InsertKey, Rollback, tables, IInv, PlaceInv, TypeOK
  <2>2. CASE ~KeyTaken(request[c])
    <3>1. keys' = keys \cup {KeyRow(c, request[c])} /\ txn[c] = "active"
          /\ UNCHANGED <<request, answer, txn>>
      BY <1>11, <2>2 DEF InsertKey, IInv, PlaceInv, TxnInv
    <3>2. \A d \in Calls : Accepts(d)' <=> Accepts(d)
      BY <3>1 DEF Accepts, HasKey, KeyRow
    <3> QED BY <3>1, <3>2, LedgerKept DEF Intake!vars
  <2> QED BY <2>1, <2>2
<1>12. ASSUME NEW c \in Calls, InsertEvent(c) PROVE Mapped
    BY <1>5, <1>12 DEF InsertEvent
<1>13. ASSUME NEW c \in Calls, Commit(c) PROVE Mapped
  <2>1. Intake!Unanswered(c)
    BY <1>13, Waiting DEF Commit, Goto
  <2>2. CASE HasPayout(c)
    BY <1>13, <2>1, <2>2, CommitEnters DEF Commit, Goto, Intake!Next, Intake!Accept
  <2>3. CASE ~HasPayout(c)
    <3>1. \A d \in Calls : Accepts(d)' <=> Accepts(d)
      BY <1>13, <2>3 DEF Commit, Accepts, HasKey, tables, IInv, PlaceInv, TypeOK, RowInv
    <3> QED BY <1>13, <3>1, LedgerKept DEF Commit, Intake!vars
  <2> QED BY <2>2, <2>3
<1>14. ASSUME NEW c \in Calls, CommitAckLost(c) PROVE Mapped
  <2>1. Intake!Tell(c, "internal", None)
    BY <1>14, Waiting DEF CommitAckLost, Goto, Refused, Intake!Tell
  <2>2. CASE HasPayout(c)
    BY <1>14, <2>1, <2>2, CommitEnters
       DEF CommitAckLost, Goto, Intake!Next, Intake!AcceptUnacknowledged
  <2>3. CASE ~HasPayout(c)
    <3>1. \A d \in Calls : Accepts(d)' <=> Accepts(d)
      BY <1>14, <2>3 DEF CommitAckLost, Accepts, HasKey, tables, IInv, PlaceInv,
                         TypeOK, RowInv
    <3> QED BY <2>1, <3>1, LedgerKept DEF Intake!Next, Intake!AnswerInternal
  <2> QED BY <2>2, <2>3
<1>15. ASSUME NEW c \in Calls, Reply(c) PROVE Mapped
  <2>1. pc[c] = "reply" /\ Backed(c, chosen[c])
    BY <1>15 DEF Reply, Goto, IInv, AnswerInv, AnswerOk
  <2>2. PICK k \in CommittedKeys : SameKey(k, request[c]) /\ SameHash(k, request[c])
                                   /\ k.payoutId = chosen[c]
    BY <2>1 DEF Backed
  <2>3. PICK a \in AcceptedPayouts :
            a.id = k.payoutId /\ k = KeyRow(k.payoutId, a.request)
    BY KeysAreEntries
  <2>4. /\ Intake!SameKey(request[c], a.request)
        /\ Intake!Hash(request[c]) = Intake!Hash(a.request)
    BY <2>2, <2>3 DEF SameKey, SameHash, KeyRow, RequestHash, Intake!SameKey,
                      Intake!Hash
  <2>5. chosen[c] # None
    BY <2>2, RowOwners, NoneAssumption DEF CommittedKeys, IInv, PlaceInv
  <2>6. UNCHANGED AcceptedPayouts
    BY <1>15, LedgerQuiet DEF Reply, tables
  <2>7. Intake!Tell(c, "created", a.id)
    BY <1>15, <2>1, <2>2, <2>3, <2>5, Waiting DEF Reply, Created, Intake!Tell
  <2> QED BY <2>1, <2>4, <2>6, <2>7, Waiting DEF Intake!Next, Intake!AnswerCreated
<1>16. ASSUME NEW c \in Calls, Lose(c) PROVE Mapped
    BY <1>5, <1>16 DEF Lose, Rollback, tables, IInv, PlaceInv, TypeOK
<1>17. CASE UNCHANGED vars
    BY <1>5, <1>17 DEF vars, tables
<1>18. ASSUME NEW c \in Calls, Step(c) \/ Fault(c) PROVE Mapped
  <2> HIDE DEF Mapped
  <2>1. LookupKey(c) \/ ReloadKey(c) => Mapped
    BY <1>7 DEF LookupKey, ReloadKey
  <2>2. LoadExisting(c) \/ ReloadPayout(c) => Mapped
    BY <1>8 DEF LoadExisting, ReloadPayout
  <2>3. StatementFails(c) => Mapped
    BY <1>1 DEF StatementFails
  <2> QED BY <1>9, <1>10, <1>11, <1>12, <1>13, <1>14, <1>15, <1>16, <1>18,
             <2>1, <2>2, <2>3 DEF Step, Fault
<1> QED BY <1>0, <1>6, <1>17, <1>18 DEF Next, Terminating

\* The service, statement by statement and under faults, implements an intake
\* that accepts each request at most once and answers from what it accepted.
THEOREM Refinement == Spec => ImplementsIntake
BY InitMaps, StepMaps, Invariance, PTL DEF Spec, ImplementsIntake, Intake!Spec

----------------------------------------------------------------------------
(* The seam to the relay: PayoutPipeline gives an event the name of its    *)
(* payout, and lets events appear one at a time, in its Accept.            *)

\* The payouts whose event the claim query can see.
Announced == {e.entityId : e \in CommittedEvents}

\* A payout that was accepted has one event, and no other payout has one.
OneEventEach ==
    /\ Announced = {a.id : a \in AcceptedPayouts}
    /\ \A e, f \in CommittedEvents : e.entityId = f.entityId => e = f

LEMMA EventsAreEntries == IInv => OneEventEach
<1> SUFFICES ASSUME IInv PROVE OneEventEach
    OBVIOUS
<1>1. IntakeIsAtomic
    BY InvImpliesAtomic
<1>2. {a.id : a \in AcceptedPayouts} = {c \in Calls : Accepts(c)}
  <2>1. \A c \in Calls : Accepts(c) => Entry(c) \in AcceptedPayouts
    BY Ledger
  <2>2. \A a \in AcceptedPayouts : \E c \in Calls : Accepts(c) /\ a = Entry(c)
    BY Ledger
  <2>3. \A c : Entry(c).id = c
    BY DEF Entry
  <2> HIDE DEF Entry, Accepts
  <2> QED BY <2>1, <2>2, <2>3
<1>3. Announced = {c \in Calls : Accepts(c)}
    BY <1>1, RowOwners
    DEF IInv, PlaceInv, Announced, IntakeIsAtomic, Accepts, HasKey, CommittedKeys, CommittedEvents
<1>4. ASSUME NEW e \in CommittedEvents, NEW f \in CommittedEvents, e.entityId = f.entityId
      PROVE  e = f
    BY <1>4 DEF IInv, PlaceInv, RowInv, CommittedEvents
<1> QED BY <1>2, <1>3, <1>4 DEF OneEventEach

\* Events become visible one at a time, each with its payout, and stay: what
\* the relay reads of intake (service.go:205-227, tx.go:61-63) is what
\* PayoutPipeline's Accept says of it.
FeedsTheRelay ==
    /\ []OneEventEach
    /\ [][\E c \in Calls : Announced' = Announced \cup {c}]_Announced

LEMMA LedgerGrows ==
    [Intake!Next]_(Intake!vars) =>
        \/ UNCHANGED AcceptedPayouts
        \/ \E c \in Calls : \E r : AcceptedPayouts' = AcceptedPayouts \cup {[id |-> c, request |-> r]}
BY DEF Intake!Next, Intake!vars, Intake!Ask, Intake!AskMalformed, Intake!Accept,
       Intake!AcceptUnacknowledged, Intake!AnswerCreated, Intake!AnswerConflict,
       Intake!AnswerDuplicate, Intake!AnswerUnfunded, Intake!AnswerInternal,
       Intake!Enter, Intake!Tell

LEMMA EventsAppear ==
    ASSUME OneEventEach, OneEventEach', [Intake!Next]_(Intake!vars)
    PROVE  [\E c \in Calls : Announced' = Announced \cup {c}]_Announced
<1>1. CASE UNCHANGED AcceptedPayouts
    BY <1>1 DEF OneEventEach
<1>2. ASSUME NEW c \in Calls, NEW r,
             AcceptedPayouts' = AcceptedPayouts \cup {[id |-> c, request |-> r]}
      PROVE  Announced' = Announced \cup {c}
  <2>1. [id |-> c, request |-> r].id = c
    OBVIOUS
  <2> QED BY <1>2, <2>1 DEF OneEventEach
<1> QED BY <1>1, <1>2, LedgerGrows

\* Whatever fails or interleaves, intake hands the relay the events of what it
\* accepted, one for each.
THEOREM IntakeFeedsTheRelay == Spec => FeedsTheRelay
<1>1. IInv /\ IInv' => OneEventEach /\ OneEventEach'
  <2>1. (IInv => OneEventEach)'
    BY EventsAreEntries, PTL
  <2> QED BY <2>1, EventsAreEntries
<1>2. IInv /\ [Next]_vars /\ IInv' => [\E c \in Calls : Announced' = Announced \cup {c}]_Announced
    BY <1>1, StepMaps, EventsAppear
<1> QED BY <1>2, EventsAreEntries, Invariance, PTL DEF Spec, FeedsTheRelay
=============================================================================
