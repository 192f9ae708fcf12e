-------------------------- MODULE OutboxRelayProofs --------------------------
(***************************************************************************)
(* Proofs about OutboxRelay, for any relays, events and bounds.            *)
(***************************************************************************)
EXTENDS OutboxRelay, FiniteSetTheorems, TLAPS

----------------------------------------------------------------------------
(* Type correctness. *)

LEMMA InitTypes == Init => TypeOK
BY EventAssumption, BoundAssumption
DEF Init, TypeOK, Labels, Statements, Commits, AtWork

LEMMA NextTypes == TypeOK /\ [Next]_vars => TypeOK'
<1> SUFFICES ASSUME TypeOK, [Next]_vars PROVE TypeOK'
    OBVIOUS
<1> USE EventAssumption, BoundAssumption, NoneAssumption
    DEF TypeOK, Labels, Statements, Commits, AtWork, Statuses, bounds
<1>1. ASSUME NEW e \in Events, Insert(e) PROVE TypeOK'
    BY <1>1 DEF Insert
<1>2. ASSUME NEW e \in Events, Expire(e) PROVE TypeOK'
    BY <1>2 DEF Expire
<1>3. ASSUME NEW r \in Relays, NEW e \in Events, Claim(r, e) PROVE TypeOK'
    BY <1>3 DEF Claim, Goto, Claimable, Unclaimed, Locked
<1>4. ASSUME NEW r \in Relays, CommitClaim(r) PROVE TypeOK'
    BY <1>4 DEF CommitClaim, Goto, Apply
<1>5. ASSUME NEW r \in Relays, Dispatch(r) PROVE TypeOK'
    BY <1>5 DEF Dispatch, Goto
<1>6. ASSUME NEW r \in Relays, Mark(r) PROVE TypeOK'
    BY <1>6 DEF Mark, Goto, Write, Locked
<1>7. ASSUME NEW r \in Relays, CommitMark(r) PROVE TypeOK'
    BY <1>7 DEF CommitMark, Apply, Return
<1>8. ASSUME NEW r \in Relays, Release(r) PROVE TypeOK'
    BY <1>8 DEF Release, Goto, Write, Locked
<1>9. ASSUME NEW r \in Relays, CommitRelease(r) PROVE TypeOK'
    BY <1>9 DEF CommitRelease, Apply, Return
<1>10. ASSUME NEW r \in Relays, Start(r) PROVE TypeOK'
    BY <1>10 DEF Start, Goto
<1>11. ASSUME NEW r \in Relays, DispatchFails(r) PROVE TypeOK'
    BY <1>11 DEF DispatchFails, Fault, Goto
<1>12. ASSUME NEW r \in Relays, StatementFails(r) PROVE TypeOK'
    BY <1>12 DEF StatementFails, Fault, Rollback, Return
<1>13. ASSUME NEW r \in Relays, CommitAckLost(r) PROVE TypeOK'
    BY <1>13 DEF CommitAckLost, Fault, Apply, Return
<1>14. ASSUME NEW r \in Relays, Stop(r) PROVE TypeOK'
    BY <1>14 DEF Stop, Fault, Return
<1>15. CASE UNCHANGED vars
    BY <1>15 DEF vars
<1> QED
    BY <1>1, <1>2, <1>3, <1>4, <1>5, <1>6, <1>7, <1>8, <1>9, <1>10, <1>11,
       <1>12, <1>13, <1>14, <1>15
    DEF Next, Step, Faults, Terminating

\* The type invariant holds in every behaviour: in particular a relay at work
\* has an event that was inserted, and no row is written by two transactions.
THEOREM TypesHold == Spec => []TypeOK
BY InitTypes, NextTypes, PTL DEF Spec

----------------------------------------------------------------------------
(* What a relay may rely on while it is at work. *)

ClaimOk(r) ==
    /\ pc[r] = "commitClaim" => draft[r] = "processing" /\ Unclaimed(event[r])
    /\ pc[r] = "commitMark" => draft[r] = "processed"
    /\ pc[r] = "commitRelease" => draft[r] = "pending"
    /\ pc[r] \in {"mark", "commitMark"} => queued[event[r]] > 0

ClaimInv == \A r \in Relays : ClaimOk(r)

PublishInv == TypeOK /\ ClaimInv /\ ProcessedIsPublished

LEMMA InitPublish == Init => PublishInv
<1> SUFFICES ASSUME Init PROVE ClaimInv /\ ProcessedIsPublished
    BY InitTypes DEF PublishInv
<1> QED BY DEF Init, ClaimInv, ClaimOk, ProcessedIsPublished

LEMMA NextPublish == PublishInv /\ [Next]_vars => PublishInv'
<1> SUFFICES ASSUME PublishInv, [Next]_vars PROVE ClaimInv' /\ ProcessedIsPublished'
    BY NextTypes DEF PublishInv
<1> USE EventAssumption, NoneAssumption
    DEF PublishInv, TypeOK, Labels, Statements, Commits, AtWork, Statuses,
        bounds, ClaimInv, ClaimOk, ProcessedIsPublished, Unclaimed
<1> DEFINE Goal == ClaimInv' /\ ProcessedIsPublished'
<1>1. ASSUME NEW e \in Events, Insert(e) PROVE Goal
    BY <1>1 DEF Insert
<1>2. ASSUME NEW e \in Events, Expire(e) PROVE Goal
    BY <1>2 DEF Expire
<1>3. ASSUME NEW r \in Relays, NEW e \in Events, Claim(r, e) PROVE Goal
    BY <1>3 DEF Claim, Goto, Claimable
<1>4. ASSUME NEW r \in Relays, CommitClaim(r) PROVE Goal
    BY <1>4 DEF CommitClaim, Goto, Apply
<1>5. ASSUME NEW r \in Relays, Dispatch(r) PROVE Goal
    BY <1>5 DEF Dispatch, Goto
<1>6. ASSUME NEW r \in Relays, Mark(r) PROVE Goal
    BY <1>6 DEF Mark, Goto, Write
<1>7. ASSUME NEW r \in Relays, CommitMark(r) PROVE Goal
    BY <1>7 DEF CommitMark, Apply, Return
<1>8. ASSUME NEW r \in Relays, Release(r) PROVE Goal
    BY <1>8 DEF Release, Goto, Write
<1>9. ASSUME NEW r \in Relays, CommitRelease(r) PROVE Goal
    BY <1>9 DEF CommitRelease, Apply, Return
<1>10. ASSUME NEW r \in Relays, Start(r) PROVE Goal
    BY <1>10 DEF Start, Goto
<1>11. ASSUME NEW r \in Relays, DispatchFails(r) PROVE Goal
    BY <1>11 DEF DispatchFails, Fault, Goto
<1>12. ASSUME NEW r \in Relays, StatementFails(r) PROVE Goal
    BY <1>12 DEF StatementFails, Fault, Rollback, Return
<1>13. ASSUME NEW r \in Relays, CommitAckLost(r) PROVE Goal
    BY <1>13 DEF CommitAckLost, Fault, Apply, Return
<1>14. ASSUME NEW r \in Relays, Stop(r) PROVE Goal
    BY <1>14 DEF Stop, Fault, Return
<1>15. CASE UNCHANGED vars
    BY <1>15 DEF vars
<1> QED
    BY <1>1, <1>2, <1>3, <1>4, <1>5, <1>6, <1>7, <1>8, <1>9, <1>10, <1>11,
       <1>12, <1>13, <1>14, <1>15
    DEF Next, Step, Faults, Terminating

LEMMA PublishInvariance == Spec => []PublishInv
BY InitPublish, NextPublish, PTL DEF Spec

\* An event marked processed has a message in the queue, however many relays
\* claim, lose, mark and release it, and whatever fails.
THEOREM Published == Spec => []ProcessedIsPublished
<1>1. PublishInv => ProcessedIsPublished
    BY DEF PublishInv
<1> QED BY <1>1, PublishInvariance, PTL
----------------------------------------------------------------------------
(* Duplicates. *)

\* The relays that may still publish e, or give it back to be published.
Rights(e) ==
    {r \in Relays : event[r] = e /\ pc[r] \in {"dispatch", "release", "commitRelease"}}

\* A relay may still claim e without a fault or an expiry.
Open(e) ==
    \/ status[e] \in {"absent", "pending"}
    \/ /\ status[e] = "processing"
       /\ expired[e] \/ \A r \in Relays : event[r] # e

RowRight(e) == IF Open(e) THEN 1 ELSE 0

\* What was published and what still can be is paid for: once by the insert,
\* and once by each fault and each claim that expired under its relay.
Counted(e) ==
    queued[e] + RowRight(e) + Cardinality(Rights(e)) <= 1 + faults + timeouts

CountInv == PublishInv /\ \A e \in Events : Counted(e)

LEMMA CountTypes ==
    ASSUME TypeOK, NEW e \in Events
    PROVE  /\ IsFiniteSet(Rights(e)) /\ Cardinality(Rights(e)) \in Nat
           /\ RowRight(e) \in Nat /\ queued[e] \in Nat
           /\ faults \in Nat /\ timeouts \in Nat
<1>1. IsFiniteSet(Rights(e)) /\ Cardinality(Rights(e)) \in Nat
    BY RelaysAssumption, FS_Subset, FS_CardinalityType DEF Rights
<1> QED BY <1>1, BoundAssumption DEF TypeOK, RowRight

LEMMA InitCount == Init => CountInv
<1> SUFFICES ASSUME Init, NEW e \in Events PROVE Counted(e)
    BY InitPublish DEF CountInv
<1>1. Rights(e) = {}
    BY DEF Init, Rights
<1> QED BY <1>1, FS_EmptySet DEF Init, Counted, RowRight

\* The three ways in which a step moves what is counted.
LEMMA CountKept ==
    ASSUME TypeOK, TypeOK', NEW e \in Events, Counted(e),
           Rights(e)' \subseteq Rights(e),
           queued'[e] + RowRight(e)' + faults + timeouts
             <= queued[e] + RowRight(e) + faults' + timeouts'
    PROVE  Counted(e)'
<1>1. Cardinality(Rights(e)') <= Cardinality(Rights(e))
    BY CountTypes, FS_Subset
<1>2. /\ Cardinality(Rights(e)') \in Nat /\ RowRight(e)' \in Nat
      /\ queued'[e] \in Nat /\ faults' \in Nat /\ timeouts' \in Nat
    BY CountTypes, FS_Subset, FS_CardinalityType, BoundAssumption DEF TypeOK, RowRight
<1> QED BY <1>1, <1>2, CountTypes DEF Counted

LEMMA CountRemoved ==
    ASSUME TypeOK, TypeOK', NEW e \in Events, Counted(e), NEW r \in Rights(e),
           Rights(e)' = Rights(e) \ {r},
           queued'[e] + RowRight(e)' + faults + timeouts
             <= queued[e] + RowRight(e) + faults' + timeouts' + 1
    PROVE  Counted(e)'
<1>1. Cardinality(Rights(e)') = Cardinality(Rights(e)) - 1
    BY CountTypes, FS_RemoveElement
<1>2. /\ RowRight(e)' \in Nat /\ queued'[e] \in Nat
      /\ faults' \in Nat /\ timeouts' \in Nat
    BY BoundAssumption DEF TypeOK, RowRight
<1> QED BY <1>1, <1>2, CountTypes DEF Counted

LEMMA CountAdded ==
    ASSUME TypeOK, TypeOK', NEW e \in Events, Counted(e), NEW r \in Relays,
           r \notin Rights(e), Rights(e)' = Rights(e) \cup {r},
           queued'[e] + RowRight(e)' + faults + timeouts + 1
             <= queued[e] + RowRight(e) + faults' + timeouts'
    PROVE  Counted(e)'
<1>1. Cardinality(Rights(e)') = Cardinality(Rights(e)) + 1
    BY CountTypes, FS_AddElement
<1>2. /\ RowRight(e)' \in Nat /\ queued'[e] \in Nat
      /\ faults' \in Nat /\ timeouts' \in Nat
    BY BoundAssumption DEF TypeOK, RowRight
<1> QED BY <1>1, <1>2, CountTypes DEF Counted

\* A step that publishes nothing, opens no row and adds no right.
LEMMA CountUnmoved ==
    ASSUME TypeOK, TypeOK', NEW e \in Events, Counted(e),
           Rights(e)' \subseteq Rights(e), Open(e)' => Open(e),
           UNCHANGED queued[e], faults <= faults', UNCHANGED timeouts
    PROVE  Counted(e)'
<1>1. RowRight(e)' <= RowRight(e) /\ RowRight(e)' \in Nat
    BY DEF RowRight
<1>2. faults' \in Nat
    BY BoundAssumption DEF TypeOK
<1> QED BY <1>1, <1>2, CountTypes, CountKept

\* A fault that publishes nothing and adds no right pays for the row it opens.
LEMMA CountFault ==
    ASSUME TypeOK, TypeOK', NEW e \in Events, Counted(e), Fault,
           Rights(e)' \subseteq Rights(e), UNCHANGED queued[e]
    PROVE  Counted(e)'
<1>1. RowRight(e)' <= 1 /\ RowRight(e)' \in Nat
    BY DEF RowRight
<1> QED BY <1>1, CountTypes, CountKept DEF Fault

LEMMA NextCounted ==
    ASSUME PublishInv, [Next]_vars, NEW e \in Events, Counted(e)
    PROVE  Counted(e)'
<1>0. TypeOK /\ TypeOK'
    BY NextTypes DEF PublishInv
<1>00. faults \in Nat /\ timeouts \in Nat /\ queued \in [Events -> Nat]
    BY <1>0, BoundAssumption DEF TypeOK
<1> USE EventAssumption, NoneAssumption
    DEF TypeOK, Labels, Statements, Commits, AtWork, bounds, Rights, Open
<1>1. CASE UNCHANGED vars
    BY <1>0, <1>00, <1>1, CountUnmoved DEF vars
<1>2. ASSUME NEW f \in Events, Insert(f) PROVE Counted(e)'
    BY <1>0, <1>00, <1>2, CountUnmoved DEF Insert
<1>3. ASSUME NEW f \in Events, Expire(f) PROVE Counted(e)'
  <2>1. CASE f = e /\ \E r \in Relays : event[r] = e
    <3>1. Rights(e)' \subseteq Rights(e) /\ UNCHANGED <<queued, faults>>
          /\ timeouts' = timeouts + 1
        BY <1>3, <2>1 DEF Expire
    <3>2. RowRight(e)' <= 1 /\ RowRight(e)' \in Nat
        BY DEF RowRight
    <3> HIDE DEF TypeOK, Rights, Open
    <3> QED BY <1>0, <1>00, <3>1, <3>2, CountTypes, CountKept
  <2>2. CASE ~(f = e /\ \E r \in Relays : event[r] = e)
    <3>1. /\ Rights(e)' \subseteq Rights(e) /\ (Open(e)' => Open(e))
          /\ UNCHANGED <<queued, faults>> /\ timeouts <= timeouts'
          /\ timeouts' \in Nat
        BY <1>0, <1>00, <1>3, <2>2 DEF Expire
    <3>2. RowRight(e)' <= RowRight(e) /\ RowRight(e)' \in Nat
        BY <3>1 DEF RowRight
    <3> HIDE DEF TypeOK, Rights, Open
    <3> QED BY <1>0, <1>00, <3>1, <3>2, CountTypes, CountKept
  <2> QED BY <2>1, <2>2
<1>4. ASSUME NEW r \in Relays, NEW f \in Events, Claim(r, f) PROVE Counted(e)'
  <2>1. Rights(e)' \subseteq Rights(e) /\ (Open(e)' => Open(e))
      BY <1>0, <1>4 DEF Claim, Goto, Claimable, Unclaimed
  <2> QED BY <1>0, <1>00, <1>4, <2>1, CountUnmoved DEF Claim
<1>5. ASSUME NEW r \in Relays, CommitClaim(r) PROVE Counted(e)'
  <2>0. /\ event[r] \in Events /\ draft[r] = "processing" /\ Unclaimed(event[r])
        /\ UNCHANGED <<queued, event, faults, timeouts>>
      BY <1>0, <1>5 DEF CommitClaim, Goto, PublishInv, ClaimInv, ClaimOk
  <2>1. CASE event[r] = e
    <3>1. r \notin Rights(e) /\ Rights(e)' = Rights(e) \cup {r}
        BY <1>0, <1>5, <2>0, <2>1 DEF CommitClaim, Goto
    <3>2. Open(e) /\ ~Open(e)'
        BY <1>0, <1>5, <2>0, <2>1 DEF CommitClaim, Apply, Unclaimed
    <3>3. RowRight(e)' = 0 /\ RowRight(e) = 1
        BY <3>2 DEF RowRight
    <3> HIDE DEF TypeOK, Rights, Open
    <3> QED BY <1>0, <1>00, <2>0, <3>1, <3>3, CountAdded
  <2>2. CASE event[r] # e
    <3>1. Rights(e)' \subseteq Rights(e) /\ (Open(e)' => Open(e))
        BY <1>0, <1>5, <2>0, <2>2 DEF CommitClaim, Apply, Goto
    <3> QED BY <1>0, <1>00, <2>0, <3>1, CountUnmoved
  <2> QED BY <2>1, <2>2
<1>6. ASSUME NEW r \in Relays, Dispatch(r) PROVE Counted(e)'
  <2>0. /\ Open(e)' <=> Open(e)
        /\ UNCHANGED <<faults, timeouts>>
        /\ event[r] \in Events
      BY <1>0, <1>6 DEF Dispatch, Goto
  <2>1. CASE event[r] = e
    <3>1. r \in Rights(e) /\ Rights(e)' = Rights(e) \ {r}
        BY <1>0, <1>6, <2>1 DEF Dispatch, Goto
    <3>2. queued'[e] = queued[e] + 1 /\ RowRight(e)' = RowRight(e)
        BY <1>0, <1>00, <1>6, <2>0, <2>1 DEF Dispatch, RowRight
    <3> HIDE DEF TypeOK, Rights, Open
    <3> QED BY <1>0, <1>00, <2>0, <3>1, <3>2, CountTypes, CountRemoved
  <2>2. CASE event[r] # e
    <3>1. Rights(e)' \subseteq Rights(e) /\ UNCHANGED queued[e]
        BY <1>0, <1>6, <2>2 DEF Dispatch, Goto
    <3> QED BY <1>0, <1>00, <2>0, <3>1, CountUnmoved
  <2> QED BY <2>1, <2>2
<1>7. ASSUME NEW r \in Relays, Mark(r) \/ Release(r) \/ Start(r) PROVE Counted(e)'
  <2>1. Rights(e)' \subseteq Rights(e) /\ (Open(e)' => Open(e))
      BY <1>0, <1>7 DEF Mark, Release, Start, Goto
  <2> QED BY <1>0, <1>00, <1>7, <2>1, CountUnmoved DEF Mark, Release, Start
<1>8. ASSUME NEW r \in Relays, CommitMark(r) PROVE Counted(e)'
  <2>0. draft[r] = "processed" /\ event[r] \in Events
      BY <1>0, <1>8 DEF CommitMark, PublishInv, ClaimInv, ClaimOk
  <2>1. Rights(e)' \subseteq Rights(e)
      BY <1>0, <1>8 DEF CommitMark, Return
  <2>2. Open(e)' => Open(e)
      BY <1>0, <1>8, <2>0 DEF CommitMark, Apply, Return
  <2> QED BY <1>0, <1>00, <1>8, <2>1, <2>2, CountUnmoved DEF CommitMark
<1>9. ASSUME NEW r \in Relays, CommitRelease(r) PROVE Counted(e)'
  <2>0. /\ event[r] \in Events
        /\ UNCHANGED <<queued, faults, timeouts>>
      BY <1>0, <1>9 DEF CommitRelease
  <2>1. CASE event[r] = e
    <3>1. r \in Rights(e) /\ Rights(e)' = Rights(e) \ {r}
        BY <1>0, <1>9, <2>1 DEF CommitRelease, Return
    <3>2. RowRight(e)' <= 1 /\ RowRight(e)' \in Nat
        BY DEF RowRight
    <3> HIDE DEF TypeOK, Rights, Open
    <3> QED BY <1>0, <1>00, <2>0, <3>1, <3>2, CountTypes, CountRemoved
  <2>2. CASE event[r] # e
    <3>1. Rights(e)' \subseteq Rights(e) /\ (Open(e)' => Open(e))
        BY <1>0, <1>9, <2>0, <2>2 DEF CommitRelease, Apply, Return
    <3> QED BY <1>0, <1>00, <2>0, <3>1, CountUnmoved
  <2> QED BY <2>1, <2>2
<1>10. ASSUME NEW r \in Relays, DispatchFails(r) PROVE Counted(e)'
  <2>1. /\ Rights(e)' \subseteq Rights(e) /\ (Open(e)' <=> Open(e))
        /\ faults' = faults + 1 /\ timeouts' = timeouts
      BY <1>0, <1>10 DEF DispatchFails, Fault, Goto
  <2>2. queued'[e] \in {queued[e], queued[e] + 1}
      BY <1>0, <1>00, <1>10 DEF DispatchFails
  <2> HIDE DEF TypeOK, Rights, Open
  <2>3. RowRight(e)' = RowRight(e)
      BY <2>1 DEF RowRight
  <2> QED BY <1>0, <1>00, <2>1, <2>2, <2>3, CountTypes, CountKept
<1>11. ASSUME NEW r \in Relays, StatementFails(r) \/ CommitAckLost(r) \/ Stop(r)
       PROVE  Counted(e)'
  <2>1. Rights(e)' \subseteq Rights(e)
      BY <1>0, <1>11 DEF StatementFails, CommitAckLost, Stop, Return
  <2> QED
      BY <1>0, <1>00, <1>11, <2>1, CountFault DEF StatementFails, CommitAckLost, Stop
<1> QED
    BY <1>1, <1>2, <1>3, <1>4, <1>5, <1>6, <1>7, <1>8, <1>9, <1>10, <1>11
    DEF Next, Step, Faults, Terminating

LEMMA NextCount == CountInv /\ [Next]_vars => CountInv'
BY NextPublish, NextCounted DEF CountInv

LEMMA CountInvariance == Spec => []CountInv
BY InitCount, NextCount, PTL DEF Spec

LEMMA CountBounds == CountInv => DuplicatesAreAccountedFor
<1> SUFFICES ASSUME CountInv, NEW e \in Events
             PROVE  queued[e] <= 1 + faults + timeouts
    BY DEF DuplicatesAreAccountedFor
<1> QED BY CountTypes DEF CountInv, PublishInv, Counted

\* A message is published twice only for a fault or for a claim that expired
\* while its relay was at work.
THEOREM DuplicatesHaveACause == Spec => []DuplicatesAreAccountedFor
BY CountBounds, CountInvariance, PTL

----------------------------------------------------------------------------
(* Inserts. *)

\* Only what was inserted is published.
Announced == \A e \in Events : queued[e] > 0 => status[e] # "absent"

\* An insert lets one event in; no other step lets one in or takes one out, and
\* at most one thing goes wrong in it.
Admits ==
    \/ \E e \in Events : Insert(e)
    \/ /\ \A e \in Events : status'[e] = "absent" <=> status[e] = "absent"
       /\ faults' + timeouts' \in {faults + timeouts, faults + timeouts + 1}

LEMMA StepsAdmit ==
    ASSUME PublishInv, [Next]_vars PROVE Admits
<1> DEFINE Same == \A e \in Events : status'[e] = "absent" <=> status[e] = "absent"
           Bounds == faults' + timeouts' \in {faults + timeouts, faults + timeouts + 1}
<1>1. /\ TypeOK /\ faults \in Nat /\ timeouts \in Nat
      /\ status \in [Events -> Statuses \cup {"absent"}]
    BY BoundAssumption DEF PublishInv, TypeOK
<1>2. ASSUME NEW r \in Relays, pc[r] \in Commits, Apply(r) PROVE Same
  <2>1. draft[r] # "absent" /\ AtWork(r) /\ status[event[r]] # "absent"
    BY <1>1, <1>2 DEF PublishInv, ClaimInv, ClaimOk, TypeOK, Commits, AtWork
  <2> QED BY <1>1, <1>2, <2>1 DEF Apply
<1>3. ASSUME UNCHANGED status PROVE Same
    BY <1>3
<1>4. ASSUME Fault \/ UNCHANGED bounds PROVE Bounds
    BY <1>1, <1>4 DEF Fault, bounds
<1>5. ASSUME NEW e \in Events, Expire(e) PROVE Same /\ Bounds
    BY <1>1, <1>5 DEF Expire
<1>6. ASSUME NEW r \in Relays, Step(r) PROVE Same /\ Bounds
    BY <1>2, <1>3, <1>4, <1>6
    DEF Step, Claim, CommitClaim, Dispatch, Mark, CommitMark, Release, CommitRelease, Start,
        Goto, Commits
<1>7. ASSUME NEW r \in Relays, Faults(r) PROVE Same /\ Bounds
    BY <1>2, <1>3, <1>4, <1>7
    DEF Faults, DispatchFails, StatementFails, CommitAckLost, Stop
<1>8. ASSUME UNCHANGED vars PROVE Same /\ Bounds
    BY <1>3, <1>4, <1>8 DEF vars, bounds
<1> QED BY <1>5, <1>6, <1>7, <1>8 DEF Next, Terminating, Admits

LEMMA InitAnnounced == Init => Announced
BY DEF Init, Announced

LEMMA NextAnnounced ==
    ASSUME PublishInv, Announced, [Next]_vars PROVE Announced'
<1>1. /\ TypeOK /\ queued \in [Events -> Nat]
    BY DEF PublishInv, TypeOK
<1>2. \A e \in Events : status[e] # "absent" => status'[e] # "absent"
    BY StepsAdmit, <1>1 DEF Admits, Insert, TypeOK
<1>3. CASE UNCHANGED queued
    BY <1>2, <1>3 DEF Announced
\* A relay that publishes has claimed the event.
<1>4. ASSUME NEW r \in Relays, Dispatch(r) \/ DispatchFails(r) PROVE Announced'
  <2>1. pc[r] = "dispatch" /\ \A e \in Events \ {event[r]} : queued'[e] = queued[e]
    BY <1>1, <1>4 DEF Dispatch, DispatchFails, Goto
  <2>2. status[event[r]] # "absent"
    BY <1>1, <2>1 DEF TypeOK, AtWork
  <2> QED BY <1>2, <2>1, <2>2 DEF Announced
<1>5. ASSUME NEW r \in Relays, Step(r) \/ Faults(r), ~Dispatch(r), ~DispatchFails(r)
      PROVE  UNCHANGED queued
    BY <1>5
    DEF Step, Claim, CommitClaim, Mark, CommitMark, Release, CommitRelease, Start,
        Faults, StatementFails, CommitAckLost, Stop
<1> QED BY <1>3, <1>4, <1>5 DEF Next, Terminating, Insert, Expire, vars

----------------------------------------------------------------------------
(* How far the mark is final.  ProcessedIsFinal does not hold of the code; *)
(* these are the two things that must come together to violate it.         *)

\* While no claim was overtaken, a relay at work has its event for itself, and
\* once its claim is committed the event stays in processing.
ClaimsHold ==
    timeouts = 0 =>
        /\ \A r, s \in Relays : r # s /\ event[r] # None => event[r] # event[s]
        /\ \A r \in Relays : AtWork(r) /\ pc[r] # "commitClaim" =>
              status[event[r]] = "processing" /\ ~expired[event[r]]

\* A relay gives an event back only after a dispatch that failed.
ReleasesHaveACause ==
    \A r \in Relays : pc[r] \in {"release", "commitRelease"} => faults > 0

MarkInv == PublishInv /\ ClaimsHold /\ ReleasesHaveACause

LEMMA InitMark == Init => MarkInv
BY InitPublish DEF MarkInv, Init, ClaimsHold, ReleasesHaveACause, AtWork

LEMMA NextMark ==
    ASSUME MarkInv, [Next]_vars PROVE MarkInv'
<1> SUFFICES ClaimsHold' /\ ReleasesHaveACause'
    BY NextPublish DEF MarkInv
<1>0. faults \in Nat /\ timeouts \in Nat
    BY BoundAssumption DEF MarkInv, PublishInv, TypeOK
<1> USE EventAssumption, NoneAssumption
    DEF MarkInv, PublishInv, TypeOK, Labels, Statements, Commits, AtWork, Statuses, bounds,
        ClaimInv, ClaimOk, Unclaimed, ClaimsHold, ReleasesHaveACause
<1> DEFINE Goal == ClaimsHold' /\ ReleasesHaveACause'
<1>1. ASSUME NEW e \in Events, Insert(e) PROVE Goal
    BY <1>0, <1>1 DEF Insert
<1>2. ASSUME NEW e \in Events, Expire(e) PROVE Goal
    BY <1>0, <1>2 DEF Expire
\* Nobody has an event that can be claimed: its holder would have locked it, or
\* its claim would be neither expired nor undone.
<1>3. ASSUME NEW r \in Relays, NEW e \in Events, Claim(r, e) PROVE Goal
  <2>1. timeouts = 0 => \A s \in Relays : event[s] # e
    BY <1>3 DEF Claim, Goto, Claimable, Locked
  <2>2. e \in Events /\ event[r] = None
    BY <1>3 DEF Claim, Goto
  <2> QED BY <1>0, <1>3, <2>1, <2>2 DEF Claim, Goto
<1>4. ASSUME NEW r \in Relays, CommitClaim(r) PROVE Goal
    BY <1>0, <1>4 DEF CommitClaim, Goto, Apply
<1>5. ASSUME NEW r \in Relays, Dispatch(r) PROVE Goal
    BY <1>0, <1>5 DEF Dispatch, Goto
<1>6. ASSUME NEW r \in Relays, Mark(r) PROVE Goal
    BY <1>0, <1>6 DEF Mark, Goto, Write
<1>7. ASSUME NEW r \in Relays, CommitMark(r) \/ CommitRelease(r) PROVE Goal
    BY <1>0, <1>7 DEF CommitMark, CommitRelease, Apply, Return
<1>8. ASSUME NEW r \in Relays, Release(r) PROVE Goal
    BY <1>0, <1>8 DEF Release, Goto, Write
<1>9. ASSUME NEW r \in Relays, Start(r) PROVE Goal
    BY <1>0, <1>9 DEF Start, Goto
<1>10. ASSUME NEW r \in Relays, DispatchFails(r) PROVE Goal
    BY <1>0, <1>10 DEF DispatchFails, Fault, Goto
<1>11. ASSUME NEW r \in Relays, StatementFails(r) PROVE Goal
    BY <1>0, <1>11 DEF StatementFails, Fault, Return
<1>12. ASSUME NEW r \in Relays, CommitAckLost(r) PROVE Goal
    BY <1>0, <1>12 DEF CommitAckLost, Fault, Apply, Return
<1>13. ASSUME NEW r \in Relays, Stop(r) PROVE Goal
    BY <1>0, <1>13 DEF Stop, Fault, Return
<1>14. CASE UNCHANGED vars
    BY <1>14 DEF vars
<1> QED
    BY <1>1, <1>2, <1>3, <1>4, <1>5, <1>6, <1>7, <1>8, <1>9, <1>10, <1>11, <1>12, <1>13, <1>14
    DEF Next, Step, Faults, Terminating

\* What the mark ends stays ended until both a dispatch has failed and a claim
\* was overtaken.
ProcessedLasts ==
    [][faults' = 0 \/ timeouts' = 0 =>
          \A e \in Events : status[e] = "processed" => status'[e] = "processed"]_vars

\* An event marked processed goes back to pending only after a dispatch that
\* failed and a claim that was overtaken: neither alone undoes a mark
\* (relay.go:139-150, outbox_events.sql:46-59).
THEOREM MarksAreFinal == Spec => ProcessedLasts
<1> DEFINE Lasts == faults' = 0 \/ timeouts' = 0 =>
              \A e \in Events : status[e] = "processed" => status'[e] = "processed"
<1>1. ASSUME MarkInv, [Next]_vars PROVE Lasts
  <2> SUFFICES ASSUME faults' = 0 \/ timeouts' = 0, NEW e \in Events,
                      status[e] = "processed"
               PROVE  status'[e] = "processed"
      OBVIOUS
  <2>0. /\ faults \in Nat /\ timeouts \in Nat
        /\ status \in [Events -> Statuses \cup {"absent"}]
        /\ faults' = 0 => faults = 0
        /\ timeouts' = 0 => timeouts = 0
    <3>1. faults \in Nat /\ timeouts \in Nat /\ status \in [Events -> Statuses \cup {"absent"}]
      BY <1>1, BoundAssumption DEF MarkInv, PublishInv, TypeOK
    <3>2. ASSUME NEW f \in Events, Insert(f) \/ Expire(f)
          PROVE  UNCHANGED faults /\ timeouts' \in {timeouts, timeouts + 1}
      BY <3>1, <3>2 DEF Insert, Expire, bounds
    <3>3. ASSUME NEW r \in Relays, Step(r) PROVE UNCHANGED bounds
      BY <3>3
      DEF Step, Claim, CommitClaim, Dispatch, Mark, CommitMark, Release, CommitRelease, Start
    <3>4. ASSUME NEW r \in Relays, Faults(r) PROVE Fault
      BY <3>4 DEF Faults, DispatchFails, StatementFails, CommitAckLost, Stop
    <3>5. UNCHANGED bounds \/ Fault \/ (UNCHANGED faults /\ timeouts' \in {timeouts, timeouts + 1})
      BY <1>1, <3>2, <3>3, <3>4 DEF Next, Terminating, vars, bounds
    <3> QED BY <3>1, <3>5 DEF Fault, bounds
  \* Whoever writes a row writes it to processed, or has a row that is not.
  <2>1. ASSUME NEW r \in Relays, pc[r] \in Commits, Apply(r) PROVE status'[e] = "processed"
    <3>1. CASE event[r] # e
      BY <2>0, <2>1, <3>1 DEF Apply
    <3>2. CASE event[r] = e /\ pc[r] = "commitMark"
      BY <1>1, <2>0, <2>1, <3>2 DEF Apply, MarkInv, PublishInv, ClaimInv, ClaimOk
    <3>3. ~(event[r] = e /\ pc[r] = "commitClaim")
      BY <1>1 DEF MarkInv, PublishInv, ClaimInv, ClaimOk, Unclaimed
    <3>4. ~(event[r] = e /\ pc[r] = "commitRelease")
      BY <1>1, <2>0 DEF MarkInv, ClaimsHold, ReleasesHaveACause, AtWork
    <3> QED BY <2>1, <3>1, <3>2, <3>3, <3>4 DEF Commits
  <2>2. CASE UNCHANGED status
    BY <2>2
  <2>3. ASSUME NEW f \in Events, Insert(f) PROVE status'[e] = "processed"
    BY <2>0, <2>3 DEF Insert
  <2>4. ASSUME NEW r \in Relays, Step(r) \/ Faults(r) PROVE status'[e] = "processed"
    BY <2>1, <2>2, <2>4
    DEF Step, Claim, CommitClaim, Dispatch, Mark, CommitMark, Release, CommitRelease, Start,
        Faults, DispatchFails, StatementFails, CommitAckLost, Stop, Goto, Commits
  <2> QED BY <1>1, <2>2, <2>3, <2>4 DEF Next, Terminating, vars, Expire
<1> QED BY <1>1, InitMark, NextMark, PTL DEF Spec, ProcessedLasts
=============================================================================
