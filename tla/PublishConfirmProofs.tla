------------------------- MODULE PublishConfirmProofs -------------------------
(***************************************************************************)
(* Theorems about PublishConfirm, for any number of publishes and starts.  *)
(***************************************************************************)
EXTENDS PublishConfirm, SequenceTheorems, TLAPS

Acknowledged == {"queued", "returned"}

\* A confirmation of the last message that tells what the broker did with it.
Fits(m) ==
    /\ m \in Confirmations
    /\ m.tag = tag
    /\ m.ack => fate[tag] \in Acknowledged

\* Where the answer to the message that the caller waits for is.
OnWire ==
    /\ wire = <<tag>>
    /\ confirms = <<>>
    /\ \/ frames = <<>>
       \/ frames = <<Return(tag)>> /\ fate[tag] = "returned"
Sent ==
    /\ wire = <<>>
    /\ confirms = <<>>
    /\ \E m \in Confirmations :
          Fits(m) /\ frames \in {<<m>>, <<Return(tag), m>>}
Arrived ==
    /\ wire = <<>>
    /\ frames = <<>>
    /\ \E m \in Confirmations : Fits(m) /\ confirms = <<m>>
Quiet == wire = <<>> /\ frames = <<>> /\ confirms = <<>>

StageOK ==
    /\ pc \in Waiting => tag \in Tags
    /\ pc \in Waiting /\ alive => OnWire \/ Sent \/ Arrived
    /\ pc \in Waiting /\ ~alive => Quiet \/ Arrived
    /\ pc \in {"declare", "idle"} => Quiet

IInv == TypeOK /\ StageOK /\ NilIsAcknowledged

LEMMA FrameKinds ==
    /\ \A m \in Returns : m.kind = "return"
    /\ \A m \in Confirmations : m.kind = "confirmation" /\ m.tag \in Tags /\ m.ack \in BOOLEAN
    /\ \A t \in Tags : Return(t) \in Returns
    /\ \A t \in Tags :
          Confirmation(t, TRUE) \in Confirmations /\ Confirmation(t, FALSE) \in Confirmations
  BY DEF Returns, Confirmations, Return, Confirmation

LEMMA ShortSequences ==
    ASSUME NEW m, NEW n
    PROVE  /\ Append(<<>>, m) = <<m>>
           /\ Append(<<n>>, m) = <<n, m>>
           /\ Head(<<m>>) = m /\ Tail(<<m>>) = <<>>
           /\ Head(<<n, m>>) = n /\ Tail(<<n, m>>) = <<m>>
<1>1. Append(<<>>, m) = <<m>>
  OBVIOUS
<1>2. Append(<<n>>, m) = <<n, m>>
  <2>1. <<n>> \in Seq({m, n}) /\ <<n, m>> \in Seq({m, n})
    OBVIOUS
  <2>2. /\ Append(<<n>>, m) \in Seq({m, n})
        /\ Len(Append(<<n>>, m)) = 2
        /\ Append(<<n>>, m)[1] = n
        /\ Append(<<n>>, m)[2] = m
    BY <2>1, AppendProperties
  <2>3. Len(<<n, m>>) = 2 /\ <<n, m>>[1] = n /\ <<n, m>>[2] = m
    OBVIOUS
  <2>4. \A i \in 1 .. Len(Append(<<n>>, m)) : Append(<<n>>, m)[i] = <<n, m>>[i]
    BY <2>2, <2>3
  <2> QED BY <2>1, <2>2, <2>3, <2>4, SeqEqual
<1>3. Head(<<m>>) = m /\ Head(<<n, m>>) = n
  OBVIOUS
<1>4. Tail(<<m>>) = <<>>
  OBVIOUS
<1>5. Tail(<<n, m>>) = <<m>>
  OBVIOUS
<1> QED BY <1>1, <1>2, <1>3, <1>4, <1>5

LEMMA TypeInit == Init => TypeOK
<1> SUFFICES ASSUME Init PROVE TypeOK
  OBVIOUS
<1>1. wire \in Seq(Tags) /\ frames \in Seq(Returns \cup Confirmations)
  BY DEF Init
<1>2. /\ fate \in [Tags -> {"none", "queued", "returned", "refused"}]
      /\ told \in [Tags -> {"none", "nil", "error"}]
  BY DEF Init
<1>3. tag \in 0 .. MaxTag /\ opens \in 0 .. MaxOpens
  BY BoundAssumption DEF Init
<1> QED BY <1>1, <1>2, <1>3 DEF Init, TypeOK

LEMMA TypeStep == TypeOK /\ (pc \in Waiting => tag \in Tags) /\ [Next]_vars => TypeOK'
<1> SUFFICES ASSUME TypeOK, pc \in Waiting => tag \in Tags, [Next]_vars
             PROVE  TypeOK'
  OBVIOUS
<1> USE BoundAssumption DEF TypeOK
<1>1. CASE UNCHANGED vars
  BY <1>1 DEF vars
<1>2. CASE Open
  BY <1>2 DEF Open, Fresh, Tags
<1>3. CASE EnsureTopology
  BY <1>3 DEF EnsureTopology, channels
<1>4. CASE Exit
  BY <1>4 DEF Exit, broker, channels
<1>5. CASE Publish
  <2>1. tag' \in Tags
    BY <1>5 DEF Publish, Tags
  <2> QED BY <1>5, <2>1 DEF Publish, channels, Waiting, Tags
<1>6. CASE PublishFails
  <2>1. tag' \in Tags
    BY <1>6 DEF PublishFails, Tags
  <2> QED BY <1>6, <2>1 DEF PublishFails, Fail, broker, channels, Tags
<1>7. CASE TakeReturn
  BY <1>7 DEF TakeReturn, broker, Waiting
<1>8. CASE TakeConfirmation
  BY <1>8 DEF TakeConfirmation, Tell, Fail, broker, Waiting
<1>9. CASE SeeClosed
  BY <1>9 DEF SeeClosed, Tell, Fail, broker, channels, Waiting
<1>10. CASE GiveUp
  BY <1>10 DEF GiveUp, Tell, Fail, broker, channels, Waiting
<1>11. CASE PassOn
  <2> DEFINE m == Head(frames)
  <2>1. m \in Returns \cup Confirmations /\ Tail(frames) \in Seq(Returns \cup Confirmations)
    BY <1>11 DEF PassOn
  <2>2. CASE m.kind = "return"
    <3>1. m \in Returns
      BY <2>1, <2>2, FrameKinds
    <3>2. returns' = <<m>> /\ confirms' = confirms
      BY <1>11, <2>2, ShortSequences DEF PassOn, Room
    <3> QED BY <1>11, <2>1, <3>1, <3>2 DEF PassOn, broker
  <2>3. CASE m.kind # "return"
    <3>1. m \in Confirmations
      BY <2>1, <2>3, FrameKinds
    <3>2. confirms' = <<m>> /\ returns' = returns
      BY <1>11, <2>1, <2>3, FrameKinds, ShortSequences DEF PassOn, Room
    <3> QED BY <1>11, <2>1, <3>1, <3>2 DEF PassOn, broker
  <2> QED BY <2>2, <2>3
<1>12. CASE SendBack
  <2>1. Head(wire) \in Tags /\ Return(Head(wire)) \in Returns
    BY <1>12, FrameKinds DEF SendBack, Answering
  <2> QED BY <1>12, <2>1 DEF SendBack
<1>13. CASE Acknowledge
  <2>0. wire # <<>>
    BY <1>13 DEF Acknowledge, Answering
  <2>1. Head(wire) \in Tags /\ Tail(wire) \in Seq(Tags)
    BY <2>0
  <2>2. Confirmation(Head(wire), TRUE) \in Confirmations
    BY <2>1, FrameKinds
  <2>3. wire' \in Seq(Tags) /\ frames' \in Seq(Returns \cup Confirmations)
    <3>1. Confirmation(Head(wire), TRUE) \in Returns \cup Confirmations
      BY <2>2
    <3>2. Append(frames, Confirmation(Head(wire), TRUE)) \in Seq(Returns \cup Confirmations)
      BY <3>1, AppendProperties
    <3> QED BY <1>13, <2>1, <3>2 DEF Acknowledge
  <2>4. fate' \in [Tags -> {"none", "queued", "returned", "refused"}]
    BY <1>13, <2>1 DEF Acknowledge
  <2>5. UNCHANGED <<pc, tag, alive, bound, returns, confirms, told, opens>>
    BY <1>13 DEF Acknowledge
  <2> QED BY <2>3, <2>4, <2>5
<1>14. CASE Refuse
  <2>0. wire # <<>>
    BY <1>14 DEF Refuse, Answering
  <2>1. Head(wire) \in Tags /\ Tail(wire) \in Seq(Tags)
    BY <2>0
  <2>2. Confirmation(Head(wire), FALSE) \in Confirmations
    BY <2>1, FrameKinds
  <2>3. wire' \in Seq(Tags) /\ frames' \in Seq(Returns \cup Confirmations)
    <3>1. Confirmation(Head(wire), FALSE) \in Returns \cup Confirmations
      BY <2>2
    <3>2. Append(frames, Confirmation(Head(wire), FALSE)) \in Seq(Returns \cup Confirmations)
      BY <3>1, AppendProperties
    <3> QED BY <1>14, <2>1, <3>2 DEF Refuse
  <2>4. fate' \in [Tags -> {"none", "queued", "returned", "refused"}]
    BY <1>14, <2>1 DEF Refuse
  <2>5. UNCHANGED <<pc, tag, alive, bound, returns, confirms, told, opens>>
    BY <1>14 DEF Refuse
  <2> QED BY <2>3, <2>4, <2>5
<1>15. CASE Disconnect
  <2>1. fate' \in [Tags -> {"none", "queued", "returned", "refused"}]
    BY <1>15 DEF Disconnect
  <2>2. /\ UNCHANGED <<pc, tag, bound, returns, confirms, told, opens>>
        /\ alive' = FALSE /\ wire' \in Seq(Tags)
        /\ frames' \in Seq(Returns \cup Confirmations)
    BY <1>15 DEF Disconnect
  <2> QED BY <2>1, <2>2
<1>16. CASE Rebind
  BY <1>16 DEF Rebind, channels
<1>17. CASE Terminating
  BY <1>17 DEF Terminating, vars
<1> QED
  BY <1>1, <1>2, <1>3, <1>4, <1>5, <1>6, <1>7, <1>8, <1>9, <1>10, <1>11, <1>12,
     <1>13, <1>14, <1>15, <1>16, <1>17
  DEF Next, Caller, Environment

\* A confirmation that fits still does when nothing about its message changes.
LEMMA FitsStable ==
    ASSUME tag' = tag, fate'[tag] = fate[tag]
    PROVE  \A m \in Confirmations : Fits(m) => Fits(m)'
  BY DEF Fits

LEMMA StageStep == IInv /\ [Next]_vars => StageOK'
<1> SUFFICES ASSUME TypeOK, StageOK, [Next]_vars
             PROVE  StageOK'
  BY DEF IInv
<1>1. CASE UNCHANGED vars
  BY <1>1 DEF vars, StageOK, OnWire, Sent, Arrived, Quiet, Fits
<1>2. CASE Open
  BY <1>2 DEF Open, Fresh, StageOK, Quiet, Waiting
<1>3. CASE EnsureTopology
  BY <1>3 DEF EnsureTopology, channels, StageOK, Quiet, Waiting
<1>4. CASE Exit
  BY <1>4 DEF Exit, StageOK, Waiting
<1>5. CASE Publish
  <2>1. tag' \in Tags /\ pc' = "first" /\ alive'
    BY <1>5, BoundAssumption DEF Publish, Tags, TypeOK
  <2>2. Quiet
    BY <1>5 DEF Publish, StageOK
  <2>3. OnWire'
    BY <1>5, <2>2 DEF Publish, Quiet, OnWire, channels
  <2> QED BY <2>1, <2>3 DEF StageOK, Waiting
<1>6. CASE PublishFails
  BY <1>6 DEF PublishFails, Fail, StageOK, Waiting
<1>7. CASE TakeReturn
  <2>1. UNCHANGED <<tag, alive, wire, fate, frames, confirms>> /\ pc \in Waiting /\ pc' = "second"
    BY <1>7 DEF TakeReturn, broker, Waiting
  <2> QED BY <2>1 DEF StageOK, OnWire, Sent, Arrived, Quiet, Fits, Waiting
<1>8. CASE TakeConfirmation
  <2>1. Arrived /\ pc' \in {"idle", "failed"}
    BY <1>8 DEF TakeConfirmation, Tell, Fail, StageOK, OnWire, Sent, Quiet
  <2>2. Quiet'
    BY <1>8, <2>1 DEF TakeConfirmation, Arrived, Quiet, broker
  <2> QED BY <2>1, <2>2 DEF StageOK, Waiting
<1>9. CASE SeeClosed
  BY <1>9 DEF SeeClosed, Tell, Fail, StageOK, Waiting
<1>10. CASE GiveUp
  BY <1>10 DEF GiveUp, Tell, Fail, StageOK, Waiting
<1>11. CASE PassOn
  <2>0. UNCHANGED <<pc, tag, alive, wire, fate>> /\ frames # <<>> /\ frames' = Tail(frames)
    BY <1>11 DEF PassOn, broker
  <2>1. CASE pc \in Waiting
    <3>1. tag \in Tags /\ alive
      BY <2>0, <2>1 DEF StageOK, Quiet, Arrived
    <3>2. CASE OnWire
      <4>1. frames = <<Return(tag)>>
        BY <2>0, <3>2 DEF OnWire
      <4>2. frames' = <<>> /\ confirms' = confirms
        BY <1>11, <2>0, <4>1 DEF PassOn, Return
      <4>3. OnWire'
        BY <2>0, <3>2, <4>2 DEF OnWire
      <4> QED BY <2>0, <2>1, <3>1, <4>3 DEF StageOK, Waiting
    <3>3. CASE Sent
      <4>1. PICK m \in Confirmations :
                Fits(m) /\ frames \in {<<m>>, <<Return(tag), m>>}
        BY <3>3 DEF Sent
      <4>2. Fits(m)'
        BY <2>0, <4>1, FitsStable
      <4>3. CASE frames = <<m>>
        <5>1. frames' = <<>> /\ confirms' = <<m>>
          BY <1>11, <2>0, <3>3, <4>3, FrameKinds DEF PassOn, Sent
        <5>2. Arrived'
          BY <2>0, <3>3, <4>2, <5>1 DEF Arrived, Sent
        <5> QED BY <2>0, <2>1, <3>1, <5>2 DEF StageOK, Waiting
      <4>4. CASE frames = <<Return(tag), m>>
        <5>1. frames' = <<m>> /\ confirms' = confirms
          BY <1>11, <2>0, <4>4 DEF PassOn, Return
        <5>2. Sent'
          BY <2>0, <3>3, <4>2, <5>1 DEF Sent
        <5> QED BY <2>0, <2>1, <3>1, <5>2 DEF StageOK, Waiting
      <4> QED BY <4>1, <4>3, <4>4
    <3> QED BY <2>0, <2>1, <3>1, <3>2, <3>3 DEF StageOK, Arrived
  <2>2. CASE pc \notin Waiting
    <3>1. pc \notin {"declare", "idle"}
      BY <2>0 DEF StageOK, Quiet
    <3> QED BY <2>0, <2>2, <3>1 DEF StageOK
  <2> QED BY <2>1, <2>2
<1>12. CASE SendBack
  <2>0. UNCHANGED <<pc, tag, alive, wire, confirms>> /\ alive /\ wire # <<>>
    BY <1>12 DEF SendBack, Answering
  <2>1. CASE pc \in Waiting
    <3>1. OnWire /\ Head(wire) = tag /\ tag \in Tags
      BY <2>0, <2>1 DEF StageOK, Sent, Arrived, OnWire
    <3>2. fate[tag] = "none" /\ frames = <<>>
      BY <1>12, <3>1 DEF SendBack, OnWire
    <3>3. frames' = <<Return(tag)>> /\ fate'[tag] = "returned"
      BY <1>12, <3>1, <3>2 DEF SendBack, TypeOK
    <3>4. OnWire'
      BY <2>0, <3>1, <3>3 DEF OnWire
    <3> QED BY <2>0, <2>1, <3>1, <3>4 DEF StageOK, Waiting
  <2>2. CASE pc \notin Waiting
    <3>1. pc \notin {"declare", "idle"}
      BY <2>0 DEF StageOK, Quiet
    <3> QED BY <2>0, <2>2, <3>1 DEF StageOK
  <2> QED BY <2>1, <2>2
<1>13. CASE Acknowledge \/ Refuse
  <2>0. UNCHANGED <<pc, tag, alive, confirms>> /\ alive /\ wire # <<>>
    BY <1>13 DEF Acknowledge, Refuse, Answering
  <2>1. CASE pc \in Waiting
    <3>1. OnWire /\ Head(wire) = tag /\ Tail(wire) = <<>> /\ tag \in Tags
      <4>1. OnWire /\ tag \in Tags
        BY <2>0, <2>1 DEF StageOK, Sent, Arrived
      <4> QED BY <4>1, ShortSequences DEF OnWire
    <3>2. PICK a \in BOOLEAN :
             /\ frames' = Append(frames, Confirmation(tag, a))
             /\ a => fate'[tag] \in Acknowledged
             /\ wire' = <<>>
      <4>1. CASE Acknowledge
        <5>1. fate'[tag] \in Acknowledged
          BY <3>1, <4>1 DEF Acknowledge, Acknowledged, TypeOK
        <5> QED BY <3>1, <4>1, <5>1 DEF Acknowledge
      <4>2. CASE Refuse
        BY <3>1, <4>2 DEF Refuse
      <4> QED BY <1>13, <4>1, <4>2
    <3>3. Confirmation(tag, a) \in Confirmations /\ Fits(Confirmation(tag, a))'
      BY <2>0, <3>1, <3>2, FrameKinds DEF Fits, Confirmation
    <3>4. frames' \in {<<Confirmation(tag, a)>>, <<Return(tag), Confirmation(tag, a)>>}
      BY <3>1, <3>2, ShortSequences DEF OnWire
    <3>5. Sent'
      BY <2>0, <3>1, <3>2, <3>3, <3>4 DEF Sent, OnWire
    <3> QED BY <2>0, <2>1, <3>1, <3>5 DEF StageOK, Waiting
  <2>2. CASE pc \notin Waiting
    <3>1. pc \notin {"declare", "idle"}
      BY <2>0 DEF StageOK, Quiet
    <3> QED BY <2>0, <2>2, <3>1 DEF StageOK
  <2> QED BY <2>1, <2>2
<1>14. CASE Disconnect
  <2>0. /\ UNCHANGED <<pc, tag, confirms>> /\ alive /\ ~alive'
        /\ wire' = <<>> /\ frames' = <<>>
    BY <1>14 DEF Disconnect
  <2>1. CASE pc \in Waiting
    <3>1. tag \in Tags /\ (OnWire \/ Sent \/ Arrived)
      BY <2>0, <2>1 DEF StageOK
    <3>2. CASE Arrived
      <4>1. fate'[tag] = fate[tag]
        BY <1>14, <3>1, <3>2 DEF Disconnect, Arrived, ToSet, TypeOK
      <4>2. Arrived'
        BY <2>0, <3>2, <4>1, FitsStable DEF Arrived
      <4> QED BY <2>0, <2>1, <3>1, <4>2 DEF StageOK, Waiting
    <3>3. CASE OnWire \/ Sent
      BY <2>0, <2>1, <3>1, <3>3 DEF OnWire, Sent, Quiet, StageOK, Waiting
    <3> QED BY <3>1, <3>2, <3>3
  <2>2. CASE pc \notin Waiting
    BY <2>0, <2>2 DEF StageOK, Quiet
  <2> QED BY <2>1, <2>2
<1>15. CASE Rebind
  BY <1>15 DEF Rebind, channels, StageOK, OnWire, Sent, Arrived, Quiet, Fits
<1>16. CASE Terminating
  BY <1>16 DEF Terminating, vars, StageOK, OnWire, Sent, Arrived, Quiet, Fits
<1> QED
  BY <1>1, <1>2, <1>3, <1>4, <1>5, <1>6, <1>7, <1>8, <1>9, <1>10, <1>11, <1>12,
     <1>13, <1>14, <1>15, <1>16
  DEF Next, Caller, Environment

\* Of a message that was answered the broker does not think again.
LEMMA AnswersStay ==
    ASSUME TypeOK, [Next]_vars, fate' # [t \in Tags |-> "none"]
    PROVE  \A t \in Tags : fate[t] \in Acknowledged => fate'[t] \in Acknowledged
<1> SUFFICES ASSUME NEW t \in Tags, fate[t] \in Acknowledged
             PROVE  fate'[t] \in Acknowledged
  OBVIOUS
<1>1. CASE UNCHANGED fate
  BY <1>1
<1>2. CASE SendBack
  BY <1>2 DEF SendBack, TypeOK, Acknowledged
<1>3. CASE Acknowledge
  BY <1>3 DEF Acknowledge, TypeOK, Acknowledged
<1>4. CASE Refuse
  BY <1>4 DEF Refuse, TypeOK, Acknowledged
<1>5. CASE Disconnect
  BY <1>5 DEF Disconnect, Acknowledged
<1>6. ~Open
  BY DEF Open, Fresh
<1> QED
  BY <1>1, <1>2, <1>3, <1>4, <1>5, <1>6
  DEF Next, vars, Caller, Environment, broker, EnsureTopology, Exit, Publish, PublishFails,
      TakeReturn, TakeConfirmation, SeeClosed, GiveUp, PassOn, Rebind, Terminating

LEMMA NilStep == IInv /\ [Next]_vars => NilIsAcknowledged'
<1> SUFFICES ASSUME IInv, [Next]_vars, NEW t \in Tags, told'[t] = "nil"
             PROVE  fate'[t] \in Acknowledged
  BY DEF NilIsAcknowledged, Acknowledged
<1> USE DEF IInv
<1>1. CASE Open
  BY <1>1 DEF Open, Fresh
<1>2. CASE told[t] = "nil" /\ ~Open
  <2>1. fate[t] \in Acknowledged
    BY <1>2 DEF NilIsAcknowledged, Acknowledged
  <2>2. CASE fate' # [u \in Tags |-> "none"]
    BY <2>1, <2>2, AnswersStay
  <2>3. CASE fate' = [u \in Tags |-> "none"]
    BY <1>2, <2>1, <2>3 DEF Next, vars, Caller, Environment, broker, EnsureTopology, Exit,
      Publish, PublishFails, TakeReturn, TakeConfirmation, SeeClosed, GiveUp, PassOn,
      Rebind, Terminating, SendBack, Acknowledge, Refuse, Disconnect, TypeOK, Acknowledged
  <2> QED BY <2>2, <2>3
<1>3. CASE told[t] # "nil" /\ ~Open
  <2>1. TakeConfirmation
    BY <1>3 DEF Next, vars, Caller, Environment, EnsureTopology, Exit, Publish, PublishFails,
      TakeReturn, SeeClosed, GiveUp, PassOn, Rebind, Terminating, SendBack, Acknowledge,
      Refuse, Disconnect, Tell, TypeOK
  <2>2. t = tag /\ Head(confirms).ack /\ Arrived
    BY <1>3, <2>1 DEF TakeConfirmation, Tell, TypeOK, StageOK, OnWire, Sent, Quiet, Arrived
  <2>3. fate[t] \in Acknowledged
    BY <2>2 DEF Arrived, Fits
  <2> QED BY <2>1, <2>3 DEF TakeConfirmation, broker
<1> QED BY <1>1, <1>2, <1>3

THEOREM Invariant == Spec => []IInv
<1>1. Init => IInv
  BY TypeInit DEF Init, IInv, StageOK, NilIsAcknowledged, Waiting
<1>2. IInv /\ [Next]_vars => IInv'
  BY TypeStep, StageStep, NilStep DEF IInv, StageOK
<1> QED BY <1>1, <1>2, PTL DEF Spec

\* Every value stays in its set: a Go channel of capacity one never holds two.
THEOREM TypesHold == Spec => []TypeOK
<1>1. IInv => TypeOK
  BY DEF IInv
<1> QED BY <1>1, Invariant, PTL

\* nil is only told of a message that the broker answered for and did not
\* refuse: a late confirmation is never read for another message.
THEOREM NilsAreAcknowledged == Spec => []NilIsAcknowledged
<1>1. IInv => NilIsAcknowledged
  BY DEF IInv
<1> QED BY <1>1, Invariant, PTL

\* Between two publishes no confirmation is left and the reader holds nothing.
THEOREM NothingStays == Spec => []NothingIsLeftOver
<1>1. IInv => NothingIsLeftOver
  BY DEF IInv, StageOK, Quiet, NothingIsLeftOver
<1> QED BY <1>1, Invariant, PTL

----------------------------------------------------------------------------
(* The return that is missed. *)

Missed(t) == told[t] = "nil" /\ fate[t] = "returned"

\* Nothing is known of a message before its turn; only the last is on the wire.
InTurn ==
    /\ \A t \in Tags : t > tag => fate[t] = "none" /\ told[t] = "none"
    /\ pc \in Waiting => told[tag] = "none"
    /\ wire \in {<<>>, <<tag>>}

\* The return of a message is ahead of its confirmation.
ReturnIsAhead ==
    pc = "first" /\ fate[tag] = "returned" =>
        \/ returns = <<Return(tag)>>
        \/ confirms = <<>> /\ (~alive \/ (frames # <<>> /\ Head(frames) = Return(tag)))

\* The return that was missed stays, until it fails a later publish.
ReturnStays ==
    \A t \in Tags : Missed(t) =>
        \/ pc \in {"closed", "failed", "second"}
        \/ pc \in {"idle", "first"} /\ returns = <<Return(t)>>

MissInv == IInv /\ InTurn /\ ReturnIsAhead /\ ReturnStays /\ OneReturnIsMissed

LEMMA InTurnStep == IInv /\ InTurn /\ [Next]_vars => InTurn'
<1> SUFFICES ASSUME IInv, InTurn, [Next]_vars PROVE InTurn'
  OBVIOUS
<1> USE BoundAssumption DEF IInv, TypeOK, Tags
<1>1. CASE UNCHANGED vars
  BY <1>1 DEF vars, InTurn, Waiting
<1>2. CASE Open
  BY <1>2 DEF Open, Fresh, InTurn, Waiting
<1>3. CASE EnsureTopology \/ Exit \/ TakeReturn \/ PassOn \/ Rebind
  BY <1>3 DEF EnsureTopology, Exit, TakeReturn, PassOn, Rebind, broker, channels, InTurn, Waiting
<1>4. CASE Publish \/ PublishFails
  <2>1. wire = <<>> /\ tag' = tag + 1
    BY <1>4 DEF Publish, PublishFails, StageOK, Quiet
  <2>2. wire' \in {<<>>, <<tag'>>}
    BY <1>4, <2>1, ShortSequences DEF Publish, PublishFails, broker
  <2>3. UNCHANGED fate /\ \A t \in Tags : t # tag' => told'[t] = told[t]
    BY <1>4 DEF Publish, PublishFails, broker
  <2>4. pc' \in Waiting => told'[tag'] = "none"
    BY <1>4, <2>1 DEF Publish, PublishFails, Fail, InTurn, Waiting
  <2> QED BY <2>1, <2>2, <2>3, <2>4 DEF InTurn
<1>5. CASE TakeConfirmation \/ SeeClosed \/ GiveUp
  <2>1. UNCHANGED <<tag, fate, wire>> /\ pc' \notin Waiting /\ tag \in Tags
        /\ \E a \in {"nil", "error"} : told' = [told EXCEPT ![tag] = a]
    BY <1>5 DEF TakeConfirmation, SeeClosed, GiveUp, Tell, Fail, broker, channels, StageOK, Waiting
  <2> QED BY <2>1 DEF InTurn
<1>6. CASE SendBack \/ Acknowledge \/ Refuse
  <2>1. wire = <<tag>> /\ UNCHANGED <<pc, tag, told>>
    BY <1>6 DEF SendBack, Acknowledge, Refuse, Answering, InTurn
  <2>2. Head(wire) = tag /\ Tail(wire) = <<>>
    BY <2>1, ShortSequences
  <2>3. wire' \in {<<>>, <<tag>>} /\ \A t \in Tags : t # tag => fate'[t] = fate[t]
    BY <1>6, <2>1, <2>2 DEF SendBack, Acknowledge, Refuse
  <2> QED BY <2>1, <2>3 DEF InTurn
<1>7. CASE Disconnect
  <2>1. UNCHANGED <<pc, tag, told>> /\ wire' = <<>>
    BY <1>7 DEF Disconnect
  <2>2. ASSUME NEW t \in Tags, t > tag PROVE fate'[t] = fate[t]
    <3>1. t \notin ToSet(wire)
      BY <2>2 DEF InTurn, ToSet
    <3> QED BY <1>7, <3>1 DEF Disconnect
  <2> QED BY <2>1, <2>2 DEF InTurn
<1>8. CASE Terminating
  BY <1>8 DEF Terminating, vars, InTurn, Waiting
<1> QED
  BY <1>1, <1>2, <1>3, <1>4, <1>5, <1>6, <1>7, <1>8 DEF Next, Caller, Environment

LEMMA ReturnIsAheadStep == IInv /\ InTurn /\ ReturnIsAhead /\ [Next]_vars => ReturnIsAhead'
<1> SUFFICES ASSUME IInv, InTurn, ReturnIsAhead, [Next]_vars,
                    pc' = "first", fate'[tag'] = "returned"
             PROVE  \/ returns' = <<Return(tag')>>
                    \/ /\ confirms' = <<>>
                       /\ ~alive' \/ (frames' # <<>> /\ Head(frames') = Return(tag'))
  BY DEF ReturnIsAhead
<1> USE BoundAssumption DEF IInv, TypeOK, Tags
<1>1. CASE UNCHANGED vars \/ Terminating
  BY <1>1 DEF Terminating, vars, ReturnIsAhead
<1>2. CASE Rebind
  BY <1>2 DEF Rebind, channels, ReturnIsAhead
<1>3. ~(Open \/ EnsureTopology \/ Exit \/ PublishFails \/ TakeReturn \/ TakeConfirmation
          \/ SeeClosed \/ GiveUp)
  BY DEF Open, EnsureTopology, Exit, PublishFails, TakeReturn, TakeConfirmation, SeeClosed,
    GiveUp, Tell, Fail
<1>4. ~Publish
  BY DEF Publish, InTurn
<1>5. CASE PassOn
  <2>1. UNCHANGED <<pc, tag, alive, fate>> /\ frames # <<>>
    BY <1>5 DEF PassOn, broker
  <2>2. CASE returns = <<Return(tag)>>
    <3>1. returns' = returns
      BY <1>5, <2>2 DEF PassOn, Room
    <3> QED BY <2>1, <2>2, <3>1
  <2>3. CASE returns # <<Return(tag)>>
    <3>1. alive
      BY <2>1 DEF StageOK, Quiet, Arrived, Waiting
    <3>2. Head(frames) = Return(tag)
      BY <2>1, <2>3, <3>1 DEF ReturnIsAhead
    <3>3. returns = <<>> /\ returns' = Append(returns, Return(tag))
      <4>1. Head(frames).kind = "return"
        BY <3>2 DEF Return
      <4> QED BY <1>5, <3>2, <4>1 DEF PassOn, Room
    <3>4. returns' = <<Return(tag)>>
      BY <3>3, ShortSequences
    <3> QED BY <2>1, <3>4
  <2> QED BY <2>2, <2>3
<1>6. CASE SendBack
  <2>1. UNCHANGED <<pc, tag, returns, confirms>> /\ wire = <<tag>>
    BY <1>6 DEF SendBack, Answering, InTurn
  <2>2. OnWire
    BY <1>6, <2>1 DEF SendBack, Answering, StageOK, Sent, Arrived, Waiting
  <2>3. Head(wire) = tag /\ fate[tag] = "none"
    BY <1>6, <2>1, ShortSequences DEF SendBack
  <2>4. frames = <<>> /\ confirms = <<>>
    BY <2>2, <2>3 DEF OnWire
  <2>5. frames' = <<Return(tag)>>
    BY <1>6, <2>3, <2>4, ShortSequences DEF SendBack
  <2> QED BY <2>1, <2>4, <2>5, ShortSequences
<1>7. CASE Acknowledge \/ Refuse
  <2>1. UNCHANGED <<pc, tag, alive, returns, confirms>> /\ alive /\ wire = <<tag>>
    BY <1>7 DEF Acknowledge, Refuse, Answering, InTurn
  <2>2. OnWire /\ Head(wire) = tag /\ tag \in Tags
    BY <2>1, ShortSequences DEF StageOK, Sent, Arrived, Waiting
  <2>3. fate[tag] = "returned"
    BY <1>7, <2>1, <2>2 DEF Acknowledge, Refuse
  <2>4. CASE returns = <<Return(tag)>>
    BY <2>1, <2>4
  <2>5. CASE returns # <<Return(tag)>>
    <3>1. confirms = <<>> /\ frames = <<Return(tag)>>
      BY <2>1, <2>2, <2>3, <2>5 DEF ReturnIsAhead, OnWire
    <3>2. \E a \in BOOLEAN : frames' = <<Return(tag), Confirmation(tag, a)>>
      BY <1>7, <2>2, <3>1, ShortSequences DEF Acknowledge, Refuse
    <3> QED BY <2>1, <3>1, <3>2, ShortSequences
  <2> QED BY <2>4, <2>5
<1>8. CASE Disconnect
  <2>1. UNCHANGED <<pc, tag, returns, confirms>> /\ ~alive' /\ fate[tag] = "returned"
    BY <1>8 DEF Disconnect, StageOK, Waiting
  <2>2. returns = <<Return(tag)>> \/ confirms = <<>>
    BY <2>1 DEF ReturnIsAhead
  <2> QED BY <2>1, <2>2
<1> QED
  BY <1>1, <1>2, <1>3, <1>4, <1>5, <1>6, <1>7, <1>8 DEF Next, Caller, Environment

\* What was told and what became of it do not change, but for a new client.
LEMMA MissedStep ==
    ASSUME IInv, [Next]_vars, ~Open, NEW t \in Tags, told'[t] = "nil"
    PROVE  \/ told[t] = "nil" /\ fate'[t] = fate[t]
           \/ /\ TakeConfirmation /\ t = tag /\ pc = "first" /\ Arrived
              /\ pc' = "idle" /\ UNCHANGED <<tag, returns, fate>>
              /\ fate[t] \in Acknowledged
<1> USE BoundAssumption DEF IInv, TypeOK
<1>1. CASE TakeConfirmation /\ told[t] # "nil"
  <2>1. t = tag /\ pc = "first" /\ Head(confirms).ack /\ Arrived
        /\ pc' = "idle" /\ UNCHANGED <<tag, returns, fate>>
    BY <1>1 DEF TakeConfirmation, Tell, broker, StageOK, OnWire, Sent, Quiet, Arrived
  <2> QED BY <1>1, <2>1 DEF Arrived, Fits
<1>2. CASE ~TakeConfirmation
  <2>1. told[t] = "nil"
    BY <1>2 DEF Next, vars, Caller, Environment, EnsureTopology, Exit, Publish, PublishFails,
      TakeReturn, SeeClosed, GiveUp, PassOn, Rebind, Terminating, SendBack, Acknowledge,
      Refuse, Disconnect, Tell
  <2>2. fate[t] # "none"
    BY <2>1 DEF NilIsAcknowledged
  <2>3. fate'[t] = fate[t]
    BY <1>2, <2>2 DEF Next, vars, Caller, Environment, broker, EnsureTopology, Exit, Publish,
      PublishFails, TakeReturn, SeeClosed, GiveUp, PassOn, Rebind, Terminating, SendBack,
      Acknowledge, Refuse, Disconnect
  <2> QED BY <2>1, <2>3
<1>3. CASE TakeConfirmation /\ told[t] = "nil"
  BY <1>3 DEF TakeConfirmation, broker
<1> QED BY <1>1, <1>2, <1>3

LEMMA ReturnStaysStep == MissInv /\ [Next]_vars => ReturnStays'
<1> SUFFICES ASSUME MissInv, [Next]_vars, NEW t \in Tags, Missed(t)'
             PROVE  \/ pc' \in {"closed", "failed", "second"}
                    \/ pc' \in {"idle", "first"} /\ returns' = <<Return(t)>>
  BY DEF ReturnStays
<1>0. IInv /\ TypeOK /\ told'[t] = "nil" /\ ~Open
  BY DEF MissInv, IInv, Missed, Open, Fresh
<1>1. CASE TakeConfirmation /\ t = tag /\ pc = "first" /\ Arrived
           /\ pc' = "idle" /\ UNCHANGED <<tag, returns, fate>>
  <2>1. confirms # <<>> /\ fate[tag] = "returned"
    BY <1>1 DEF Arrived, Missed
  <2> QED BY <1>1, <2>1 DEF MissInv, ReturnIsAhead
<1>2. CASE told[t] = "nil" /\ fate'[t] = fate[t]
  <2>1. \/ pc \in {"closed", "failed", "second"}
        \/ pc \in {"idle", "first"} /\ returns = <<Return(t)>>
    BY <1>2 DEF MissInv, ReturnStays, Missed
  <2>2. CASE PassOn
    BY <2>1, <2>2 DEF PassOn, Room
  <2>3. CASE TakeConfirmation
    BY <2>1, <2>3 DEF TakeConfirmation, Tell, Fail, Waiting
  <2>4. CASE TakeReturn \/ SeeClosed \/ GiveUp \/ Exit \/ PublishFails
    BY <2>4 DEF TakeReturn, SeeClosed, GiveUp, Tell, Fail, Exit, PublishFails
  <2>5. CASE Publish \/ SendBack \/ Acknowledge \/ Refuse \/ Disconnect \/ Rebind \/ Terminating
             \/ UNCHANGED vars
    BY <2>1, <2>5 DEF Publish, SendBack, Acknowledge, Refuse, Disconnect, Rebind, Terminating,
      vars, channels
  <2>6. ~EnsureTopology
    BY <2>1 DEF EnsureTopology
  <2> QED BY <1>0, <2>2, <2>3, <2>4, <2>5, <2>6 DEF Next, Caller, Environment
<1> QED BY <1>0, <1>1, <1>2, MissedStep

LEMMA OneReturnStep == MissInv /\ [Next]_vars => OneReturnIsMissed'
<1> SUFFICES ASSUME MissInv, [Next]_vars, NEW t \in Tags, NEW u \in Tags, t < u,
                    Missed(t)', told'[u] = "nil"
             PROVE  fate'[u] = "queued"
  BY DEF OneReturnIsMissed, Missed
<1>0. IInv /\ TypeOK /\ told'[t] = "nil" /\ ~Open /\ t # u /\ tag \in Nat /\ t \in Nat /\ u \in Nat
  BY BoundAssumption DEF MissInv, IInv, TypeOK, Missed, Open, Fresh, Tags
<1>1. CASE told[u] = "nil" /\ fate'[u] = fate[u]
  <2>1. CASE told[t] = "nil" /\ fate'[t] = fate[t]
    BY <1>1, <2>1 DEF MissInv, OneReturnIsMissed, Missed
  <2>2. CASE t = tag
    BY <1>0, <1>1, <2>2 DEF MissInv, InTurn
  <2> QED BY <1>0, <2>1, <2>2, MissedStep
<1>2. CASE u = tag /\ pc = "first" /\ Arrived /\ UNCHANGED fate /\ fate[u] \in Acknowledged
  <2>1. told[t] = "nil" /\ fate[t] = "returned"
    BY <1>0, <1>2, MissedStep DEF Missed
  <2>2. returns = <<Return(t)>>
    BY <1>2, <2>1 DEF MissInv, ReturnStays, Missed
  <2>3. returns # <<Return(u)>>
    BY <1>0, <2>2 DEF Return
  <2>4. confirms # <<>>
    BY <1>2 DEF Arrived
  <2>5. fate[u] # "returned"
    BY <1>2, <2>3, <2>4 DEF MissInv, ReturnIsAhead
  <2> QED BY <1>2, <2>5 DEF Acknowledged
<1> QED BY <1>0, <1>1, <1>2, MissedStep

\* One return at most is missed by a process: the next one is an error.
THEOREM ReturnsAreMissedOnce == Spec => []OneReturnIsMissed
<1>1. Init => IInv
  BY TypeInit DEF Init, IInv, StageOK, NilIsAcknowledged, Waiting
<1>2. Init => MissInv
  BY <1>1 DEF Init, MissInv, InTurn, ReturnIsAhead, ReturnStays, Missed, OneReturnIsMissed,
    Waiting
<1>3. IInv /\ [Next]_vars => IInv'
  BY TypeStep, StageStep, NilStep DEF IInv, StageOK
<1>4. MissInv /\ [Next]_vars => MissInv'
  BY <1>3, InTurnStep, ReturnIsAheadStep, ReturnStaysStep, OneReturnStep DEF MissInv
<1>5. MissInv => OneReturnIsMissed
  BY DEF MissInv
<1> QED BY <1>2, <1>4, <1>5, PTL DEF Spec

----------------------------------------------------------------------------
(* The dispatch of OutboxRelay, and what it relies on. *)

\* The queue is bound while a publish waits for its answer: nobody unbinds it
\* under a process that had declared it at its start (client.go:85-142).
StaysBound == pc \in Waiting => bound

\* What OutboxRelay's Dispatch says of a publish that returns nil: its message
\* is in the queue.  (Of an error, its DispatchFails says nothing.)
NilIsQueued == \A t \in Tags : told[t] = "nil" => fate[t] = "queued"

\* No message of a process that goes on was sent back.
NothingIsReturned ==
    pc \in {"declare", "idle"} \cup Waiting => \A t \in Tags : fate[t] # "returned"

LEMMA NothingIsReturnedStep ==
    ASSUME IInv, StaysBound, NothingIsReturned, [Next]_vars
    PROVE  NothingIsReturned'
<1> USE DEF NothingIsReturned, Waiting
<1>1. CASE Open
  BY <1>1 DEF Open, Fresh
<1>2. CASE EnsureTopology \/ Exit \/ Publish \/ PublishFails
  BY <1>2 DEF EnsureTopology, Exit, Publish, PublishFails, Fail, broker
<1>3. CASE TakeReturn \/ TakeConfirmation \/ SeeClosed \/ GiveUp \/ PassOn
  BY <1>3 DEF TakeReturn, TakeConfirmation, SeeClosed, GiveUp, PassOn, broker
<1>4. CASE SendBack
  <2>1. pc' = pc /\ wire # <<>> /\ ~bound
    BY <1>4 DEF SendBack, Answering
  <2>2. pc \notin {"declare", "idle"} \cup Waiting
    BY <2>1 DEF IInv, StageOK, Quiet, StaysBound
  <2> QED BY <2>1, <2>2
<1>5. CASE Acknowledge \/ Refuse
  BY <1>5 DEF Acknowledge, Refuse, IInv, TypeOK
<1>6. CASE Disconnect
  <2>1. pc' = pc
    BY <1>6 DEF Disconnect
  <2>2. \A t \in Tags : fate'[t] \in {fate[t], "queued"}
    BY <1>6 DEF Disconnect, IInv, TypeOK
  <2> QED BY <2>1, <2>2
<1>7. CASE Rebind \/ Terminating \/ UNCHANGED vars
  BY <1>7 DEF Rebind, Terminating, vars
<1> QED
  BY <1>1, <1>2, <1>3, <1>4, <1>5, <1>6, <1>7 DEF Next, Caller, Environment

LEMMA NilIsQueuedStep ==
    ASSUME IInv, NothingIsReturned, NilIsQueued, [Next]_vars
    PROVE  NilIsQueued'
<1> SUFFICES ASSUME NEW t \in Tags, told'[t] = "nil" PROVE fate'[t] = "queued"
  BY DEF NilIsQueued
<1>1. ~Open
  BY DEF Open, Fresh
<1>2. CASE told[t] = "nil" /\ fate'[t] = fate[t]
  BY <1>2 DEF NilIsQueued
<1>3. CASE pc = "first" /\ fate'[t] = fate[t] /\ fate[t] \in Acknowledged
  BY <1>3 DEF NothingIsReturned, Waiting, Acknowledged
<1> QED BY <1>1, <1>2, <1>3, MissedStep

\* As long as the queue stays bound, Publish keeps what the relay takes it to
\* promise: it returns nil only for a message that is in the queue
\* (relay.go:139, client.go:182-210).
THEOREM DispatchKeepsItsContract == Spec /\ []StaysBound => []NilIsQueued
<1>1. Init => IInv
  BY TypeInit DEF Init, IInv, StageOK, NilIsAcknowledged, Waiting
<1>2. IInv /\ [Next]_vars => IInv'
  BY TypeStep, StageStep, NilStep DEF IInv, StageOK
<1>3. Init => NothingIsReturned /\ NilIsQueued
  BY DEF Init, NothingIsReturned, NilIsQueued
<1> QED
  BY <1>1, <1>2, <1>3, NothingIsReturnedStep, NilIsQueuedStep, PTL DEF Spec
=============================================================================
