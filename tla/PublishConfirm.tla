---------------------------- MODULE PublishConfirm ----------------------------
(***************************************************************************)
(* One publish and its confirmation: Client.Publish of                     *)
(* src/internal/platform/rabbitmq, as the relay of one API process uses    *)
(* it: one caller, so that publishMu is never contended, and a process     *)
(* that ends when Publish fails (relay.go:139-145, main.go:162).           *)
(*                                                                         *)
(* Between the broker and the two Go channels, each of capacity one,       *)
(* stands the reader of the amqp library.  It takes the frames in their    *)
(* order and waits while the channel that the next one is for is full.     *)
(* No delivery tag is compared anywhere.                                   *)
(***************************************************************************)
EXTENDS Naturals, Sequences, SequencesExt

CONSTANTS
    MaxTag,         \* bound: publishes on one channel
    MaxOpens        \* bound: starts of the process

ASSUME BoundAssumption == MaxTag \in Nat /\ MaxOpens \in Nat

VARIABLES
    pc,             \* what the caller of Publish does next
    tag,            \* delivery tag of the last publish on this channel
    alive,          \* the connection; when it dies both channels are closed
    bound,          \* the queue is bound to the exchange
    wire,           \* tags published and not answered by the broker
    frames,         \* what the broker sent and the reader has not passed on
    returns,        \* c.publishReturns
    confirms,       \* c.publishConfirmations
    fate,           \* fate[t]: what the broker did with message t
    told,           \* told[t]: what Publish returned for message t
    opens           \* starts so far

vars == <<pc, tag, alive, bound, wire, frames, returns, confirms, fate, told, opens>>
broker == <<bound, wire, fate>>
channels == <<frames, returns, confirms>>

----------------------------------------------------------------------------
Tags == 1 .. MaxTag
Return(t) == [kind |-> "return", tag |-> t, ack |-> FALSE]
Confirmation(t, ack) == [kind |-> "confirmation", tag |-> t, ack |-> ack]
Returns == [kind : {"return"}, tag : Tags, ack : {FALSE}]
Confirmations == [kind : {"confirmation"}, tag : Tags, ack : BOOLEAN]

Waiting == {"first", "second"}

TypeOK ==
    /\ pc \in {"closed", "declare", "idle", "failed"} \cup Waiting
    /\ tag \in 0 .. MaxTag
    /\ alive \in BOOLEAN
    /\ bound \in BOOLEAN
    /\ wire \in Seq(Tags)
    /\ frames \in Seq(Returns \cup Confirmations)
    /\ returns \in {<<>>} \cup {<<m>> : m \in Returns}
    /\ confirms \in {<<>>} \cup {<<m>> : m \in Confirmations}
    /\ fate \in [Tags -> {"none", "queued", "returned", "refused"}]
    /\ told \in [Tags -> {"none", "nil", "error"}]
    /\ opens \in 0 .. MaxOpens

\* A new client: what the old one had in its channels goes with it.
Fresh ==
    /\ tag' = 0
    /\ wire' = <<>>
    /\ frames' = <<>>
    /\ returns' = <<>>
    /\ confirms' = <<>>
    /\ fate' = [t \in Tags |-> "none"]
    /\ told' = [t \in Tags |-> "none"]

Init ==
    /\ pc = "closed"
    /\ tag = 0
    /\ alive = FALSE
    /\ bound = FALSE
    /\ wire = <<>>
    /\ frames = <<>>
    /\ returns = <<>>
    /\ confirms = <<>>
    /\ fate = [t \in Tags |-> "none"]
    /\ told = [t \in Tags |-> "none"]
    /\ opens = 0

----------------------------------------------------------------------------
(* The process starts: Open and EnsureTopology.  Either may fail, which    *)
(* ends the process.                                                       *)

Open ==
    /\ pc = "closed"
    /\ opens < MaxOpens
    /\ opens' = opens + 1
    /\ pc' = "declare"
    /\ alive' = TRUE
    /\ Fresh
    /\ UNCHANGED bound

EnsureTopology ==
    /\ pc = "declare"
    /\ \/ alive /\ pc' = "idle" /\ bound' = TRUE
       \/ pc' = "failed" /\ bound' \in {bound, TRUE}
    /\ UNCHANGED <<tag, alive, wire, fate, channels, told, opens>>

\* The process ends or dies, with or without Close: the connection ends with it.
Exit ==
    /\ pc # "closed"
    /\ pc' = "closed"
    /\ alive' = FALSE
    /\ UNCHANGED <<tag, broker, channels, told, opens>>

----------------------------------------------------------------------------
(* The caller of Publish. *)

\* Faulty: the relay logs the error and goes on with the client it has.
CarryOn == pc' = "idle"
\* A Publish that fails ends the relay and its process.
Fail == pc' = "failed"

Tell(answer) ==
    /\ told' = [told EXCEPT ![tag] = answer]
    /\ IF answer = "nil" THEN pc' = "idle" ELSE Fail

Publish ==
    /\ pc = "idle"
    /\ tag < MaxTag
    /\ alive
    /\ tag' = tag + 1
    /\ wire' = Append(wire, tag')
    /\ pc' = "first"
    /\ UNCHANGED <<alive, bound, fate, channels, told, opens>>

\* PublishWithContext fails: the connection is gone.
PublishFails ==
    /\ pc = "idle"
    /\ tag < MaxTag
    /\ ~alive
    /\ tag' = tag + 1
    /\ told' = [told EXCEPT ![tag'] = "error"]
    /\ Fail
    /\ UNCHANGED <<alive, broker, channels, opens>>

\* The first select takes the return, and goes on to wait for the confirmation.
TakeReturn ==
    /\ pc = "first"
    /\ returns # <<>>
    /\ returns' = <<>>
    /\ pc' = "second"
    /\ UNCHANGED <<tag, alive, broker, frames, confirms, told, opens>>

\* Either select takes the confirmation.  After a return even a positive one
\* makes an error.
TakeConfirmation ==
    /\ pc \in Waiting
    /\ confirms # <<>>
    /\ confirms' = <<>>
    /\ Tell(IF pc = "first" /\ Head(confirms).ack THEN "nil" ELSE "error")
    /\ UNCHANGED <<tag, alive, broker, frames, returns, opens>>

\* The timer fires, or the context is cancelled, at any time in either select.
\* Faulty: only the first select has the timer.
GiveUpOnlyFirst ==
    /\ pc = "first"
    /\ Tell("error")
    /\ UNCHANGED <<tag, alive, broker, channels, opens>>
GiveUp ==
    /\ pc \in Waiting
    /\ Tell("error")
    /\ UNCHANGED <<tag, alive, broker, channels, opens>>

\* A channel that is closed and empty is received from.
SeeClosed ==
    /\ pc \in Waiting
    /\ ~alive
    /\ \/ confirms = <<>>
       \/ pc = "first" /\ returns = <<>>
    /\ Tell("error")
    /\ UNCHANGED <<tag, alive, broker, channels, opens>>

----------------------------------------------------------------------------
(* The reader of the amqp library, the broker, the connection. *)

\* A send to a channel of capacity one.
\* Faulty: the channel takes any number.
RoomAlways(channel) == TRUE
Room(channel) == channel = <<>>

PassOn ==
    /\ frames # <<>>
    /\ LET m == Head(frames)
       IN  \/ /\ m.kind = "return" /\ Room(returns)
              /\ returns' = Append(returns, m)
              /\ UNCHANGED confirms
           \/ /\ m.kind = "confirmation" /\ Room(confirms)
              /\ confirms' = Append(confirms, m)
              /\ UNCHANGED returns
    /\ frames' = Tail(frames)
    /\ UNCHANGED <<pc, tag, alive, broker, told, opens>>

Answering == alive /\ wire # <<>>

\* A mandatory message that no queue is bound for is sent back, and then
\* acknowledged like one that was queued.
SendBack ==
    /\ Answering
    /\ ~bound
    /\ fate[Head(wire)] = "none"
    /\ fate' = [fate EXCEPT ![Head(wire)] = "returned"]
    /\ frames' = Append(frames, Return(Head(wire)))
    /\ UNCHANGED <<pc, tag, alive, bound, wire, returns, confirms, told, opens>>

Acknowledge ==
    /\ Answering
    /\ \/ fate[Head(wire)] = "returned" /\ UNCHANGED fate
       \/ /\ fate[Head(wire)] = "none" /\ bound
          /\ fate' = [fate EXCEPT ![Head(wire)] = "queued"]
    /\ frames' = Append(frames, Confirmation(Head(wire), TRUE))
    /\ wire' = Tail(wire)
    /\ UNCHANGED <<pc, tag, alive, bound, returns, confirms, told, opens>>

Refuse ==
    /\ Answering
    /\ fate[Head(wire)] = "none"
    /\ fate' = [fate EXCEPT ![Head(wire)] = "refused"]
    /\ frames' = Append(frames, Confirmation(Head(wire), FALSE))
    /\ wire' = Tail(wire)
    /\ UNCHANGED <<pc, tag, alive, bound, returns, confirms, told, opens>>

\* What the broker had not answered it may still have taken.
Disconnect ==
    /\ alive
    /\ alive' = FALSE
    /\ fate' \in {fate, [t \in Tags |->
           IF t \in ToSet(wire) /\ fate[t] = "none" /\ bound THEN "queued" ELSE fate[t]]}
    /\ wire' = <<>>
    /\ frames' = <<>>
    /\ UNCHANGED <<pc, tag, bound, returns, confirms, told, opens>>

\* Someone removes the binding or the queue; another process that starts
\* declares them again.
Rebind ==
    /\ bound' = ~bound
    /\ UNCHANGED <<pc, tag, alive, wire, fate, channels, told, opens>>

----------------------------------------------------------------------------
Caller ==
    \/ Open \/ EnsureTopology
    \/ Publish \/ PublishFails
    \/ TakeReturn \/ TakeConfirmation \/ SeeClosed

Environment == PassOn \/ SendBack \/ Acknowledge \/ Refuse \/ Disconnect \/ Rebind

\* The bounds are reached.
Terminating ==
    /\ \/ pc = "closed" /\ opens = MaxOpens
       \/ pc = "idle" /\ tag = MaxTag
    /\ UNCHANGED vars

Next == Caller \/ GiveUp \/ Exit \/ Environment \/ Terminating

\* The timer of a publish fires in the end.  Nothing is asked of the broker.
Fairness == WF_vars(GiveUp)

Spec == Init /\ [][Next]_vars
FairSpec == Spec /\ Fairness

----------------------------------------------------------------------------
(* What Publish promises. *)

\* nil is told of a message only if the broker answered for that very message,
\* and did not refuse it: the confirmation that is read is never the late one
\* of an earlier message, although no tag is compared (client.go:202-210).
NilIsAcknowledged ==
    \A t \in Tags : told[t] = "nil" => fate[t] \in {"queued", "returned"}

\* Between two publishes nothing is on its way: no confirmation is left for the
\* next publish to read, and the reader, with it the whole connection, is not
\* held up by a channel that nobody receives from (client.go:62-63).
NothingIsLeftOver ==
    pc = "idle" /\ alive => wire = <<>> /\ frames = <<>> /\ confirms = <<>>

\* Every publish returns, whatever the broker does (client.go:188-227).
PublishReturns == pc \in Waiting ~> pc \notin Waiting

\* A message that was returned and acknowledged may be reported as published,
\* when the select finds both and picks the confirmation.  It happens once to a
\* process: the return stays in its channel, and what is returned after it is
\* refused (client.go:191-210).
OneReturnIsMissed ==
    \A t, u \in Tags :
        t < u /\ told[t] = "nil" /\ fate[t] = "returned" /\ told[u] = "nil" =>
            fate[u] = "queued"
=============================================================================
