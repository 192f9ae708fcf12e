-------------------------- MODULE AppLifecycleProofs --------------------------
(***************************************************************************)
(* Theorems about AppLifecycle, for any number of requests.                *)
(***************************************************************************)
EXTENDS AppLifecycle, TLAPS

Running == pc \notin StartUp \cup {"exited"}
Draining == pc \in {"shutdown", "awaitServer", "awaitRelay", "finish"} \cup Defers
Down == pc \in {"awaitServer", "awaitRelay", "finish"} \cup Defers
ServerAwaited == pc \in {"awaitRelay", "finish"} \cup Defers
RelayAwaited == pc \in {"finish"} \cup Defers

\* Before the goroutines are started there is nothing but the connections.
StartsEmpty ==
    /\ pc \in StartUp =>
          /\ server = "none" /\ serverDone = None
          /\ relay = "none" /\ relayDone = None
          /\ received = {}
          /\ ~signalled /\ ~cancelled /\ ~serverErr /\ ~relayErr
          /\ \A q \in Requests : request[q] = "none"
    /\ pc \in {"config", "postgres", "rabbitmq"} => client = "none"
    /\ pc \in {"rabbitmq", "topology", "closeClient"} => relayEnabled
    /\ pc \in {"topology", "start"} /\ relayEnabled => client = "open"

\* The connections, until the process ends.
ConnectionsOpen ==
    pc # "exited" =>
        /\ exit = None
        /\ pool # "closed"
        /\ client = "closed" => pc = "closePool"

\* What the goroutines sent, and why.
Goroutines ==
    /\ pc # "exited" =>
          /\ server = "running" => serverDone = None
          /\ relay = "running" => relayDone = None
    /\ ~relayEnabled => relay = "none" /\ relayDone = None
    /\ relayDone # None => relay = "ended"
    /\ serverDone = "nil" => draining
    /\ relayDone = "nil" => signalled \/ cancelled

\* What main knows of it.
ServerKnown ==
    pc # "exited" /\ "server" \in received =>
        serverDone # None /\ (serverDone = "error" => serverErr)
RelayKnown ==
    pc # "exited" /\ "relay" \in received /\ relayEnabled =>
        relayDone # None /\ (relayDone = "error" => relayErr)

\* The way down is taken for a reason, and in its order.
WayDown ==
    /\ pc # "exited" /\ (draining \/ cancelled) => Draining
    /\ Draining => draining
    /\ pc \in WindDown \cup Defers => signalled \/ serverErr \/ relayErr
    /\ ServerAwaited => "server" \in received
    /\ RelayAwaited => "relay" \in received
    /\ pc \in Defers => ~serverErr /\ ~relayErr

\* The requests that a handler has.
RequestsKept ==
    /\ pc # "exited" => \A q \in Requests : request[q] # "cut"
    /\ Down => serverErr \/ \A q \in Requests : request[q] # "open"
    /\ pc = "exited" => \A q \in Requests : request[q] # "open"

Ended == pc = "exited" => server # "running" /\ relay # "running"

Control ==
    /\ StartsEmpty /\ ConnectionsOpen /\ Goroutines /\ ServerKnown /\ RelayKnown
    /\ WayDown /\ RequestsKept /\ Ended

IInv == TypeOK /\ Control /\ ResourcesOutliveTheirUsers /\ CleanExitIsEarned

----------------------------------------------------------------------------
LEMMA InitIInv == Init => IInv
  BY NoneAssumption
  DEF Init, IInv, TypeOK, Control, ResourcesOutliveTheirUsers, CleanExitIsEarned,
      StartsEmpty, ConnectionsOpen, Goroutines, ServerKnown, RelayKnown, WayDown,
      RequestsKept, Ended, Draining, Down, ServerAwaited, RelayAwaited, StartUp, WindDown, Defers

LEMMA StepIInv ==
    ASSUME IInv, [Next]_vars
    PROVE  IInv'
<1> USE NoneAssumption
     DEF IInv, TypeOK, Control, ResourcesOutliveTheirUsers, CleanExitIsEarned,
         StartsEmpty, ConnectionsOpen, Goroutines, ServerKnown, RelayKnown, WayDown,
         RequestsKept, Ended, Draining, Down, ServerAwaited, RelayAwaited,
         StartUp, WindDown, Defers, Goto, Going, config, goroutines, context, errors
<1>1. CASE LoadConfig
  BY <1>1 DEF LoadConfig
<1>2. CASE OpenPostgres
  BY <1>2 DEF OpenPostgres
<1>3. CASE OpenRabbitmq
  BY <1>3 DEF OpenRabbitmq
<1>4. CASE EnsureTopology
  BY <1>4 DEF EnsureTopology
<1>5. CASE Start
  <2>1. TypeOK'
    BY <1>5 DEF Start
  <2>2. (StartsEmpty /\ ConnectionsOpen /\ Goroutines)'
    BY <1>5 DEF Start
  <2>3. (ServerKnown /\ RelayKnown /\ WayDown)'
    BY <1>5 DEF Start
  <2>4. (RequestsKept /\ Ended)'
    BY <1>5 DEF Start
  <2>5. (ResourcesOutliveTheirUsers /\ CleanExitIsEarned)'
    BY <1>5 DEF Start
  <2> QED
    BY <2>1, <2>2, <2>3, <2>4, <2>5
<1>6. CASE Select
  <2>1. TypeOK'
    BY <1>6 DEF Select, ReceiveServer, ReceiveRelay
  <2>2. (StartsEmpty /\ ConnectionsOpen /\ Goroutines)'
    BY <1>6 DEF Select, ReceiveServer, ReceiveRelay
  <2>3. (ServerKnown /\ RelayKnown /\ WayDown)'
    BY <1>6 DEF Select, ReceiveServer, ReceiveRelay
  <2>4. (RequestsKept /\ Ended)'
    BY <1>6 DEF Select, ReceiveServer, ReceiveRelay
  <2>5. (ResourcesOutliveTheirUsers /\ CleanExitIsEarned)'
    BY <1>6 DEF Select, ReceiveServer, ReceiveRelay
  <2> QED
    BY <2>1, <2>2, <2>3, <2>4, <2>5
<1>7. CASE Cancel
  <2>1. TypeOK'
    BY <1>7 DEF Cancel
  <2>2. (StartsEmpty /\ ConnectionsOpen /\ Goroutines)'
    BY <1>7 DEF Cancel
  <2>3. (ServerKnown /\ RelayKnown /\ WayDown)'
    BY <1>7 DEF Cancel
  <2>4. (RequestsKept /\ Ended)'
    BY <1>7 DEF Cancel
  <2>5. (ResourcesOutliveTheirUsers /\ CleanExitIsEarned)'
    BY <1>7 DEF Cancel
  <2> QED
    BY <2>1, <2>2, <2>3, <2>4, <2>5
<1>8. CASE Shutdown
  <2>1. TypeOK'
    BY <1>8 DEF Shutdown
  <2>2. (StartsEmpty /\ ConnectionsOpen /\ Goroutines)'
    BY <1>8 DEF Shutdown
  <2>3. (ServerKnown /\ RelayKnown /\ WayDown)'
    BY <1>8 DEF Shutdown
  <2>4. (RequestsKept /\ Ended)'
    BY <1>8 DEF Shutdown
  <2>5. (ResourcesOutliveTheirUsers /\ CleanExitIsEarned)'
    BY <1>8 DEF Shutdown
  <2> QED
    BY <2>1, <2>2, <2>3, <2>4, <2>5
<1>9. CASE AwaitServer
  <2>1. TypeOK'
    BY <1>9 DEF AwaitServer, ReceiveServer
  <2>2. (StartsEmpty /\ ConnectionsOpen /\ Goroutines)'
    BY <1>9 DEF AwaitServer, ReceiveServer
  <2>3. (ServerKnown /\ RelayKnown /\ WayDown)'
    BY <1>9 DEF AwaitServer, ReceiveServer
  <2>4. (RequestsKept /\ Ended)'
    BY <1>9 DEF AwaitServer, ReceiveServer
  <2>5. (ResourcesOutliveTheirUsers /\ CleanExitIsEarned)'
    BY <1>9 DEF AwaitServer, ReceiveServer
  <2> QED
    BY <2>1, <2>2, <2>3, <2>4, <2>5
<1>10. CASE AwaitRelay
  <2>1. TypeOK'
    <3>1. relayErr' \in BOOLEAN
      <4>1. relayErr \in BOOLEAN
        OBVIOUS
      <4>2. relayErr' = relayErr \/ relayErr' = (relayErr \/ relayDone = "error")
        BY ONLY <1>10, Zenon DEF AwaitRelay, ReceiveRelay, errors
      <4> QED
        BY ONLY <4>1, <4>2, Zenon
    <3>2. /\ received' = received \/ received' = received \cup {"relay"}
          /\ serverErr' = serverErr
      BY ONLY <1>10, Zenon DEF AwaitRelay, ReceiveRelay, errors
    <3> QED
      BY <1>10, <3>1, <3>2 DEF AwaitRelay
  <2>2. (StartsEmpty /\ ConnectionsOpen /\ Goroutines)'
    BY <1>10 DEF AwaitRelay, ReceiveRelay
  <2>3. (ServerKnown /\ RelayKnown /\ WayDown)'
    <3>1. CASE "relay" \in received
      BY <1>10, <3>1 DEF AwaitRelay, ReceiveRelay
    <3>2. CASE "relay" \notin received
      <4>1. ServerKnown'
        BY <1>10, <3>2 DEF AwaitRelay, ReceiveRelay
      <4>2. RelayKnown'
        BY <1>10, <3>2 DEF AwaitRelay, ReceiveRelay
      <4>3. WayDown'
        BY <1>10, <3>2 DEF AwaitRelay, ReceiveRelay
      <4> QED
        BY <4>1, <4>2, <4>3
    <3> QED
      BY <3>1, <3>2
  <2>4. (RequestsKept /\ Ended)'
    BY <1>10 DEF AwaitRelay, ReceiveRelay
  <2>5. (ResourcesOutliveTheirUsers /\ CleanExitIsEarned)'
    BY <1>10 DEF AwaitRelay, ReceiveRelay
  <2> QED
    BY <2>1, <2>2, <2>3, <2>4, <2>5
<1>11. CASE Finish
  <2>1. CASE serverErr \/ relayErr
    <3>1. /\ pc = "finish" /\ pc' = "exited" /\ exit' = 1
          /\ server' \in {"none", "ended"} /\ relay' \in {"none", "ended"}
          /\ relay' # "none" => relay # "none"
          /\ relay' = "ended" \/ relay' = relay
      BY <1>11, <2>1 DEF Finish, Fatal, ExitWith
    <3>6. UNCHANGED <<config, serverDone, relayDone, received, context, errors>>
      BY <1>11, <2>1 DEF Finish, Fatal, ExitWith
    <3>2. /\ request' \in [Requests -> {"none", "open", "answered", "cut"}]
          /\ \A q \in Requests : request'[q] # "open"
      <4>1. request' = [q \in Requests |-> IF request[q] = "open" THEN "cut" ELSE request[q]]
        BY <1>11, <2>1 DEF Finish, Fatal, ExitWith
      <4>2. request \in [Requests -> {"none", "open", "answered", "cut"}]
        OBVIOUS
      <4> QED
        BY ONLY <4>1, <4>2
    <3>3. TypeOK'
      BY <3>1, <3>2, <3>6
    <3>4. Control'
      BY <3>1, <3>2, <3>6
    <3>5. (ResourcesOutliveTheirUsers /\ CleanExitIsEarned)'
      BY <3>1, <3>2, <3>6
    <3> QED
      BY <3>3, <3>4, <3>5
  <2>2. CASE ~(serverErr \/ relayErr)
    <3>1. (TypeOK /\ Control)'
      BY <1>11, <2>2 DEF Finish
    <3>2. (ResourcesOutliveTheirUsers /\ CleanExitIsEarned)'
      BY <1>11, <2>2 DEF Finish
    <3> QED
      BY <3>1, <3>2
  <2> QED
    BY <2>1, <2>2
<1>12. CASE CloseClient
  <2>1. TypeOK'
    BY <1>12 DEF CloseClient
  <2>2. (StartsEmpty /\ ConnectionsOpen /\ Goroutines)'
    BY <1>12 DEF CloseClient
  <2>3. (ServerKnown /\ RelayKnown /\ WayDown)'
    BY <1>12 DEF CloseClient
  <2>4. (RequestsKept /\ Ended)'
    BY <1>12 DEF CloseClient
  <2>5. (ResourcesOutliveTheirUsers /\ CleanExitIsEarned)'
    BY <1>12 DEF CloseClient
  <2> QED
    BY <2>1, <2>2, <2>3, <2>4, <2>5
<1>13. CASE ClosePool
  <2>1. TypeOK'
    BY <1>13 DEF ClosePool, ExitWith
  <2>2. (StartsEmpty /\ ConnectionsOpen /\ Goroutines)'
    BY <1>13 DEF ClosePool, ExitWith
  <2>3. (ServerKnown /\ RelayKnown /\ WayDown)'
    BY <1>13 DEF ClosePool, ExitWith
  <2>4. (RequestsKept /\ Ended)'
    BY <1>13 DEF ClosePool, ExitWith
  <2>5. (ResourcesOutliveTheirUsers /\ CleanExitIsEarned)'
    BY <1>13 DEF ClosePool, ExitWith
  <2> QED
    BY <2>1, <2>2, <2>3, <2>4, <2>5
<1>14. CASE StartUpFails
  <2>1. TypeOK'
    BY <1>14 DEF StartUpFails, Fatal, ExitWith
  <2>2. (StartsEmpty /\ ConnectionsOpen /\ Goroutines)'
    BY <1>14 DEF StartUpFails, Fatal, ExitWith
  <2>3. (ServerKnown /\ RelayKnown /\ WayDown)'
    BY <1>14 DEF StartUpFails, Fatal, ExitWith
  <2>4. (RequestsKept /\ Ended)'
    BY <1>14 DEF StartUpFails, Fatal, ExitWith
  <2>5. (ResourcesOutliveTheirUsers /\ CleanExitIsEarned)'
    BY <1>14 DEF StartUpFails, Fatal, ExitWith
  <2> QED
    BY <2>1, <2>2, <2>3, <2>4, <2>5
<1>15. CASE ServerEnds
  <2>1. TypeOK'
    BY <1>15 DEF ServerEnds
  <2>2. (StartsEmpty /\ ConnectionsOpen /\ Goroutines)'
    BY <1>15 DEF ServerEnds
  <2>3. (ServerKnown /\ RelayKnown /\ WayDown)'
    BY <1>15 DEF ServerEnds
  <2>4. (RequestsKept /\ Ended)'
    BY <1>15 DEF ServerEnds
  <2>5. (ResourcesOutliveTheirUsers /\ CleanExitIsEarned)'
    BY <1>15 DEF ServerEnds
  <2> QED
    BY <2>1, <2>2, <2>3, <2>4, <2>5
<1>16. CASE RelayEnds
  <2>1. TypeOK'
    BY <1>16 DEF RelayEnds
  <2>2. (StartsEmpty /\ ConnectionsOpen /\ Goroutines)'
    BY <1>16 DEF RelayEnds
  <2>3. (ServerKnown /\ RelayKnown /\ WayDown)'
    BY <1>16 DEF RelayEnds
  <2>4. (RequestsKept /\ Ended)'
    BY <1>16 DEF RelayEnds
  <2>5. (ResourcesOutliveTheirUsers /\ CleanExitIsEarned)'
    BY <1>16 DEF RelayEnds
  <2> QED
    BY <2>1, <2>2, <2>3, <2>4, <2>5
<1>17. CASE Signal
  <2>1. TypeOK'
    <3>1. <<signalled', cancelled', draining'>> \in BOOLEAN \X BOOLEAN \X BOOLEAN
      BY <1>17 DEF Signal
    <3>2. /\ pc' = pc /\ relayEnabled' = relayEnabled /\ pool' = pool /\ client' = client
          /\ server' = server /\ serverDone' = serverDone /\ relay' = relay
          /\ relayDone' = relayDone /\ received' = received /\ serverErr' = serverErr
          /\ relayErr' = relayErr /\ request' = request /\ exit' = exit
      BY ONLY <1>17, Zenon DEF Signal, config, goroutines, errors
    <3>3. TypeOK
      OBVIOUS
    <3> QED
      BY ONLY <3>1, <3>2, <3>3 DEF TypeOK
  <2>2. (StartsEmpty /\ ConnectionsOpen /\ Goroutines)'
    BY <1>17 DEF Signal
  <2>3. (ServerKnown /\ RelayKnown /\ WayDown)'
    BY <1>17 DEF Signal
  <2>4. (RequestsKept /\ Ended)'
    BY <1>17 DEF Signal
  <2>5. (ResourcesOutliveTheirUsers /\ CleanExitIsEarned)'
    BY <1>17 DEF Signal
  <2> QED
    BY <2>1, <2>2, <2>3, <2>4, <2>5
<1>18. ASSUME NEW q \in Requests, Accept(q)
       PROVE  IInv'
  BY <1>18 DEF Accept
<1>19. ASSUME NEW q \in Requests, Answer(q)
       PROVE  IInv'
  BY <1>19 DEF Answer
<1>20. CASE UNCHANGED vars
  BY <1>20 DEF vars
<1> QED
  BY <1>1, <1>2, <1>3, <1>4, <1>5, <1>6, <1>7, <1>8, <1>9, <1>10, <1>11, <1>12, <1>13,
     <1>14, <1>15, <1>16, <1>17, <1>18, <1>19, <1>20
  DEF Next, Main, Terminating

\* The inductive invariant.
THEOREM Invariant == Spec => []IInv
  BY InitIInv, StepIInv, PTL DEF Spec

\* Every state has its type, and a relay has its broker client (main.go:62-86).
THEOREM TypesHold == Spec => []TypeOK
<1>1. IInv => TypeOK
  BY DEF IInv
<1> QED
  BY <1>1, Invariant, PTL

\* Neither the pool nor the client is closed under its users (main.go:51, 69).
THEOREM ResourcesOutlive == Spec => []ResourcesOutliveTheirUsers
<1>1. IInv => ResourcesOutliveTheirUsers
  BY DEF IInv
<1> QED
  BY <1>1, Invariant, PTL

\* Exit code 0 hides no failure and no cut request (main.go:159-191).
THEOREM CleanExits == Spec => []CleanExitIsEarned
<1>1. IInv => CleanExitIsEarned
  BY DEF IInv
<1> QED
  BY <1>1, Invariant, PTL

----------------------------------------------------------------------------
(* No receive of the main goroutine is for ever. *)

\* Somebody sends on the channel, or has sent on it.
Reports(goroutine, done) == goroutine = "running" \/ (goroutine = "ended" /\ done # None)

\* While the main goroutine counts on its goroutines, each of them reports, and
\* on the way down each was told to stop.
Attended ==
    /\ Running =>
          /\ Reports(server, serverDone)
          /\ IF relayEnabled THEN Reports(relay, relayDone) ELSE "relay" \in received
    /\ Draining => cancelled

\* Where the main goroutine receives, the value is there, or the goroutine that
\* sends it runs and was told to stop: Shutdown ended ListenAndServe, cancel ended
\* the context of Run.  The select has a value once a goroutine ended.
NoReceiveHangs ==
    /\ pc = "awaitServer" /\ "server" \notin received =>
          serverDone # None \/ (server = "running" /\ draining)
    /\ pc = "awaitRelay" /\ "relay" \notin received =>
          relayDone # None \/ (relay = "running" /\ cancelled)
    /\ pc = "select" =>
          /\ server # "running" => serverDone # None
          /\ relayEnabled /\ relay # "running" => relayDone # None

LEMMA StepAttended ==
    ASSUME IInv, Attended, [Next]_vars
    PROVE  Attended'
<1> USE NoneAssumption
     DEF IInv, TypeOK, Control, StartsEmpty, ConnectionsOpen, Goroutines, WayDown,
         Attended, Reports, Running, Draining, StartUp, WindDown, Defers,
         Goto, Going, config, goroutines, context, errors
<1>1. CASE LoadConfig \/ OpenPostgres \/ OpenRabbitmq \/ EnsureTopology
  BY <1>1 DEF LoadConfig, OpenPostgres, OpenRabbitmq, EnsureTopology
<1>2. CASE Start
  BY <1>2 DEF Start
<1>3. CASE Select
  BY <1>3 DEF Select, ReceiveServer, ReceiveRelay
<1>4. CASE Cancel
  BY <1>4 DEF Cancel
<1>5. CASE Shutdown
  BY <1>5 DEF Shutdown
<1>6. CASE AwaitServer
  BY <1>6 DEF AwaitServer, ReceiveServer
<1>7. CASE AwaitRelay
  BY <1>7 DEF AwaitRelay, ReceiveRelay
<1>8. CASE Finish
  BY <1>8 DEF Finish, Fatal, ExitWith
<1>9. CASE CloseClient
  BY <1>9 DEF CloseClient
<1>10. CASE ClosePool \/ StartUpFails
  BY <1>10 DEF ClosePool, StartUpFails, Fatal, ExitWith
<1>11. CASE ServerEnds
  BY <1>11 DEF ServerEnds
<1>12. CASE RelayEnds
  BY <1>12 DEF RelayEnds
<1>13. CASE Signal
  BY <1>13 DEF Signal
<1>14. ASSUME NEW q \in Requests, Accept(q) \/ Answer(q)
       PROVE  Attended'
  BY <1>14 DEF Accept, Answer
<1>15. CASE UNCHANGED vars
  BY <1>15 DEF vars
<1> QED
  BY <1>1, <1>2, <1>3, <1>4, <1>5, <1>6, <1>7, <1>8, <1>9, <1>10, <1>11, <1>12, <1>13,
     <1>14, <1>15
  DEF Next, Main, Terminating

\* The main goroutine never waits for a value that nobody will send
\* (main.go:159-182).
THEOREM ReceivesEnd == Spec => []NoReceiveHangs
<1>1. Init => Attended
  BY DEF Init, Attended, Running, Draining, StartUp, Defers
<1>2. IInv /\ Attended => NoReceiveHangs
  BY DEF IInv, TypeOK, Control, WayDown, Attended, Reports, NoReceiveHangs,
         Running, Draining, StartUp, Defers
<1> QED
  BY <1>1, <1>2, StepAttended, Invariant, PTL DEF Spec
=============================================================================
