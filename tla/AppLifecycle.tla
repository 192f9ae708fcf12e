----------------------------- MODULE AppLifecycle -----------------------------
(***************************************************************************)
(* The life of an API process: main and runApplication of src/cmd/api.     *)
(*                                                                         *)
(* Main opens the pool and the broker connection, starts the HTTP server   *)
(* and the relay as goroutines, waits for the first of them to end or for  *)
(* a signal, and then winds the rest down.  log.Fatalf ends the process    *)
(* where it stands; the deferred calls close what was opened only when     *)
(* main returns.                                                           *)
(***************************************************************************)
EXTENDS Naturals

CONSTANTS
    Requests,       \* HTTP requests
    None            \* no exit code, nothing sent on a channel

ASSUME NoneAssumption == None \notin {0, 1, "nil", "error"}

VARIABLES
    pc,             \* what the main goroutine does next
    relayEnabled,   \* PROCESSOR_ENABLED
    pool,           \* the postgres pool
    client,         \* the RabbitMQ client
    server,         \* the server goroutine
    serverDone,     \* what it sent on its channel
    relay,          \* the relay goroutine
    relayDone,      \* what it sent on its channel
    received,       \* the channels the main goroutine has received from
    signalled,      \* ctx is done
    cancelled,      \* cancel was called
    draining,       \* Shutdown was called: nothing new is accepted
    serverErr,      \* serverErr # nil
    relayErr,       \* outboxRelayErr # nil
    request,        \* request[q]: how far request q has got
    exit            \* exit code of the process

config == <<relayEnabled, pool, client>>
goroutines == <<server, serverDone, relay, relayDone>>
context == <<signalled, cancelled, draining>>
errors == <<serverErr, relayErr>>
vars == <<pc, config, goroutines, received, context, errors, request, exit>>

----------------------------------------------------------------------------
StartUp == {"config", "postgres", "rabbitmq", "topology", "start"}
WindDown == {"cancel", "shutdown", "awaitServer", "awaitRelay", "finish"}
Defers == {"closeClient", "closePool"}

TypeOK ==
    /\ pc \in StartUp \cup {"select"} \cup WindDown \cup Defers \cup {"exited"}
    /\ relayEnabled \in BOOLEAN
    /\ pool \in {"none", "open", "closed"}
    /\ client \in {"none", "open", "closed"}
    /\ server \in {"none", "running", "ended"}
    /\ relay \in {"none", "running", "ended"}
    /\ serverDone \in {"nil", "error", None}
    /\ relayDone \in {"nil", "error", None}
    /\ received \subseteq {"server", "relay"}
    /\ <<signalled, cancelled, draining>> \in BOOLEAN \X BOOLEAN \X BOOLEAN
    /\ <<serverErr, relayErr>> \in BOOLEAN \X BOOLEAN
    /\ request \in [Requests -> {"none", "open", "answered", "cut"}]
    /\ exit \in {0, 1, None}
    /\ client # "none" => relayEnabled
    /\ relay # "none" => client # "none"

Init ==
    /\ pc = "config"
    /\ relayEnabled = FALSE
    /\ pool = "none"
    /\ client = "none"
    /\ server = "none" /\ serverDone = None
    /\ relay = "none" /\ relayDone = None
    /\ received = {}
    /\ signalled = FALSE /\ cancelled = FALSE /\ draining = FALSE
    /\ serverErr = FALSE /\ relayErr = FALSE
    /\ request = [q \in Requests |-> "none"]
    /\ exit = None

----------------------------------------------------------------------------
(* The end of the process: its goroutines end, and open requests are cut. *)

ExitWith(code) ==
    /\ pc' = "exited"
    /\ exit' = code
    /\ server' = IF server = "running" THEN "ended" ELSE server
    /\ relay' = IF relay = "running" THEN "ended" ELSE relay
    /\ request' = [q \in Requests |-> IF request[q] = "open" THEN "cut" ELSE request[q]]
    /\ UNCHANGED <<serverDone, relayDone, received, context, errors>>

\* log.Fatalf: os.Exit(1), without the deferred calls.
Fatal == ExitWith(1) /\ UNCHANGED config

----------------------------------------------------------------------------
(* main, up to runApplication.  Each step may fail, and so may the signal  *)
(* come that kills a process that does not yet listen for it.              *)

Goto(from, to) == pc = from /\ pc' = to

\* What main has before a step that does not end it.
Going == UNCHANGED <<goroutines, received, context, errors, request, exit>>

LoadConfig ==
    /\ Goto("config", "postgres")
    /\ relayEnabled' \in BOOLEAN
    /\ UNCHANGED <<pool, client>>
    /\ Going

OpenPostgres ==
    /\ Goto("postgres", IF relayEnabled THEN "rabbitmq" ELSE "start")
    /\ pool' = "open"
    /\ UNCHANGED <<relayEnabled, client>>
    /\ Going

OpenRabbitmq ==
    /\ Goto("rabbitmq", "topology")
    /\ client' = "open"
    /\ UNCHANGED <<relayEnabled, pool>>
    /\ Going

EnsureTopology ==
    /\ Goto("topology", "start")
    /\ UNCHANGED config
    /\ Going

StartUpFails == pc \in StartUp /\ Fatal

\* Faulty: a relay is started without its client.
StartBoth ==
    /\ Goto("start", "select")
    /\ server' = "running"
    /\ relay' = "running"
    /\ received' = {}
    /\ UNCHANGED <<config, serverDone, relayDone, context, errors, request, exit>>
\* runApplication starts its goroutines.
Start ==
    /\ Goto("start", "select")
    /\ server' = "running"
    /\ relay' = IF relayEnabled THEN "running" ELSE "none"
    /\ received' = IF relayEnabled THEN {} ELSE {"relay"}
    /\ UNCHANGED <<config, serverDone, relayDone, context, errors, request, exit>>

----------------------------------------------------------------------------
(* The goroutines, the requests, the signal. *)

\* ListenAndServe returns: at once when Shutdown is called, with an error when
\* it cannot listen or accept.
ServerEnds ==
    /\ server = "running"
    /\ server' = "ended"
    /\ \/ draining /\ serverDone' = "nil"
       \/ serverDone' = "error"
    /\ UNCHANGED <<pc, config, relay, relayDone, received, context, errors, request, exit>>

\* Run returns: on a cancelled context, or with the error of a statement or of
\* a dispatch.
RelayEnds ==
    /\ relay = "running"
    /\ relay' = "ended"
    /\ \/ (signalled \/ cancelled) /\ relayDone' = "nil"
       \/ relayDone' = "error"
    /\ UNCHANGED <<pc, config, server, serverDone, received, context, errors, request, exit>>

Accept(q) ==
    /\ server = "running"
    /\ ~draining
    /\ request[q] = "none"
    /\ request' = [request EXCEPT ![q] = "open"]
    /\ UNCHANGED <<pc, config, goroutines, received, context, errors, exit>>

Answer(q) ==
    /\ request[q] = "open"
    /\ request' = [request EXCEPT ![q] = "answered"]
    /\ UNCHANGED <<pc, config, goroutines, received, context, errors, exit>>

Signal ==
    /\ pc \in {"select"} \cup WindDown
    /\ ~signalled
    /\ signalled' = TRUE
    /\ UNCHANGED <<pc, config, goroutines, received, cancelled, draining, errors, request, exit>>

----------------------------------------------------------------------------
(* runApplication: the select, and the way down. *)

\* A receive from one of the two channels.
ReceiveServer ==
    /\ serverDone # None
    /\ received' = received \cup {"server"}
    /\ serverErr' = (serverErr \/ serverDone = "error")
    /\ UNCHANGED relayErr
\* Faulty: the relay is waited for, and what it returned is dropped.
DropRelay ==
    /\ relayDone # None
    /\ received' = received \cup {"relay"}
    /\ UNCHANGED errors
ReceiveRelay ==
    /\ relayDone # None
    /\ received' = received \cup {"relay"}
    /\ relayErr' = (relayErr \/ relayDone = "error")
    /\ UNCHANGED serverErr

Select ==
    /\ Goto("select", "cancel")
    /\ \/ ReceiveServer
       \/ relayEnabled /\ ReceiveRelay
       \/ signalled /\ UNCHANGED <<received, errors>>
    /\ UNCHANGED <<config, goroutines, context, request, exit>>

\* Faulty: the relay is not told to stop.
ShutdownOnly ==
    /\ Goto("cancel", "shutdown")
    /\ draining' = TRUE
    /\ UNCHANGED <<config, goroutines, received, signalled, cancelled, errors, request, exit>>
\* cancel, and Shutdown closes the listeners.
Cancel ==
    /\ Goto("cancel", "shutdown")
    /\ cancelled' = TRUE
    /\ draining' = TRUE
    /\ UNCHANGED <<config, goroutines, received, signalled, errors, request, exit>>

\* Shutdown returns when no request is open, or with an error when its timeout
\* has passed.
Shutdown ==
    /\ Goto("shutdown", "awaitServer")
    /\ \/ (\A q \in Requests : request[q] # "open") /\ UNCHANGED serverErr
       \/ (\E q \in Requests : request[q] = "open") /\ serverErr' = TRUE
    /\ UNCHANGED <<config, goroutines, received, context, relayErr, request, exit>>

AwaitServer ==
    /\ Goto("awaitServer", "awaitRelay")
    /\ IF "server" \in received THEN UNCHANGED <<received, errors>> ELSE ReceiveServer
    /\ UNCHANGED <<config, goroutines, context, request, exit>>

\* Faulty: the relay is left to itself.
DoNotAwaitRelay ==
    /\ Goto("awaitRelay", "finish")
    /\ UNCHANGED <<config, goroutines, received, context, errors, request, exit>>
AwaitRelay ==
    /\ Goto("awaitRelay", "finish")
    /\ IF "relay" \in received THEN UNCHANGED <<received, errors>> ELSE ReceiveRelay
    /\ UNCHANGED <<config, goroutines, context, request, exit>>

\* runApplication returns.
Finish ==
    /\ pc = "finish"
    /\ IF serverErr \/ relayErr
       THEN Fatal
       ELSE /\ pc' = IF relayEnabled THEN "closeClient" ELSE "closePool"
            /\ UNCHANGED config
            /\ Going

\* The deferred calls of main, the last one first.
CloseClient ==
    /\ Goto("closeClient", "closePool")
    /\ client' = "closed"
    /\ UNCHANGED <<relayEnabled, pool>>
    /\ Going

ClosePool ==
    /\ pc = "closePool"
    /\ pool' = "closed"
    /\ UNCHANGED <<relayEnabled, client>>
    /\ ExitWith(0)

----------------------------------------------------------------------------
Main ==
    \/ LoadConfig \/ OpenPostgres \/ OpenRabbitmq \/ EnsureTopology \/ Start
    \/ Select \/ Cancel \/ Shutdown \/ AwaitServer \/ AwaitRelay \/ Finish
    \/ CloseClient \/ ClosePool

Terminating == pc = "exited" /\ UNCHANGED vars

Next ==
    \/ Main
    \/ StartUpFails
    \/ ServerEnds \/ RelayEnds \/ Signal
    \/ \E q \in Requests : Accept(q) \/ Answer(q)
    \/ Terminating

\* Main goes on; Shutdown ends ListenAndServe; Run heeds its context, which
\* every statement and every wait of a publish is given.  No request need end.
Fairness ==
    /\ WF_vars(Main)
    /\ WF_vars(draining /\ ServerEnds)
    /\ WF_vars((signalled \/ cancelled) /\ RelayEnds)

Spec == Init /\ [][Next]_vars
FairSpec == Spec /\ Fairness

----------------------------------------------------------------------------
(* What the process promises. *)

\* Neither the pool nor the broker connection is closed under a handler or a
\* relay that may still use it (main.go:51, 69, 173-182).
ResourcesOutliveTheirUsers ==
    /\ pool = "closed" =>
          relay # "running" /\ \A q \in Requests : request[q] \notin {"open", "cut"}
    /\ client = "closed" => relay # "running"

\* The process exits with 0 only when it was told to stop, neither the server
\* nor the relay had failed, and every request it had accepted was answered:
\* whichever of several ends the select sees first, no error is lost
\* (main.go:159-191).
CleanExitIsEarned ==
    exit = 0 =>
        /\ signalled
        /\ serverDone # "error" /\ relayDone # "error"
        /\ \A q \in Requests : request[q] # "cut"

\* A process that lost its server or its relay, or was told to stop, does not
\* live on half dead, nor hang on its way down, whatever its requests do.
FailureEndsTheProcess ==
    serverDone = "error" \/ relayDone = "error" \/ signalled ~> pc = "exited"
=============================================================================
