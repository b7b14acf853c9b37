------------------------------ MODULE Lifecycle ------------------------------
(***************************************************************************)
(* The threads of the program and its end: main builds the Driver, starts  *)
(* the engine and the websocket thread, renders (FrameLoop), and destroys  *)
(* the Driver's members in the reverse of their order, which joins the     *)
(* threads one by one.                                                     *)
(*                                                                         *)
(* A read of the websocket blocks until the exchange sends something or    *)
(* the connection fails.  What the threads do with the shared objects is   *)
(* the other modules' matter; here a thread only uses them or does not.    *)
(***************************************************************************)
EXTENDS Integers, Sequences

VARIABLES
  process,   \* "up", "exited", or "terminated" by an exception that escapes
  running,   \* running_
  main,      \* what main is doing
  teardown,  \* main: members destroyed so far
  engine,    \* Engine::run
  websocket, \* WebsocketClient::run
  rest       \* the asio threads of each RestClient

vars == <<process, running, main, teardown, engine, websocket, rest>>

RestOwner == {"engine", "candlestick_store"}

\* Mutant: the engine's thread is declared before what it works on.
MutDestruction ==
  <<"application", "websocket_client", "rest_client", "candlestick_store",
    "orderbook_store", "rest_queues", "engine_thread", "websocket_queue">>

\* Members of the Driver, and of its engine, in the order they are destroyed.
Destruction ==
  <<"application", "websocket_client", "engine_thread", "rest_client",
    "candlestick_store", "orderbook_store", "rest_queues", "websocket_queue">>

Destroyed == {Destruction[i] : i \in 1..teardown}

TypeOK ==
  /\ process \in {"up", "exited", "terminated"}
  /\ running \in BOOLEAN
  /\ main \in {"construct", "start", "connect", "render", "closing", "failed", "teardown"}
  /\ teardown \in 0..Len(Destruction)
  /\ engine \in {"none", "check", "work", "down"}
  /\ websocket \in {"none", "handshake", "check", "read", "parse", "down"}
  /\ rest \in [RestOwner -> {"none", "up", "down"}]

Init ==
  /\ process = "up"
  /\ running = TRUE
  /\ main = "construct" /\ teardown = 0
  /\ engine = "none" /\ websocket = "none"
  /\ rest = [r \in RestOwner |-> "none"]

Terminate == process' = "terminated"

(***************************************************************************)
(* main.                                                                   *)
(***************************************************************************)
\* The RestClients start their threads.
Construct ==
  /\ main = "construct"
  /\ main' = "start"
  /\ rest' = [r \in RestOwner |-> "up"]
  /\ UNCHANGED <<process, running, teardown, engine, websocket>>

\* A constructor throws: no handler surrounds the Driver's.
ConstructFails ==
  /\ main = "construct"
  /\ Terminate
  /\ UNCHANGED <<running, main, teardown, engine, websocket, rest>>

StartEngine ==
  /\ main = "start"
  /\ main' = "connect"
  /\ engine' = "check"
  /\ UNCHANGED <<process, running, teardown, websocket, rest>>

StartWebsocket ==
  /\ main = "connect"
  /\ main' = "render"
  /\ websocket' = "handshake"
  /\ UNCHANGED <<process, running, teardown, engine, rest>>

\* Application::run sees a quit event, and returns when it next looks.
Quit ==
  /\ main = "render"
  /\ running' = FALSE
  /\ UNCHANGED <<process, main, teardown, engine, websocket, rest>>

RenderReturns ==
  /\ main = "render"
  /\ ~running
  /\ main' = "closing"
  /\ UNCHANGED <<process, running, teardown, engine, websocket, rest>>

\* Application::run throws, and main says that it aborts.
RenderFails ==
  /\ main = "render"
  /\ main' = "failed"
  /\ UNCHANGED <<process, running, teardown, engine, websocket, rest>>

LeaveScope ==
  /\ main \in {"closing", "failed"}
  /\ main' = "teardown"
  /\ UNCHANGED <<process, running, teardown, engine, websocket, rest>>

\* The destructors of the jthreads join, those of the RestClients stop their
\* threads and join them.
Joinable(member) ==
  CASE member = "websocket_client" -> websocket = "down"
    [] member = "engine_thread" -> engine = "down"
    [] OTHER -> TRUE

StopsRest(member) ==
  CASE member = "rest_client" -> [rest EXCEPT !["engine"] = "down"]
    [] member = "candlestick_store" -> [rest EXCEPT !["candlestick_store"] = "down"]
    [] OTHER -> rest

Destroy ==
  /\ main = "teardown"
  /\ teardown < Len(Destruction)
  /\ Joinable(Destruction[teardown + 1])
  /\ rest' = StopsRest(Destruction[teardown + 1])
  /\ teardown' = teardown + 1
  /\ UNCHANGED <<process, running, main, engine, websocket>>

Exit ==
  /\ teardown = Len(Destruction)
  /\ process' = "exited"
  /\ UNCHANGED <<running, main, teardown, engine, websocket, rest>>

Main ==
  \/ Construct \/ ConstructFails \/ StartEngine \/ StartWebsocket
  \/ LeaveScope \/ Destroy \/ Exit

(***************************************************************************)
(* Engine::run                                                             *)
(***************************************************************************)
EngineCheck ==
  /\ engine = "check"
  /\ engine' = IF running THEN "work" ELSE "down"
  /\ UNCHANGED <<process, running, main, teardown, websocket, rest>>

EngineWork ==
  /\ engine = "work"
  /\ engine' = "check"
  /\ UNCHANGED <<process, running, main, teardown, websocket, rest>>

\* The request of a patch throws when the environment has no key.
EngineThrows ==
  /\ engine = "work"
  /\ Terminate
  /\ UNCHANGED <<running, main, teardown, engine, websocket, rest>>

Engine == EngineCheck \/ EngineWork

(***************************************************************************)
(* WebsocketClient::run                                                    *)
(***************************************************************************)
Handshake ==
  /\ websocket = "handshake"
  /\ websocket' = "check"
  /\ UNCHANGED <<process, running, main, teardown, engine, rest>>

\* The exception is printed and thrown again, out of the thread.
HandshakeFails ==
  /\ websocket = "handshake"
  /\ Terminate
  /\ UNCHANGED <<running, main, teardown, engine, websocket, rest>>

WebsocketCheck ==
  /\ websocket = "check"
  /\ websocket' = IF running THEN "read" ELSE "down"
  /\ UNCHANGED <<process, running, main, teardown, engine, rest>>

Receive ==
  /\ websocket = "read"
  /\ websocket' = "parse"
  /\ UNCHANGED <<process, running, main, teardown, engine, rest>>

\* An empty message, or a time-out.
ReceiveNothing ==
  /\ websocket = "read"
  /\ websocket' = "check"
  /\ UNCHANGED <<process, running, main, teardown, engine, rest>>

ReadError ==
  /\ websocket = "read"
  /\ websocket' = "down"
  /\ UNCHANGED <<process, running, main, teardown, engine, rest>>

ParseAndPush ==
  /\ websocket = "parse"
  /\ websocket' = "check"
  /\ UNCHANGED <<process, running, main, teardown, engine, rest>>

Websocket ==
  \/ Handshake \/ HandshakeFails \/ WebsocketCheck \/ ParseAndPush
  \/ Receive \/ ReceiveNothing \/ ReadError

Next ==
  process = "up" /\
    (Main \/ Quit \/ RenderReturns \/ RenderFails \/ Engine \/ EngineThrows \/ Websocket)

Spec == Init /\ [][Next]_vars

-----------------------------------------------------------------------------
(***************************************************************************)
(* Properties.                                                             *)
(***************************************************************************)
\* The objects each thread that has not been joined may touch.
Uses ==
  (IF main \in {"render", "closing", "failed"} THEN {"application", "candlestick_store"}
   ELSE {})
  \cup (IF engine \in {"check", "work"}
        THEN {"websocket_queue", "orderbook_store", "candlestick_store", "rest_client",
              "rest_queues"} ELSE {})
  \cup (IF websocket \in {"handshake", "check", "read", "parse"}
        THEN {"websocket_client", "websocket_queue"} ELSE {})
  \cup (IF "up" \in {rest[r] : r \in RestOwner} THEN {"rest_queues"} ELSE {})

\* The members are declared in an order that lets every thread be joined
\* before anything it works on is destroyed, however the program ends.
NothingUsedIsDestroyed == Uses \cap Destroyed = {}
=============================================================================
