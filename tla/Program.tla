------------------------------- MODULE Program -------------------------------
(***************************************************************************)
(* The whole program's threads: the render loop of FrameLoop is what main  *)
(* does in Lifecycle while it renders, and the two share running_.  A quit *)
(* event ends the loop, the other threads see running_ at their own next   *)
(* check, and the application is destroyed while the GPU may still be at   *)
(* work on the last frames.                                                *)
(***************************************************************************)
EXTENDS FrameLoop

VARIABLES process, main, teardown, engine, websocket, rest

L == INSTANCE Lifecycle

lifecycleVars == <<process, main, teardown, engine, websocket, rest>>
frameVars == <<pc, swapchain_rebuild, current_frame, fence, work, framebuffers,
               windowVars, size>>
programVars == <<vars, lifecycleVars>>

ProgramInit == Init /\ L!Init

Up == process = "up"
NotRendering(A) == Up /\ A /\ UNCHANGED frameVars

\* A step of the loop sets running_, as L!Quit does, or leaves it alone.
RenderFrame == Up /\ main = "render" /\ Run /\ UNCHANGED lifecycleVars

RenderReturns == pc = "returned" /\ NotRendering(L!RenderReturns)

RenderFails == pc = "threw" /\ NotRendering(L!RenderFails)

\* ~Application begins with a wait for the device.
Destroy ==
  /\ teardown = 0 => \A f \in Frame : ~work[f].pending
  /\ NotRendering(L!Destroy)

Main ==
  \/ RenderFrame \/ RenderReturns \/ RenderFails
  \/ NotRendering(L!Construct) \/ NotRendering(L!ConstructFails)
  \/ NotRendering(L!StartEngine) \/ NotRendering(L!StartWebsocket)
  \/ NotRendering(L!LeaveScope) \/ Destroy \/ NotRendering(L!Exit)

Engine == NotRendering(L!Engine)

EngineThrows == NotRendering(L!EngineThrows)

Websocket == NotRendering(L!Websocket)

\* The window is there from the constructor of the application to its end.
User ==
  /\ Up /\ main # "construct" /\ teardown = 0
  /\ Close \/ Resize
  /\ UNCHANGED lifecycleVars

Gpu(f) == Up /\ GpuFinish(f) /\ UNCHANGED lifecycleVars

ProgramNext ==
  Main \/ Engine \/ EngineThrows \/ Websocket \/ User \/ \E f \in Frame : Gpu(f)

ProgramSpec == ProgramInit /\ [][ProgramNext]_programVars

\* Threads go on, the GPU finishes what it is given, and the exchange sends
\* another message or the connection fails: it is the market's activity that
\* ends a blocking read.
FairProgram ==
  /\ ProgramSpec
  /\ WF_programVars(Main) /\ WF_programVars(Engine) /\ WF_programVars(Websocket)
  /\ \A f \in Frame : WF_programVars(Gpu(f))

-----------------------------------------------------------------------------
(***************************************************************************)
(* Properties.                                                             *)
(***************************************************************************)
\* The members of the Driver are declared in an order that lets every thread
\* be joined before anything it works on is destroyed, however the program
\* ends; and the GPU counts as a thread that works on the application.
NothingUsedIsDestroyed ==
  /\ L!NothingUsedIsDestroyed
  /\ \A f \in Frame : work[f].pending => "application" \notin L!Destroyed

\* A quit event shuts the program down: running_ reaches both loops, each
\* thread comes to its end, and every join returns.  The exceptions are an
\* exception out of the loop and recreateSwapchain's wait for the next event of
\* a window without size.
QuitEndsTheProgram ==
  (main = "render" /\ \E i \in 1..Len(events) : events[i] = "quit")
    ~> (process # "up" \/ pc \in {"threw", "event"})
=============================================================================
