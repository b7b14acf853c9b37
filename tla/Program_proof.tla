---------------------------- MODULE Program_proof ----------------------------
(***************************************************************************)
(* The safety properties of FrameLoop, for any number of frames in flight  *)
(* and of events; and that the render loop keeps them inside the whole     *)
(* program, where no thread outlives what it works on.                     *)
(***************************************************************************)
EXTENDS Program, TLAPS

USE FrameAssumption DEF FrameAssumption

(***************************************************************************)
(* What makes the properties inductive: a frame the GPU has is unsignalled *)
(* (so a frame whose fence was waited for is not with the GPU), the fence  *)
(* waited for stays signalled until it is reset, and the frame that is     *)
(* being recorded is unsignalled and not with the GPU.                     *)
(***************************************************************************)
PendingIsUnsignalled == \A f \in Frame : work[f].pending => ~fence[f]
WaitedIsSignalled == pc = "acquire" => fence[current_frame]
RecordedIsIdle == pc = "submit" => ~fence[current_frame] /\ ~work[current_frame].pending
BuffersAreCurrent == \A f \in Frame : work[f].pending => work[f].buffers = framebuffers

-----------------------------------------------------------------------------
(***************************************************************************)
(* Types.                                                                  *)
(***************************************************************************)
LEMMA TypeInit == Init => TypeOK
<1> SUFFICES ASSUME Init PROVE TypeOK
    OBVIOUS
<1>1. work \in [Frame -> {Done} \cup {Submitted(b) : b \in {0, 1}}]
    BY DEF Init
<1>2. window \in Window
    BY DEF Init, Window
<1>3. events \in Seq(Event) /\ Len(events) <= posted
    BY DEF Init
<1>4. current_frame \in Frame /\ framebuffers \in {0, 1} /\ posted \in 0..MaxEvents
    BY DEF Init, Frame
<1>5. running \in BOOLEAN /\ swapchain_rebuild \in BOOLEAN /\ fence \in [Frame -> BOOLEAN]
    BY DEF Init
<1>6. pc = "top" /\ size = "some"
    BY DEF Init
<1> QED
    BY <1>1, <1>2, <1>3, <1>4, <1>5, <1>6, Zenon DEF TypeOK

\* An event is added to the end of the queue, or its first is taken.
LEMMA QueueTypes ==
  ASSUME TypeOK
  PROVE  /\ \A e \in Event : Append(events, e) \in Seq(Event)
         /\ \A e \in Event : Len(Append(events, e)) = Len(events) + 1
         /\ events # <<>> => Tail(events) \in Seq(Event) /\ Len(Tail(events)) <= posted
BY DEF TypeOK

LEMMA TypeStep == TypeOK /\ [Next]_vars => TypeOK'
<1> SUFFICES ASSUME TypeOK, [Next]_vars PROVE TypeOK'
    OBVIOUS
<1> USE DEF windowVars
<1> DEFINE Work == [Frame -> {Done} \cup {Submitted(b) : b \in {0, 1}}]
<1>a. Done \in {Done} \cup {Submitted(b) : b \in {0, 1}}
    OBVIOUS
<1>b. Submitted(framebuffers) \in {Done} \cup {Submitted(b) : b \in {0, 1}}
    BY DEF TypeOK
<1>1. CASE \/ Top \/ PollNone \/ BeginFrame \/ WaitFence \/ OutOfDate \/ Throw
           \/ UNCHANGED vars
    BY <1>1 DEF Top, PollNone, BeginFrame, WaitFence, OutOfDate, Throw, Step, TypeOK, vars
<1>2. CASE PollEvent
    BY <1>2, QueueTypes DEF PollEvent, Step, TypeOK
<1>3. CASE Measure
    BY <1>3 DEF Measure, Step, Window, TypeOK
<1>4. CASE WaitEvent
    BY <1>4, QueueTypes DEF WaitEvent, TypeOK
<1>5. CASE Recreate
  <2>1. framebuffers' \in {0, 1}
      BY <1>5 DEF Recreate, TypeOK
  <2>2. swapchain_rebuild' \in BOOLEAN
      BY <1>5 DEF Recreate
  <2> QED
      BY <1>5, <2>1, <2>2 DEF Recreate, Step, TypeOK
<1>6. CASE Acquire
    BY <1>6 DEF Acquire, Step, TypeOK
<1>7. CASE Submit
  <2>1. work' \in Work
      BY <1>7, <1>b DEF Submit, TypeOK
  <2> QED
      BY <1>7, <2>1 DEF Submit, Step, TypeOK
<1>8. CASE Present
  <2>1. current_frame' \in Frame
      BY <1>8 DEF Present, TypeOK, Frame
  <2>2. swapchain_rebuild' \in BOOLEAN
      BY <1>8 DEF Present, TypeOK
  <2> QED
      BY <1>8, <2>1, <2>2 DEF Present, Step, TypeOK
<1>9. CASE Close
    BY <1>9, QueueTypes DEF Close, Post, Event, TypeOK
<1>10. CASE Resize
    BY <1>10, QueueTypes DEF Resize, Post, Event, TypeOK
<1>11. ASSUME NEW f \in Frame, GpuFinish(f) PROVE TypeOK'
  <2>1. work' \in Work
      BY <1>11, <1>a DEF GpuFinish, TypeOK
  <2> QED
      BY <1>11, <2>1 DEF GpuFinish, TypeOK
<1> QED
    BY <1>1, <1>2, <1>3, <1>4, <1>5, <1>6, <1>7, <1>8, <1>9, <1>10, <1>11
       DEF Next, Run

-----------------------------------------------------------------------------
(***************************************************************************)
(* The inductive invariant.                                                *)
(***************************************************************************)
InvParts ==
  /\ PendingIsUnsignalled
  /\ WaitedIsSignalled
  /\ RecordedIsIdle
  /\ BuffersAreCurrent
  /\ FenceWillSignal

LEMMA PartsInit == Init => InvParts
BY DEF Init, InvParts, PendingIsUnsignalled, WaitedIsSignalled, RecordedIsIdle,
       BuffersAreCurrent, FenceWillSignal, Frame, Done

\* A step that leaves the fences, the GPU and the framebuffers alone, and comes
\* neither to nor from the places between the wait and the submission.
LEMMA QuietStep ==
  ASSUME InvParts, UNCHANGED <<fence, work, framebuffers>>,
         pc' \in {"acquire", "submit"} => pc' = pc /\ current_frame' = current_frame,
         pc = "submit" => pc' \in {"submit", "threw"},
         pc = "threw" => pc' = "threw"
  PROVE  InvParts'
BY DEF InvParts, PendingIsUnsignalled, WaitedIsSignalled, RecordedIsIdle,
       BuffersAreCurrent, FenceWillSignal, Frame

LEMMA PartsStep == TypeOK /\ InvParts /\ [Next]_vars => InvParts'
<1> SUFFICES ASSUME TypeOK, InvParts, [Next]_vars PROVE InvParts'
    OBVIOUS
<1>1. CASE \/ Top \/ PollEvent \/ PollNone \/ BeginFrame \/ Measure \/ WaitEvent
           \/ OutOfDate \/ Present \/ Throw
    BY <1>1, QuietStep
       DEF Top, PollEvent, PollNone, BeginFrame, Measure, WaitEvent, OutOfDate, Present,
           Throw, Step
<1>2. CASE Close \/ Resize \/ UNCHANGED vars
    BY <1>2, QuietStep DEF Close, Resize, Post, vars
<1>3. CASE Recreate
    BY <1>3 DEF Recreate, Step, InvParts, PendingIsUnsignalled, WaitedIsSignalled,
                RecordedIsIdle, BuffersAreCurrent, FenceWillSignal, Frame
<1>4. CASE WaitFence
    BY <1>4 DEF WaitFence, Step, InvParts, PendingIsUnsignalled, WaitedIsSignalled,
                RecordedIsIdle, BuffersAreCurrent, FenceWillSignal, Frame
<1>5. CASE Acquire
  <2>1. /\ pc = "acquire" /\ pc' = "submit"
        /\ fence' = [fence EXCEPT ![current_frame] = FALSE]
        /\ UNCHANGED <<work, framebuffers, current_frame>>
      BY <1>5 DEF Acquire, Step
  <2>2. ~work[current_frame].pending
      BY <2>1 DEF TypeOK, InvParts, PendingIsUnsignalled, WaitedIsSignalled
  <2>3. \A f \in Frame : fence'[f] <=> fence[f] /\ f # current_frame
      BY <2>1 DEF TypeOK
  <2>4. PendingIsUnsignalled' /\ WaitedIsSignalled' /\ BuffersAreCurrent'
      BY <2>1, <2>3 DEF InvParts, PendingIsUnsignalled, WaitedIsSignalled,
                        BuffersAreCurrent, Frame
  <2>5. RecordedIsIdle'
      BY <2>1, <2>2, <2>3 DEF RecordedIsIdle, TypeOK
  <2>6. FenceWillSignal'
      BY <2>1, <2>3 DEF InvParts, FenceWillSignal, Frame
  <2> QED
      BY <2>4, <2>5, <2>6 DEF InvParts
<1>6. CASE Submit
  <2>1. /\ pc = "submit" /\ pc' = "present"
        /\ work' = [work EXCEPT ![current_frame] = Submitted(framebuffers)]
        /\ UNCHANGED <<fence, framebuffers, current_frame>>
      BY <1>6 DEF Submit, Step
  <2>2. /\ work'[current_frame].pending
        /\ work'[current_frame].buffers = framebuffers
        /\ \A f \in Frame : f # current_frame => work'[f] = work[f]
      BY <2>1 DEF TypeOK, Submitted
  <2>3. PendingIsUnsignalled'
      BY <2>1, <2>2 DEF InvParts, PendingIsUnsignalled, RecordedIsIdle, Frame
  <2>4. WaitedIsSignalled' /\ RecordedIsIdle'
      BY <2>1 DEF WaitedIsSignalled, RecordedIsIdle
  <2>5. BuffersAreCurrent'
      BY <2>1, <2>2 DEF InvParts, BuffersAreCurrent, Frame
  <2>6. FenceWillSignal'
      BY <2>1, <2>2 DEF InvParts, FenceWillSignal, Frame
  <2> QED
      BY <2>3, <2>4, <2>5, <2>6 DEF InvParts
<1>7. ASSUME NEW g \in Frame, GpuFinish(g) PROVE InvParts'
  <2>1. /\ work[g].pending
        /\ work' = [work EXCEPT ![g] = Done]
        /\ fence' = [fence EXCEPT ![g] = TRUE]
        /\ UNCHANGED <<pc, framebuffers, current_frame>>
      BY <1>7 DEF GpuFinish
  <2>2. /\ fence'[g] /\ ~work'[g].pending
        /\ \A f \in Frame : f # g => work'[f] = work[f] /\ fence'[f] = fence[f]
      BY <2>1 DEF TypeOK, Done
  <2>3. PendingIsUnsignalled' /\ BuffersAreCurrent'
      BY <2>1, <2>2 DEF InvParts, PendingIsUnsignalled, BuffersAreCurrent, Frame
  <2>4. WaitedIsSignalled' /\ RecordedIsIdle'
      BY <2>1, <2>2 DEF InvParts, WaitedIsSignalled, RecordedIsIdle, TypeOK
  <2>5. FenceWillSignal'
      BY <2>1, <2>2 DEF InvParts, FenceWillSignal, Frame
  <2> QED
      BY <2>3, <2>4, <2>5 DEF InvParts
<1> QED
    BY <1>1, <1>2, <1>3, <1>4, <1>5, <1>6, <1>7 DEF Next, Run

LEMMA Inductive == Spec => [](TypeOK /\ InvParts)
<1>1. Init => TypeOK /\ InvParts
    BY TypeInit, PartsInit
<1>2. TypeOK /\ InvParts /\ [Next]_vars => (TypeOK /\ InvParts)'
    BY TypeStep, PartsStep
<1> QED
    BY <1>1, <1>2, PTL DEF Spec

-----------------------------------------------------------------------------
\* The loop's state keeps its types.
THEOREM FrameLoopType == Spec => []TypeOK
BY Inductive, PTL

\* The render thread never waits for a fence that nothing will signal: Acquire
\* is the only reset, and it comes after the last way to skip the frame.
THEOREM FenceSignals == Spec => []FenceWillSignal
<1>1. InvParts => FenceWillSignal
    BY DEF InvParts
<1> QED
    BY <1>1, Inductive, PTL

\* No command buffer is recorded, and no framebuffer destroyed, while the GPU
\* works with it: the fence is waited for before the one, the device before
\* the other.
THEOREM NothingTouched == Spec => []NothingInUseIsTouched
<1>1. InvParts => NothingInUseIsTouched
    BY DEF InvParts, NothingInUseIsTouched, RecordedIsIdle, BuffersAreCurrent
<1> QED
    BY <1>1, Inductive, PTL

-----------------------------------------------------------------------------
(***************************************************************************)
(* The program runs FrameLoop: a step of the program is a step of the loop *)
(* or leaves the loop alone.                                               *)
(***************************************************************************)
LEMMA OutsideTheLoop == UNCHANGED frameVars /\ UNCHANGED running => UNCHANGED vars
BY DEF frameVars, vars, windowVars

LEMMA StepOfTheLoop == [ProgramNext]_programVars => [Next]_vars
<1> SUFFICES ASSUME [ProgramNext]_programVars PROVE [Next]_vars
    OBVIOUS
<1>1. CASE RenderFrame
    BY <1>1 DEF RenderFrame, Next
<1>2. CASE User
    BY <1>2 DEF User, Next
<1>3. CASE \E f \in Frame : Gpu(f)
    BY <1>3 DEF Gpu, Next
<1>4. CASE RenderReturns \/ RenderFails \/ Destroy
    BY <1>4, OutsideTheLoop
    DEF RenderReturns, RenderFails, Destroy, NotRendering, L!RenderReturns,
        L!RenderFails, L!Destroy
<1>5. CASE \/ NotRendering(L!Construct) \/ NotRendering(L!ConstructFails)
           \/ NotRendering(L!StartEngine) \/ NotRendering(L!StartWebsocket)
           \/ NotRendering(L!LeaveScope) \/ NotRendering(L!Exit)
    BY <1>5, OutsideTheLoop
    DEF NotRendering, L!Construct, L!ConstructFails, L!StartEngine, L!StartWebsocket,
        L!LeaveScope, L!Exit, L!Terminate
<1>6. CASE Engine \/ EngineThrows
    BY <1>6, OutsideTheLoop
    DEF Engine, EngineThrows, NotRendering, L!Engine, L!EngineCheck, L!EngineWork,
        L!EngineThrows, L!Terminate
<1>7. CASE Websocket
    BY <1>7, OutsideTheLoop
    DEF Websocket, NotRendering, L!Websocket, L!Handshake, L!HandshakeFails,
        L!WebsocketCheck, L!ParseAndPush, L!Receive, L!ReceiveNothing, L!ReadError,
        L!Terminate
<1>8. CASE UNCHANGED programVars
    BY <1>8 DEF programVars
<1> QED
    BY <1>1, <1>2, <1>3, <1>4, <1>5, <1>6, <1>7, <1>8 DEF ProgramNext, Main

\* Whatever the other threads do and however the program ends, the render thread
\* behaves as FrameLoop describes it.
THEOREM RunsTheFrameLoop == ProgramSpec => Spec
<1>1. ProgramInit => Init
    BY DEF ProgramInit
<1> QED
    BY <1>1, StepOfTheLoop, PTL DEF ProgramSpec, Spec

-----------------------------------------------------------------------------
(***************************************************************************)
(* The program is a Lifecycle too: the loop's only effect on it is the one *)
(* of L!Quit.                                                              *)
(***************************************************************************)
LEMMA LoopOnlyQuits == TypeOK /\ Run => running' = running \/ running' = FALSE
<1> SUFFICES ASSUME TypeOK, Run PROVE running' = running \/ running' = FALSE
    OBVIOUS
<1>1. CASE PollEvent
  <2>1. running \in BOOLEAN
      BY DEF TypeOK
  <2>2. running' = (running /\ Head(events) # "quit")
      BY <1>1 DEF PollEvent
  <2> QED
      BY <2>1, <2>2, Zenon
<1>2. CASE ~PollEvent
    BY <1>2
    DEF Run, Top, PollNone, BeginFrame, Measure, WaitEvent, Recreate, WaitFence,
        OutOfDate, Acquire, Submit, Present, Throw
<1> QED
    BY <1>1, <1>2

LEMMA StepOfTheThreads == TypeOK /\ [ProgramNext]_programVars => [L!Next]_L!vars
<1> SUFFICES ASSUME TypeOK, [ProgramNext]_programVars PROVE [L!Next]_L!vars
    OBVIOUS
<1>1. CASE RenderFrame
    BY <1>1, LoopOnlyQuits DEF RenderFrame, Up, lifecycleVars, L!Next, L!Quit, L!vars
<1>2. CASE User
    BY <1>2 DEF User, Close, Resize, Post, lifecycleVars, L!vars
<1>3. CASE \E f \in Frame : Gpu(f)
    BY <1>3 DEF Gpu, GpuFinish, lifecycleVars, L!vars
<1>4. CASE RenderReturns \/ RenderFails \/ Destroy
    BY <1>4 DEF RenderReturns, RenderFails, Destroy, NotRendering, Up, L!Next, L!Main
<1>5. CASE \/ NotRendering(L!Construct) \/ NotRendering(L!ConstructFails)
           \/ NotRendering(L!StartEngine) \/ NotRendering(L!StartWebsocket)
           \/ NotRendering(L!LeaveScope) \/ NotRendering(L!Exit)
    BY <1>5 DEF NotRendering, Up, L!Next, L!Main
<1>6. CASE Engine \/ EngineThrows \/ Websocket
    BY <1>6 DEF Engine, EngineThrows, Websocket, NotRendering, Up, L!Next
<1>7. CASE UNCHANGED programVars
    BY <1>7 DEF programVars, vars, lifecycleVars, L!vars
<1> QED
    BY <1>1, <1>2, <1>3, <1>4, <1>5, <1>6, <1>7 DEF ProgramNext, Main

\* The render loop is a correct part of the Lifecycle: the program with it does
\* nothing that Lifecycle, which knows only its quit and its failure, does not.
THEOREM RunsTheLifecycle == ProgramSpec => L!Spec
<1>1. ProgramSpec => []TypeOK
    BY RunsTheFrameLoop, FrameLoopType, PTL
<1>2. ProgramInit => L!Init
    BY DEF ProgramInit
<1> QED
    BY <1>1, <1>2, StepOfTheThreads, PTL DEF ProgramSpec, L!Spec

-----------------------------------------------------------------------------
(***************************************************************************)
(* The order of destruction.  What makes NothingUsedIsDestroyed inductive: *)
(* nothing is destroyed before main has left the scope of the Driver, and  *)
(* every thread is down once the member that joins it is gone.             *)
(***************************************************************************)
LifecycleType ==
  /\ teardown \in 0..8
  /\ main \in {"construct", "start", "connect", "render", "closing", "failed", "teardown"}
  /\ engine \in {"none", "check", "work", "down"}
  /\ websocket \in {"none", "handshake", "check", "read", "parse", "down"}
  /\ rest \in [L!RestOwner -> {"none", "up", "down"}]

ScopeIsLeft == teardown > 0 => main = "teardown"
GpuIsIdle == teardown > 0 => \A f \in Frame : ~work[f].pending
ThreadsAreJoined ==
  /\ teardown >= 2 => websocket \in {"none", "down"}
  /\ teardown >= 3 => engine \in {"none", "down"}
RestIsStopped ==
  /\ teardown >= 4 => rest["engine"] # "up"
  /\ teardown >= 5 => rest["candlestick_store"] # "up"

OrderInv == LifecycleType /\ ScopeIsLeft /\ GpuIsIdle /\ ThreadsAreJoined /\ RestIsStopped

LEMMA MembersInOrder ==
  ASSUME LifecycleType
  PROVE  /\ "application" \in L!Destroyed => teardown >= 1
         /\ "websocket_client" \in L!Destroyed => teardown >= 2
         /\ "rest_client" \in L!Destroyed => teardown >= 4
         /\ "candlestick_store" \in L!Destroyed => teardown >= 5
         /\ "orderbook_store" \in L!Destroyed => teardown >= 6
         /\ "rest_queues" \in L!Destroyed => teardown >= 7
         /\ "websocket_queue" \in L!Destroyed => teardown >= 8
BY DEF LifecycleType, L!Destroyed, L!Destruction

LEMMA OrderInit == ProgramInit => OrderInv
BY DEF ProgramInit, L!Init, OrderInv, LifecycleType, ScopeIsLeft, GpuIsIdle,
       ThreadsAreJoined, RestIsStopped

LEMMA LifecycleTypeStep == LifecycleType /\ [ProgramNext]_programVars => LifecycleType'
<1> SUFFICES ASSUME LifecycleType, [ProgramNext]_programVars PROVE LifecycleType'
    OBVIOUS
<1> USE DEF LifecycleType
<1>1. CASE RenderFrame \/ User \/ (\E f \in Frame : Gpu(f)) \/ UNCHANGED programVars
    BY <1>1 DEF RenderFrame, User, Gpu, lifecycleVars, programVars
<1>2. CASE RenderReturns \/ RenderFails
    BY <1>2 DEF RenderReturns, RenderFails, NotRendering, L!RenderReturns, L!RenderFails
<1>3. CASE Destroy
  <2>1. teardown' \in 0..8
      BY <1>3 DEF Destroy, NotRendering, L!Destroy, L!Destruction
  <2>2. rest' \in [L!RestOwner -> {"none", "up", "down"}]
      BY <1>3 DEF Destroy, NotRendering, L!Destroy, L!StopsRest
  <2> QED
      BY <1>3, <2>1, <2>2 DEF Destroy, NotRendering, L!Destroy
<1>4. CASE \/ NotRendering(L!Construct) \/ NotRendering(L!ConstructFails)
           \/ NotRendering(L!StartEngine) \/ NotRendering(L!StartWebsocket)
           \/ NotRendering(L!LeaveScope) \/ NotRendering(L!Exit)
    BY <1>4
    DEF NotRendering, L!Construct, L!ConstructFails, L!StartEngine, L!StartWebsocket,
        L!LeaveScope, L!Exit, L!Terminate
<1>5. CASE Engine \/ EngineThrows
    BY <1>5
    DEF Engine, EngineThrows, NotRendering, L!Engine, L!EngineCheck, L!EngineWork,
        L!EngineThrows, L!Terminate
<1>6. CASE Websocket
    BY <1>6
    DEF Websocket, NotRendering, L!Websocket, L!Handshake, L!HandshakeFails,
        L!WebsocketCheck, L!ParseAndPush, L!Receive, L!ReceiveNothing, L!ReadError,
        L!Terminate
<1> QED
    BY <1>1, <1>2, <1>3, <1>4, <1>5, <1>6 DEF ProgramNext, Main

\* The GPU is given nothing new once the render loop is over.
LEMMA GpuStaysIdle ==
  ASSUME GpuIsIdle, teardown > 0, teardown' > 0, TypeOK,
         UNCHANGED frameVars \/ \E f \in Frame : GpuFinish(f)
  PROVE  GpuIsIdle'
<1>1. CASE UNCHANGED frameVars
    BY <1>1 DEF GpuIsIdle, frameVars
<1>2. CASE \E f \in Frame : GpuFinish(f)
    BY <1>2 DEF GpuIsIdle, GpuFinish
<1> QED
    BY <1>1, <1>2

LEMMA OrderStep == TypeOK /\ OrderInv /\ [ProgramNext]_programVars => OrderInv'
<1> SUFFICES ASSUME TypeOK, OrderInv, [ProgramNext]_programVars PROVE OrderInv'
    OBVIOUS
<1>0. LifecycleType'
    BY LifecycleTypeStep DEF OrderInv
<1> USE DEF OrderInv
<1>1. CASE RenderFrame
  <2>1. teardown = 0 /\ teardown' = 0
      BY <1>1 DEF RenderFrame, ScopeIsLeft, LifecycleType, lifecycleVars
  <2> QED
      BY <1>0, <2>1 DEF ScopeIsLeft, GpuIsIdle, ThreadsAreJoined, RestIsStopped
<1>2. CASE User
  <2>1. teardown = 0 /\ teardown' = 0
      BY <1>2 DEF User, lifecycleVars
  <2> QED
      BY <1>0, <2>1 DEF ScopeIsLeft, GpuIsIdle, ThreadsAreJoined, RestIsStopped
<1>3. CASE \E f \in Frame : Gpu(f)
  <2>1. GpuIsIdle'
      BY <1>3, GpuStaysIdle DEF Gpu, lifecycleVars, GpuIsIdle, LifecycleType
  <2> QED
      BY <1>0, <1>3, <2>1
      DEF Gpu, lifecycleVars, ScopeIsLeft, ThreadsAreJoined, RestIsStopped
<1>4. CASE Destroy
  <2>1. teardown' = teardown + 1 /\ main = "teardown" /\ main' = main
        /\ engine' = engine /\ websocket' = websocket /\ work' = work
        /\ L!Joinable(L!Destruction[teardown + 1])
        /\ rest' = L!StopsRest(L!Destruction[teardown + 1])
        /\ (teardown = 0 => \A f \in Frame : ~work[f].pending)
      BY <1>4 DEF Destroy, NotRendering, L!Destroy, frameVars
  <2>2. GpuIsIdle'
      BY <2>1 DEF GpuIsIdle, LifecycleType
  <2>3. ThreadsAreJoined'
      BY <2>1 DEF ThreadsAreJoined, LifecycleType, L!Joinable, L!Destruction
  <2>4. RestIsStopped'
    <3>1. CASE teardown = 3
        BY <2>1, <3>1 DEF RestIsStopped, LifecycleType, L!StopsRest, L!Destruction, L!RestOwner
    <3>2. CASE teardown = 4
        BY <2>1, <3>2 DEF RestIsStopped, LifecycleType, L!StopsRest, L!Destruction, L!RestOwner
    <3>3. CASE teardown \notin {3, 4}
        BY <2>1, <3>3 DEF RestIsStopped, LifecycleType, L!StopsRest, L!Destruction
    <3> QED
        BY <3>1, <3>2, <3>3
  <2> QED
      BY <1>0, <2>1, <2>2, <2>3, <2>4 DEF ScopeIsLeft
<1>5. CASE \/ RenderReturns \/ RenderFails
           \/ NotRendering(L!Construct) \/ NotRendering(L!ConstructFails)
           \/ NotRendering(L!StartEngine) \/ NotRendering(L!StartWebsocket)
           \/ NotRendering(L!LeaveScope) \/ NotRendering(L!Exit)
  <2>1. /\ teardown' = teardown /\ UNCHANGED frameVars
        /\ teardown > 0 => main' = main /\ UNCHANGED <<engine, websocket, rest>>
      BY <1>5
      DEF RenderReturns, RenderFails, NotRendering, L!RenderReturns, L!RenderFails,
          L!Construct, L!ConstructFails, L!StartEngine, L!StartWebsocket, L!LeaveScope,
          L!Exit, L!Terminate, ScopeIsLeft
  <2>2. GpuIsIdle'
      BY <2>1 DEF GpuIsIdle, frameVars
  <2> QED
      BY <1>0, <2>1, <2>2
      DEF ScopeIsLeft, ThreadsAreJoined, RestIsStopped, LifecycleType
<1>6. CASE Engine \/ EngineThrows
  <2>1. /\ UNCHANGED <<teardown, main, websocket, rest>> /\ UNCHANGED frameVars
        /\ engine \in {"none", "down"} => engine' = engine
      BY <1>6
      DEF Engine, EngineThrows, NotRendering, L!Engine, L!EngineCheck, L!EngineWork,
          L!EngineThrows, L!Terminate
  <2>2. GpuIsIdle'
      BY <2>1 DEF GpuIsIdle, frameVars
  <2> QED
      BY <1>0, <2>1, <2>2 DEF ScopeIsLeft, ThreadsAreJoined, RestIsStopped
<1>7. CASE Websocket
  <2>1. /\ UNCHANGED <<teardown, main, engine, rest>> /\ UNCHANGED frameVars
        /\ websocket \in {"none", "down"} => websocket' = websocket
      BY <1>7
      DEF Websocket, NotRendering, L!Websocket, L!Handshake, L!HandshakeFails,
          L!WebsocketCheck, L!ParseAndPush, L!Receive, L!ReceiveNothing, L!ReadError,
          L!Terminate
  <2>2. GpuIsIdle'
      BY <2>1 DEF GpuIsIdle, frameVars
  <2> QED
      BY <1>0, <2>1, <2>2 DEF ScopeIsLeft, ThreadsAreJoined, RestIsStopped
<1>8. CASE UNCHANGED programVars
    BY <1>0, <1>8
    DEF programVars, lifecycleVars, vars, ScopeIsLeft, GpuIsIdle, ThreadsAreJoined,
        RestIsStopped
<1> QED
    BY <1>1, <1>2, <1>3, <1>4, <1>5, <1>6, <1>7, <1>8 DEF ProgramNext, Main

LEMMA OrderEnough == OrderInv => NothingUsedIsDestroyed
<1> SUFFICES ASSUME OrderInv PROVE NothingUsedIsDestroyed
    OBVIOUS
<1> USE DEF OrderInv
<1>1. \A f \in Frame : work[f].pending => "application" \notin L!Destroyed
    BY MembersInOrder DEF GpuIsIdle, LifecycleType
<1>2. ASSUME NEW m \in L!Uses, m \in L!Destroyed PROVE FALSE
  <2>1. CASE m \in {"application", "candlestick_store"}
             /\ main \in {"render", "closing", "failed"}
      BY <1>2, <2>1, MembersInOrder DEF ScopeIsLeft, LifecycleType
  <2>2. CASE m \in {"websocket_queue", "orderbook_store", "candlestick_store",
                    "rest_client", "rest_queues"} /\ engine \in {"check", "work"}
      BY <1>2, <2>2, MembersInOrder DEF ThreadsAreJoined, LifecycleType
  <2>3. CASE m \in {"websocket_client", "websocket_queue"}
             /\ websocket \in {"handshake", "check", "read", "parse"}
      BY <1>2, <2>3, MembersInOrder DEF ThreadsAreJoined, LifecycleType
  <2>4. CASE m = "rest_queues" /\ "up" \in {rest[r] : r \in L!RestOwner}
      BY <1>2, <2>4, MembersInOrder DEF RestIsStopped, LifecycleType, L!RestOwner
  <2> QED
      BY <1>2, <2>1, <2>2, <2>3, <2>4 DEF L!Uses
<1> QED
    BY <1>1, <1>2 DEF NothingUsedIsDestroyed, L!NothingUsedIsDestroyed

\* However the program ends, no member of the Driver is destroyed while a thread,
\* or the GPU, may still use it.
THEOREM DestructionInOrder == ProgramSpec => []NothingUsedIsDestroyed
<1>1. ProgramSpec => []TypeOK
    BY RunsTheFrameLoop, FrameLoopType, PTL
<1>2. TypeOK /\ OrderInv /\ [ProgramNext]_programVars => OrderInv'
    BY OrderStep
<1> QED
    BY <1>1, <1>2, OrderInit, OrderEnough, PTL DEF ProgramSpec

\* The program as a whole never waits for a fence that nothing will signal and
\* never touches what the GPU works with.
THEOREM RenderingIsSafe == ProgramSpec => [](FenceWillSignal /\ NothingInUseIsTouched)
BY RunsTheFrameLoop, FenceSignals, NothingTouched, PTL

=============================================================================
