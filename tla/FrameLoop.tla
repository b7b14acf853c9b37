------------------------------ MODULE FrameLoop ------------------------------
(***************************************************************************)
(* Application::run and recreateSwapchain: the render thread polls the     *)
(* window's events, waits for the fence of a frame in flight, acquires an  *)
(* image, submits the frame's command buffer and presents it, and rebuilds *)
(* the swapchain when the window's size changes or Vulkan says so.         *)
(*                                                                         *)
(* The window, the GPU and Vulkan are external: a call that may fail fails *)
(* whenever it likes.  A rebuild replaces the framebuffers, so they are    *)
(* told apart by the parity of the rebuilds.  What is drawn is left out.   *)
(***************************************************************************)
EXTENDS Integers, Sequences

CONSTANTS
  Frames,    \* MAX_FRAMES_IN_FLIGHT
  MaxEvents  \* bound: events of the window

ASSUME FrameAssumption == Frames \in Nat \ {0} /\ MaxEvents \in Nat

VARIABLES
  pc,
  running,            \* running_
  swapchain_rebuild,
  current_frame,
  fence,              \* in_flight_fence of each frame: signalled
  work,               \* what the GPU has still to do for each frame
  framebuffers,       \* parity of framebuffers_
  window,             \* what SDL says of the window
  size,               \* recreateSwapchain: the size it last asked for
  events,             \* SDL's queue
  posted              \* events posted so far

windowVars == <<window, events, posted>>
vars == <<pc, running, swapchain_rebuild, current_frame, fence, work, framebuffers,
          windowVars, size>>

Frame == 0..(Frames - 1)
Event == {"quit", "size"}
Window == [size : {"zero", "some"}, minimized : BOOLEAN]
Done == [pending |-> FALSE]
Submitted(buffers) == [pending |-> TRUE, buffers |-> buffers]

TypeOK ==
  /\ pc \in {"top", "poll", "frame", "measure", "event", "idle", "fence", "acquire",
             "submit", "present", "returned", "threw"}
  /\ running \in BOOLEAN /\ swapchain_rebuild \in BOOLEAN
  /\ current_frame \in Frame
  /\ fence \in [Frame -> BOOLEAN]
  /\ work \in [Frame -> {Done} \cup {Submitted(b) : b \in {0, 1}}]
  /\ framebuffers \in {0, 1}
  /\ window \in Window
  /\ size \in {"zero", "some"}
  /\ posted \in 0..MaxEvents
  /\ events \in Seq(Event) /\ Len(events) <= posted

\* createCommandAndSyncObjects makes the fences signalled.
Init ==
  /\ pc = "top"
  /\ running = TRUE /\ swapchain_rebuild = FALSE
  /\ current_frame = 0
  /\ fence = [f \in Frame |-> TRUE]
  /\ work = [f \in Frame |-> Done]
  /\ framebuffers = 0
  /\ window = [size |-> "some", minimized |-> FALSE]
  /\ size = "some"
  /\ events = <<>> /\ posted = 0

(***************************************************************************)
(* The user and the GPU.                                                   *)
(***************************************************************************)
Post(event) ==
  /\ posted < MaxEvents
  /\ posted' = posted + 1
  /\ events' = Append(events, event)
  /\ UNCHANGED <<pc, running, swapchain_rebuild, current_frame, fence, work,
                 framebuffers, size>>

Close == Post("quit") /\ UNCHANGED window

Resize ==
  /\ \E w \in Window : window' = w
  /\ Post("size")

GpuFinish(f) ==
  /\ work[f].pending
  /\ work' = [work EXCEPT ![f] = Done]
  /\ fence' = [fence EXCEPT ![f] = TRUE]
  /\ UNCHANGED <<pc, running, swapchain_rebuild, current_frame, framebuffers,
                 windowVars, size>>

(***************************************************************************)
(* Application::run                                                        *)
(***************************************************************************)
Step(from, to) ==
  /\ pc = from
  /\ pc' = to
  /\ UNCHANGED <<window, posted>>

Top ==
  /\ Step("top", IF running THEN "poll" ELSE "returned")
  /\ UNCHANGED <<running, swapchain_rebuild, current_frame, fence, work, framebuffers,
                 size, events>>

\* Mutant: a quit event is left to the window's handler.
MutPollEvent ==
  /\ events # <<>>
  /\ Step("poll", "poll")
  /\ events' = Tail(events)
  /\ swapchain_rebuild' = (swapchain_rebuild \/ Head(events) = "size")
  /\ UNCHANGED <<running, current_frame, fence, work, framebuffers, size>>

PollEvent ==
  /\ events # <<>>
  /\ Step("poll", "poll")
  /\ events' = Tail(events)
  /\ running' = (running /\ Head(events) # "quit")
  /\ swapchain_rebuild' = (swapchain_rebuild \/ Head(events) = "size")
  /\ UNCHANGED <<current_frame, fence, work, framebuffers, size>>

PollNone ==
  /\ events = <<>>
  /\ Step("poll", IF window.minimized THEN "top" ELSE "frame")
  /\ UNCHANGED <<running, swapchain_rebuild, current_frame, fence, work, framebuffers,
                 size, events>>

BeginFrame ==
  /\ Step("frame", IF ~swapchain_rebuild THEN "fence"
                   ELSE IF window.size = "zero" THEN "measure" ELSE "idle")
  /\ UNCHANGED <<running, swapchain_rebuild, current_frame, fence, work, framebuffers,
                 size, events>>

\* recreateSwapchain: a window of size zero is asked for its size, and then an
\* event is waited for and discarded, until the size asked for is not zero.
Measure ==
  /\ Step("measure", "event")
  /\ size' = window.size
  /\ UNCHANGED <<running, swapchain_rebuild, current_frame, fence, work, framebuffers,
                 events>>

WaitEvent ==
  /\ pc = "event"
  /\ events # <<>>
  /\ pc' = IF size = "zero" THEN "measure" ELSE "idle"
  /\ events' = Tail(events)
  /\ UNCHANGED <<running, swapchain_rebuild, current_frame, fence, work, framebuffers,
                 window, posted, size>>

\* Mutant: the swapchain is rebuilt without waiting for the device.
MutRecreate ==
  /\ Step("idle", "fence")
  /\ framebuffers' = 1 - framebuffers
  /\ swapchain_rebuild' = FALSE
  /\ UNCHANGED <<running, current_frame, fence, work, size, events>>

Recreate ==
  /\ \A f \in Frame : ~work[f].pending
  /\ Step("idle", "fence")
  /\ framebuffers' = 1 - framebuffers
  /\ swapchain_rebuild' = FALSE
  /\ UNCHANGED <<running, current_frame, fence, work, size, events>>

WaitFence ==
  /\ fence[current_frame]
  /\ Step("fence", "acquire")
  /\ UNCHANGED <<running, swapchain_rebuild, current_frame, fence, work, framebuffers,
                 size, events>>

\* Mutant: the fence is reset before it is known that there is a frame.
MutOutOfDate ==
  /\ Step("acquire", "top")
  /\ swapchain_rebuild' = TRUE
  /\ fence' = [fence EXCEPT ![current_frame] = FALSE]
  /\ UNCHANGED <<running, current_frame, work, framebuffers, size, events>>

\* VK_ERROR_OUT_OF_DATE_KHR: the frame is skipped.
OutOfDate ==
  /\ Step("acquire", "top")
  /\ swapchain_rebuild' = TRUE
  /\ UNCHANGED <<running, current_frame, fence, work, framebuffers, size, events>>

\* An image, perhaps a suboptimal one.
Acquire ==
  /\ Step("acquire", "submit")
  /\ fence' = [fence EXCEPT ![current_frame] = FALSE]
  /\ UNCHANGED <<running, swapchain_rebuild, current_frame, work, framebuffers, size,
                 events>>

Submit ==
  /\ Step("submit", "present")
  /\ work' = [work EXCEPT ![current_frame] = Submitted(framebuffers)]
  /\ UNCHANGED <<running, swapchain_rebuild, current_frame, fence, framebuffers, size,
                 events>>

\* Out of date and suboptimal are the results that ask for a rebuild.
Present ==
  /\ Step("present", "top")
  /\ swapchain_rebuild' \in {TRUE, swapchain_rebuild}
  /\ current_frame' = (current_frame + 1) % Frames
  /\ UNCHANGED <<running, fence, work, framebuffers, size, events>>

Throw ==
  /\ pc \in {"idle", "acquire", "submit", "present"}
  /\ Step(pc, "threw")
  /\ UNCHANGED <<running, swapchain_rebuild, current_frame, fence, work, framebuffers,
                 size, events>>

Run ==
  \/ Top \/ PollEvent \/ PollNone \/ BeginFrame \/ Measure \/ WaitEvent \/ Recreate
  \/ WaitFence \/ OutOfDate \/ Acquire \/ Submit \/ Present \/ Throw

Next == Run \/ Close \/ Resize \/ \E f \in Frame : GpuFinish(f)

Spec == Init /\ [][Next]_vars

-----------------------------------------------------------------------------
(***************************************************************************)
(* Properties.                                                             *)
(***************************************************************************)
\* The render thread never waits for a fence that nothing will signal: a fence
\* is unsignalled only while its frame is on its way to the GPU or on it.
\* A frame that is skipped leaves its fence signalled.
FenceWillSignal ==
  \A f \in Frame : ~fence[f] /\ pc # "threw" =>
    work[f].pending \/ (pc = "submit" /\ f = current_frame)

\* The command buffer of a frame is not recorded again while the GPU executes
\* it, and no framebuffer is destroyed that the GPU draws to.
NothingInUseIsTouched ==
  /\ pc = "submit" => ~work[current_frame].pending
  /\ \A f \in Frame : work[f].pending => work[f].buffers = framebuffers
=============================================================================
