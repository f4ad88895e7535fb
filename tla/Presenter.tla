------------------------------ MODULE Presenter ------------------------------
(***************************************************************************)
(* vkexec::owned::presenter: the frames that are drawn into a swapchain.   *)
(* k_frames slots, each with a fence and a semaphore for the acquired      *)
(* image, take turns; every image of the swapchain has a semaphore of its  *)
(* own for the end of rendering and remembers the fence of the frame that  *)
(* used it last. One thread calls the presenter; the GPU and the           *)
(* presentation engine run beside it, and so does the completion waiter,   *)
(* to which the fence of a presented frame may be lent.                    *)
(*                                                                         *)
(* A call whose guards fail changes nothing and is not an action. Of the   *)
(* frames whose completion is waited for, the model follows any one.       *)
(***************************************************************************)
EXTENDS Naturals, Sequences, FiniteSets

CONSTANTS k_frames,    \* frames in flight
          ImageCount,  \* images of the swapchain
          Extents,     \* the extents a window may have, other than zero
          Faults       \* which calls of the driver may fail

FaultNames == {"wait", "acquire", "image_wait", "reset", "begin", "idle",
               "consume", "late", "rebuild"}

ASSUME PresenterAssumption ==
    /\ k_frames \in Nat \ {0}
    /\ ImageCount \in Nat \ {0}
    /\ Extents # {} /\ "none" \notin Extents
    /\ Faults \subseteq FaultNames

Frames == 0 .. k_frames - 1
Images == 1 .. ImageCount

\* Neither a frame nor an image.
NoFrame == k_frames
NoImage == 0

VARIABLES extent,           \* cfg_.width and cfg_.height
          swapchain,        \* swapchain_: none, broken by a failed recreate,
                            \* or ready
          swapchain_extent,
          framebuffers,     \* is there a framebuffer for every image?
          resize_required,
          suspended,
          resized,          \* what the last resize promised, if it succeeded
          frame_index,
          current_image,
          frame_open,
          recording_open,
          acquired_wait_consumed,
          images_in_flight, \* the frame whose fence each image remembers
          dangling,         \* images that remember a fence destroyed since
          call,             \* where the caller is in acquire_frame;
                            \* orphaned: it has no handle of the open frame
          beginning,        \* is acquire_frame called by begin_frame?
          submitted,        \* was the work of the open frame submitted?
          fence,            \* in_flight of each frame
          gpu,              \* the submission of each frame that is running
          image_available,  \* the semaphore of each frame
          slot_image,       \* the image each frame acquired last
          render_finished,  \* the semaphore of each image
          presents,         \* presentations queued, oldest first
          acquired,         \* images the presentation engine gave away
          watch,            \* the frame that is waited for: none, running,
                            \* over, completed
          watch_frame       \* whose fence the waiter polls for it

surface == <<extent, swapchain, swapchain_extent, framebuffers,
             resize_required, suspended, resized>>
frame == <<frame_index, current_image, frame_open, recording_open,
           acquired_wait_consumed, images_in_flight, dangling, submitted>>
caller == <<call, beginning>>
semaphores == <<image_available, slot_image, render_finished, presents,
                acquired>>
watcher == <<watch, watch_frame>>
vars == <<surface, frame, caller, fence, gpu, semaphores, watcher>>

Work == [image : Images, semaphore : Images]
NoWork == [image |-> NoImage, semaphore |-> NoImage]

TypeOK ==
    /\ extent \in Extents
    /\ swapchain \in {"none", "broken", "ready"}
    /\ swapchain_extent \in Extents
    /\ framebuffers \in BOOLEAN
    /\ resize_required \in BOOLEAN
    /\ suspended \in BOOLEAN
    /\ resized \in Extents \cup {"none"}
    /\ frame_index \in Frames
    /\ current_image \in Images
    /\ frame_open \in BOOLEAN
    /\ recording_open \in BOOLEAN
    /\ acquired_wait_consumed \in BOOLEAN
    /\ images_in_flight \in [Images -> Frames \cup {NoFrame}]
    /\ dangling \in SUBSET Images
    /\ call \in {"none", "wait_frame", "next_image", "wait_image", "begin",
                 "give_up", "orphaned"}
    /\ beginning \in BOOLEAN
    /\ submitted \in BOOLEAN
    /\ fence \in [Frames -> {"signalled", "unsignalled"}]
    /\ gpu \in [Frames -> Work \cup {NoWork}]
    /\ image_available \in [Frames -> {"free", "pending", "signalled"}]
    /\ slot_image \in [Frames -> Images]
    /\ render_finished \in [Images -> {"free", "signalled"}]
    /\ presents \in Seq([image : Images, semaphore : Images])
    /\ acquired \in SUBSET Images
    /\ watch \in {"none", "running", "over", "completed"}
    /\ watch_frame \in Frames \cup {NoFrame}

\* init: create_swapchain to create_frame_resources, all fences signalled.
Init ==
    /\ extent \in Extents
    /\ swapchain = "ready"
    /\ swapchain_extent = extent
    /\ framebuffers = TRUE
    /\ resize_required = FALSE
    /\ suspended = FALSE
    /\ resized = "none"
    /\ frame_index = 0
    /\ current_image = 1
    /\ frame_open = FALSE
    /\ recording_open = FALSE
    /\ acquired_wait_consumed = FALSE
    /\ images_in_flight = [i \in Images |-> NoFrame]
    /\ dangling = {}
    /\ call = "none"
    /\ beginning = FALSE
    /\ submitted = FALSE
    /\ fence = [f \in Frames |-> "signalled"]
    /\ gpu = [f \in Frames |-> NoWork]
    /\ image_available = [f \in Frames |-> "free"]
    /\ slot_image = [f \in Frames |-> 1]
    /\ render_finished = [i \in Images |-> "free"]
    /\ presents = <<>>
    /\ acquired = {}
    /\ watch = "none"
    /\ watch_frame = NoFrame

\* What vkDeviceWaitIdle waits for.
Idle == presents = <<>> /\ \A f \in Frames : gpu[f] = NoWork

Queued(i) == Cardinality({n \in DOMAIN presents : presents[n].image = i})

-----------------------------------------------------------------------------
(* acquire_frame *)

\* A frame can be acquired now, and this is a call that tries to.
StartAcquire ==
    /\ call = "none"
    /\ ~frame_open /\ ~suspended /\ ~resize_required
    /\ swapchain # "none"
    /\ call' = "wait_frame"
    /\ beginning' \in BOOLEAN
    /\ UNCHANGED <<surface, frame, fence, gpu, semaphores, watcher>>

\* vkWaitForFences on the fence of the slot.
WaitFrame ==
    /\ call = "wait_frame"
    /\ fence[frame_index] = "signalled"
    /\ call' = "next_image"
    /\ UNCHANGED <<surface, frame, beginning, fence, gpu, semaphores, watcher>>

\* vkAcquireNextImageKHR gives an image away; its semaphore is signalled when
\* the engine has displayed what was presented from the image before.
NextImage(i) ==
    /\ call = "next_image"
    /\ swapchain = "ready"
    /\ i \notin acquired /\ Queued(i) \in {0, 1}
    /\ acquired' = acquired \cup {i}
    /\ slot_image' = [slot_image EXCEPT ![frame_index] = i]
    /\ image_available' = [image_available EXCEPT ![frame_index] =
                                IF Queued(i) = 0 THEN "signalled" ELSE "pending"]
    /\ call' = "wait_image"
    /\ UNCHANGED <<surface, frame, beginning, fence, gpu, render_finished,
                   presents, watcher>>

OutOfDate ==
    /\ call = "next_image"
    /\ resize_required' = TRUE
    /\ call' = "none"
    /\ UNCHANGED <<extent, swapchain, swapchain_extent, framebuffers, suspended,
                   resized, frame, beginning, fence, gpu, semaphores, watcher>>

\* One of the three waits of acquire_frame fails. The last one does so with an
\* image acquired and its semaphore signalled.
AcquireFails ==
    /\ \/ call = "wait_frame" /\ "wait" \in Faults
       \/ call = "next_image" /\ "acquire" \in Faults
       \/ call = "wait_image" /\ "image_wait" \in Faults
    /\ call' = "none"
    /\ UNCHANGED <<surface, frame, beginning, fence, gpu, semaphores, watcher>>

\* With none of the framebuffers, framebuffers_.at throws and the open frame is
\* orphaned; with some, at gives the caller a frame, perhaps with a null handle.
Returned ==
    LET back == IF beginning THEN "begin" ELSE "none"
    IN  call' \in IF framebuffers THEN {back} ELSE {back, "orphaned"}

\* Mutant: the image is used although an older frame may still draw into it.
OpenFrame_NoWait ==
    /\ call = "wait_image"
    /\ LET i == slot_image[frame_index] IN
        /\ images_in_flight' = [images_in_flight EXCEPT ![i] = frame_index]
        /\ dangling' = dangling \ {i}
        /\ current_image' = i
    /\ frame_open' = TRUE
    /\ recording_open' = FALSE
    /\ acquired_wait_consumed' = FALSE
    /\ submitted' = FALSE
    /\ Returned
    /\ UNCHANGED <<surface, frame_index, beginning, fence, gpu, semaphores,
                   watcher>>

\* The frame that used the image last has finished with it: the frame is open.
OpenFrame ==
    /\ call = "wait_image"
    /\ LET i == slot_image[frame_index]
           last == images_in_flight[i]
       IN  /\ last # NoFrame => fence[last] = "signalled"
           /\ images_in_flight' = [images_in_flight EXCEPT ![i] = frame_index]
           /\ dangling' = dangling \ {i}
           /\ current_image' = i
    /\ frame_open' = TRUE
    /\ recording_open' = FALSE
    /\ acquired_wait_consumed' = FALSE
    /\ submitted' = FALSE
    /\ Returned
    /\ UNCHANGED <<surface, frame_index, beginning, fence, gpu, semaphores,
                   watcher>>

-----------------------------------------------------------------------------
(* begin_frame, finish_frame_recording and the submission *)

\* Mutant: the fence of the slot is not reset.
BeginRecording_NoReset ==
    /\ call = "begin"
    /\ recording_open' = TRUE
    /\ call' = "none"
    /\ UNCHANGED <<surface, frame_index, current_image, frame_open,
                   acquired_wait_consumed, images_in_flight, dangling,
                   submitted, beginning, fence, gpu, semaphores, watcher>>

BeginRecording ==
    /\ call = "begin"
    /\ fence' = [fence EXCEPT ![frame_index] = "unsignalled"]
    /\ recording_open' = TRUE
    /\ call' = "none"
    /\ UNCHANGED <<surface, frame_index, current_image, frame_open,
                   acquired_wait_consumed, images_in_flight, dangling,
                   submitted, beginning, gpu, semaphores, watcher>>

\* vkResetFences or vkBeginCommandBuffer fails: begin_frame abandons the frame.
BeginFails ==
    /\ call = "begin"
    /\ \/ "reset" \in Faults /\ UNCHANGED fence
       \/ "begin" \in Faults
          /\ fence' = [fence EXCEPT ![frame_index] = "unsignalled"]
    /\ call' = "give_up"
    /\ UNCHANGED <<surface, frame, beginning, gpu, semaphores, watcher>>

\* finish_frame_recording, or the first half of end_frame.
FinishFrameRecording ==
    /\ call = "none"
    /\ frame_open /\ recording_open
    /\ recording_open' = FALSE
    /\ UNCHANGED <<surface, frame_index, current_image, frame_open,
                   acquired_wait_consumed, images_in_flight, dangling,
                   submitted, caller, fence, gpu, semaphores, watcher>>

\* A graph resets the fence of the frame that was acquired for it before it
\* submits its last batch.
ResetForGraph ==
    /\ call = "none"
    /\ frame_open /\ ~beginning /\ ~submitted
    /\ fence[frame_index] = "signalled"
    /\ fence' = [fence EXCEPT ![frame_index] = "unsignalled"]
    /\ UNCHANGED <<surface, frame, caller, gpu, semaphores, watcher>>

\* Mutant: one semaphore for each frame, not for each image.
RenderFinished_PerFrame == frame_index + 1

\* submission_sync: the semaphore that presentation waits for.
RenderFinished == current_image

\* The submission of end_frame, of a graph or of the caller, by submission_sync.
Submit ==
    /\ call = "none"
    /\ frame_open /\ ~recording_open /\ ~submitted /\ ~acquired_wait_consumed
    /\ beginning \/ fence[frame_index] = "unsignalled"
    /\ gpu' = [gpu EXCEPT ![frame_index] =
                    [image |-> current_image, semaphore |-> RenderFinished]]
    /\ submitted' = TRUE
    /\ UNCHANGED <<surface, frame_index, current_image, frame_open,
                   recording_open, acquired_wait_consumed, images_in_flight,
                   dangling, caller, fence, semaphores, watcher>>

-----------------------------------------------------------------------------
(* present_submitted, abandon_frame *)

\* The frame is closed, and the next slot has its turn.
CloseFrame ==
    /\ frame_open' = FALSE
    /\ recording_open' = FALSE
    /\ acquired_wait_consumed' = FALSE
    /\ submitted' = FALSE

NextFrame == (frame_index + 1) % k_frames

\* The swapchain may turn out to be out of date. The caller may lend the fence
\* to the completion waiter (draw and submit, or a graph).
PresentSubmitted ==
    /\ call = "none"
    /\ frame_open /\ ~recording_open /\ submitted
    /\ presents' = Append(presents, [image |-> current_image,
                                     semaphore |-> RenderFinished])
    /\ acquired' = acquired \ {current_image}
    /\ resize_required' \in {resize_required, TRUE}
    /\ frame_index' = NextFrame
    /\ CloseFrame
    /\ \/ UNCHANGED watcher
       \/ /\ watch = "none"
          /\ watch' = IF gpu[frame_index] = NoWork THEN "over" ELSE "running"
          /\ watch_frame' = frame_index
    /\ UNCHANGED <<extent, swapchain, swapchain_extent, framebuffers, suspended,
                   resized, current_image, images_in_flight, dangling, caller,
                   fence, gpu, image_available, slot_image, render_finished>>

\* The images that remember the fence of a frame forget it.
Forget(f) == [i \in Images |-> IF images_in_flight[i] = f THEN NoFrame
                              ELSE images_in_flight[i]]

\* Mutant: the new fence is created unsignalled.
ReplaceFrameSync_Unsignalled ==
    /\ fence' = [fence EXCEPT ![frame_index] = "unsignalled"]
    /\ image_available' = [image_available EXCEPT ![frame_index] = "free"]
    /\ watch_frame' = IF watch_frame = frame_index THEN NoFrame
                      ELSE watch_frame

\* replace_abandoned_frame_sync: a new semaphore, and a new fence that is
\* signalled. A waiter that polls the old fence is left with a dead handle.
ReplaceFrameSync ==
    /\ fence' = [fence EXCEPT ![frame_index] = "signalled"]
    /\ image_available' = [image_available EXCEPT ![frame_index] = "free"]
    /\ watch_frame' = IF watch_frame = frame_index THEN NoFrame
                      ELSE watch_frame

\* The swapchain stays: only the image that goes back gets a new semaphore.
KeepSwapchain ==
    /\ images_in_flight' = Forget(frame_index)
    /\ dangling' = dangling \cup
                    {i \in Images : images_in_flight'[i] = frame_index}
    /\ render_finished' = [render_finished EXCEPT ![current_image] = "free"]
    /\ acquired' = acquired \ {current_image}
    /\ UNCHANGED <<swapchain, framebuffers, resize_required, resized>>

\* create_swapchain_sync: new semaphores, and no image remembers a frame.
ResetImages ==
    /\ images_in_flight' = [i \in Images |-> NoFrame]
    /\ dangling' = {}
    /\ render_finished' = [i \in Images |-> "free"]
    /\ acquired' = {}

CleanupSwapchain ==
    /\ ResetImages
    /\ swapchain' = "none"
    /\ framebuffers' = FALSE
    /\ resize_required' = TRUE
    /\ resized' = "none"

\* Mutant: an abandoned frame stays open.
CloseAbandoned_Open ==
    /\ call' = "none"
    /\ UNCHANGED <<frame_open, recording_open, acquired_wait_consumed, submitted>>

CloseAbandoned ==
    /\ call' = "none"
    /\ CloseFrame

\* abandon_frame, final_submit_completed: the frame was drawn but not
\* presented; the image cannot be given back, so the swapchain goes.
AbandonSubmitted ==
    /\ call = "none"
    /\ frame_open /\ ~recording_open /\ submitted
    /\ Idle
    /\ ReplaceFrameSync
    /\ CleanupSwapchain
    /\ CloseAbandoned
    /\ UNCHANGED <<extent, swapchain_extent, suspended, frame_index,
                   current_image, beginning, gpu, slot_image, presents, watch>>

\* abandon_frame, acquired_only: consume_acquired_image_wait unless an earlier
\* attempt did, then the image is presented as it is. If that fails, or the
\* swapchain is out of date, the swapchain goes.
AbandonAcquired ==
    /\ call \in {"none", "give_up"}
    /\ frame_open /\ ~recording_open /\ ~submitted
    /\ Idle
    /\ acquired_wait_consumed \/ image_available[frame_index] = "signalled"
    /\ ReplaceFrameSync
    /\ KeepSwapchain \/ CleanupSwapchain
    /\ CloseAbandoned
    /\ UNCHANGED <<extent, swapchain_extent, suspended, frame_index,
                   current_image, beginning, gpu, slot_image, presents, watch>>

\* begin_frame could not abandon the frame and returns an error: the frame
\* stays open, and the caller has no handle of it.
AbandonFails ==
    /\ call = "give_up"
    /\ Faults \cap {"idle", "consume"} # {}
    /\ call' = "orphaned"
    /\ UNCHANGED <<surface, frame, beginning, fence, gpu, semaphores, watcher>>

\* abandon_frame fails after the image was presented: the second wait for the
\* device, or a new object. The frame stays open; the caller may try again.
AbandonFailsLate ==
    /\ "late" \in Faults
    /\ call \in {"none", "give_up"}
    /\ frame_open /\ ~recording_open /\ ~submitted
    /\ Idle
    /\ acquired_wait_consumed \/ image_available[frame_index] = "signalled"
    /\ acquired_wait_consumed' = TRUE
    /\ image_available' = [image_available EXCEPT ![frame_index] = "free"]
    /\ acquired' = acquired \ {current_image}
    /\ call' = IF call = "give_up" THEN "orphaned" ELSE "none"
    /\ UNCHANGED <<surface, frame_index, current_image, frame_open,
                   recording_open, images_in_flight, dangling, submitted,
                   beginning, fence, gpu, slot_image, render_finished,
                   presents, watcher>>

-----------------------------------------------------------------------------
(* resize *)

CanResize == call = "none" /\ ~frame_open

\* The presenter has what it needs for this extent already: success.
ResizeSkipped(e) ==
    /\ CanResize
    /\ ~resize_required /\ ~suspended /\ e = extent
    /\ resized' = e
    /\ UNCHANGED <<extent, swapchain, swapchain_extent, framebuffers,
                   resize_required, suspended, frame, caller, fence, gpu,
                   semaphores, watcher>>

\* A window without an extent.
ResizeToZero ==
    /\ CanResize
    /\ suspended' = TRUE
    /\ resize_required' = TRUE
    /\ resized' = "none"
    /\ UNCHANGED <<extent, swapchain, swapchain_extent, framebuffers, frame,
                   caller, fence, gpu, semaphores, watcher>>

NeedsRecreate(e) == CanResize /\ (resize_required \/ suspended \/ e # extent)

\* recreate_swapchain.
Resize(e) ==
    /\ NeedsRecreate(e)
    /\ Idle
    /\ extent' = e
    /\ swapchain' = "ready"
    /\ swapchain_extent' = e
    /\ framebuffers' = TRUE
    /\ suspended' = FALSE
    /\ resize_required' = FALSE
    /\ resized' = e
    /\ ResetImages
    /\ UNCHANGED <<frame_index, current_image, frame_open, recording_open,
                   acquired_wait_consumed, submitted, caller, fence, gpu,
                   image_available, slot_image, presents, watcher>>

\* The wait for the device fails: the extent is changed, and nothing else.
ResizeFailsAtWait(e) ==
    /\ "idle" \in Faults
    /\ NeedsRecreate(e)
    /\ extent' = e
    /\ resized' = "none"
    /\ UNCHANGED <<swapchain, swapchain_extent, framebuffers, resize_required,
                   suspended, frame, caller, fence, gpu, semaphores, watcher>>

\* The swapchain, the depth image or a framebuffer cannot be made; the flags
\* stay as they were.
ResizeFailsAtRebuild(e) ==
    /\ "rebuild" \in Faults
    /\ NeedsRecreate(e)
    /\ Idle
    /\ extent' = e
    /\ framebuffers' = FALSE
    /\ resized' = "none"
    /\ \/ /\ swapchain' = IF swapchain = "none" THEN "none" ELSE "broken"
          /\ UNCHANGED <<swapchain_extent, images_in_flight, dangling,
                         render_finished, acquired>>
       \/ /\ swapchain' = "ready"
          /\ swapchain_extent' = e
          /\ ResetImages
    /\ UNCHANGED <<resize_required, suspended, frame_index, current_image,
                   frame_open, recording_open, acquired_wait_consumed,
                   submitted, caller, fence, gpu, image_available, slot_image,
                   presents, watcher>>

-----------------------------------------------------------------------------
(* The GPU, the presentation engine and the completion waiter *)

\* A frame is drawn once its image is there; its fence and the semaphore for
\* the end of rendering are signalled together.
RunFrame(f) ==
    /\ gpu[f] # NoWork
    /\ image_available[f] = "signalled"
    /\ gpu' = [gpu EXCEPT ![f] = NoWork]
    /\ image_available' = [image_available EXCEPT ![f] = "free"]
    /\ fence' = [fence EXCEPT ![f] = "signalled"]
    /\ render_finished' = [render_finished EXCEPT
                                ![gpu[f].semaphore] = "signalled"]
    /\ watch' = IF watch = "running" /\ watch_frame = f THEN "over" ELSE watch
    /\ UNCHANGED <<surface, frame, caller, slot_image, presents, acquired,
                   watch_frame>>

\* The oldest presentation is displayed, and its image really is available.
Display ==
    /\ presents # <<>>
    /\ LET shown == Head(presents)
       IN  /\ render_finished[shown.semaphore] = "signalled"
           /\ render_finished' = [render_finished EXCEPT
                                        ![shown.semaphore] = "free"]
           /\ image_available' = [f \in Frames |->
                IF image_available[f] = "pending" /\ slot_image[f] = shown.image
                THEN "signalled" ELSE image_available[f]]
    /\ presents' = Tail(presents)
    /\ UNCHANGED <<surface, frame, caller, fence, gpu, slot_image, acquired,
                   watcher>>

\* The waiter sees the borrowed fence signalled and calls back.
WaiterCompletes ==
    /\ watch \in {"running", "over"}
    /\ watch_frame # NoFrame
    /\ fence[watch_frame] = "signalled"
    /\ watch' = "completed"
    /\ UNCHANGED <<surface, frame, caller, fence, gpu, semaphores, watch_frame>>

\* The waiter polls a fence that was destroyed: it may see anything.
WaiterPollsDestroyed ==
    /\ watch \in {"running", "over"}
    /\ watch_frame = NoFrame
    /\ watch' = "completed"
    /\ UNCHANGED <<surface, frame, caller, fence, gpu, semaphores, watch_frame>>

-----------------------------------------------------------------------------
AcquireGoesOn ==
    \/ WaitFrame
    \/ \E i \in Images : NextImage(i)
    \/ OpenFrame
    \/ BeginRecording

AcquireStep == AcquireGoesOn \/ OutOfDate \/ AcquireFails \/ BeginFails

DrawStep == FinishFrameRecording \/ ResetForGraph \/ Submit \/ PresentSubmitted

AbandonStep ==
    AbandonSubmitted \/ AbandonAcquired \/ AbandonFails \/ AbandonFailsLate

ResizeStep ==
    \/ ResizeToZero
    \/ \E e \in Extents :
        \/ ResizeSkipped(e) \/ Resize(e)
        \/ ResizeFailsAtWait(e) \/ ResizeFailsAtRebuild(e)

GpuStep == Display \/ \E f \in Frames : RunFrame(f)

Next ==
    \/ StartAcquire
    \/ AcquireStep
    \/ DrawStep
    \/ AbandonStep
    \/ ResizeStep
    \/ GpuStep
    \/ WaiterCompletes
    \/ WaiterPollsDestroyed

Spec == Init /\ [][Next]_vars

\* A call that was begun goes on when the wait it is in ends, submitted work is
\* drawn and displayed, and the waiter polls. Nobody is obliged to draw another
\* frame, and no call to fail.
Fairness ==
    /\ WF_vars(AcquireGoesOn)
    /\ WF_vars(call = "give_up" /\ AbandonAcquired)
    /\ \A f \in Frames : WF_vars(RunFrame(f))
    /\ WF_vars(Display)
    /\ WF_vars(WaiterCompletes)

FairSpec == Spec /\ Fairness

-----------------------------------------------------------------------------
(* Properties *)

\* acquire_frame: the semaphore that the next image is to signal has neither
\* been signalled nor is about to be, after abandoned frames and recreated
\* swapchains too.
AcquireIntoFreeSemaphore ==
    call = "next_image" => image_available[frame_index] = "free"

\* "Wait if a previous frame is still using this swapchain image": what an
\* open frame records into is used by no work that is still running, neither
\* the slot's nor the image's.
OpenFrameIsIdle ==
    frame_open /\ ~submitted =>
        /\ gpu[frame_index] = NoWork
        /\ \A f \in Frames : gpu[f].image # current_image

\* The semaphore that work is about to signal is not still signalled for a
\* presentation that has not consumed it.
SignalsUnsignalled ==
    \A f \in Frames :
        gpu[f] # NoWork /\ image_available[f] = "signalled" =>
            render_finished[gpu[f].semaphore] = "free"

\* replace_abandoned_frame_sync and its replace over images_in_flight_: no
\* image remembers a fence that was destroyed.
NoDanglingFence == dangling = {}

\* The image of an open frame belongs to the application, so that presenting
\* or abandoning it gives back what was really acquired, once.
OpenFrameOwnsImage == frame_open => current_image \in acquired

\* acquire_frame and begin_frame return: the fences they wait for, without a
\* time limit, are signalled or will be, whatever became of the frames before.
AcquireReturns == call # "none" ~> call \in {"none", "orphaned"}

\* A completion waiter that polls the fence of a presented frame calls back
\* only when that frame was drawn.
CompletesAfterItsWork ==
    [][watch' = "completed" /\ watch # "completed" => watch = "over"]_vars

\* present_submitted "Caller may enqueue_borrowed_fence_wait on this fence":
\* a frame that was drawn completes, whatever the caller does next.
DrawnFrameCompletes == watch = "over" ~> watch = "completed"

\* resize "Recreates presentation resources": when it has succeeded, there is
\* a swapchain of that extent with its framebuffers.
ResizeRecreates ==
    resized # "none" =>
        swapchain = "ready" /\ framebuffers /\ swapchain_extent = resized

\* An acquisition starts clean and its frame owns what it acquired.
CleanAcquisition == AcquireIntoFreeSemaphore /\ OpenFrameOwnsImage

\* What an open frame uses is idle, and nothing waits for a fence that is gone.
FramesIdle == OpenFrameIsIdle /\ NoDanglingFence
=============================================================================
