---------------------------- MODULE PresenterProofs ----------------------------
(***************************************************************************)
(* Theorems about Presenter, for any number of slots and images, whichever *)
(* calls may fail, also in the composition of MCFrames; then about         *)
(* FrameRing, which MCFrames brings along.                                 *)
(***************************************************************************)
EXTENDS MCFrames, SequenceTheorems, FiniteSetTheorems, FunctionTheorems, TLAPS

-----------------------------------------------------------------------------
(* The inductive invariant *)

Acquiring == call \in {"wait_frame", "next_image", "wait_image"}

\* While a frame is drawn its fence is unsignalled, and its image remembers it.
WorkInv ==
    \A f \in Frames : gpu[f] # NoWork =>
        /\ fence[f] = "unsignalled"
        /\ images_in_flight[gpu[f].image] = f

\* The slot is idle from the wait for its fence to the submission, the open
\* frame is the one its image remembers, and begin_frame has reset its fence.
OpenInv ==
    /\ call \in {"next_image", "wait_image"} => gpu[frame_index] = NoWork
    /\ Acquiring => ~frame_open
    /\ frame_open => images_in_flight[current_image] = frame_index
    /\ frame_open /\ ~submitted => gpu[frame_index] = NoWork
    /\ frame_open /\ ~submitted /\ beginning /\ call = "none"
            => fence[frame_index] = "unsignalled"

\* The frame that is waited for is drawn by the slot whose fence is polled.
WatchInv ==
    watch = "running" => watch_frame \in Frames /\ gpu[watch_frame] # NoWork

SafeInv == NoDanglingFence /\ WorkInv /\ OpenInv /\ WatchInv

IInv == TypeOK /\ SafeInv

-----------------------------------------------------------------------------
(* Types *)

\* TypeOK by groups of variables, for steps that change several of them.
SurfaceTypes ==
    /\ extent \in Extents
    /\ swapchain \in {"none", "broken", "ready"}
    /\ swapchain_extent \in Extents
    /\ framebuffers \in BOOLEAN
    /\ resize_required \in BOOLEAN
    /\ suspended \in BOOLEAN
    /\ resized \in Extents \cup {"none"}

FrameTypes ==
    /\ frame_index \in Frames
    /\ current_image \in Images
    /\ frame_open \in BOOLEAN
    /\ recording_open \in BOOLEAN
    /\ acquired_wait_consumed \in BOOLEAN
    /\ submitted \in BOOLEAN

CallerTypes ==
    /\ call \in {"none", "wait_frame", "next_image", "wait_image", "begin",
                 "give_up", "orphaned"}
    /\ beginning \in BOOLEAN

WorkTypes ==
    /\ fence \in [Frames -> {"signalled", "unsignalled"}]
    /\ gpu \in [Frames -> Work \cup {NoWork}]
    /\ image_available \in [Frames -> {"free", "pending", "signalled"}]
    /\ slot_image \in [Frames -> Images]
    /\ presents \in Seq([image : Images, semaphore : Images])
    /\ watch \in {"none", "running", "over", "completed"}
    /\ watch_frame \in Frames \cup {NoFrame}

ImageTypes ==
    /\ images_in_flight \in [Images -> Frames \cup {NoFrame}]
    /\ dangling \in SUBSET Images
    /\ render_finished \in [Images -> {"free", "signalled"}]
    /\ acquired \in SUBSET Images

\* The groups make up TypeOK.
LEMMA TypeGroups ==
    TypeOK <=> /\ SurfaceTypes
               /\ FrameTypes
               /\ CallerTypes
               /\ WorkTypes
               /\ ImageTypes
BY DEF TypeOK, SurfaceTypes, FrameTypes, CallerTypes, WorkTypes, ImageTypes

\* The same after a step.
LEMMA TypeParts ==
    SurfaceTypes' /\ FrameTypes' /\ CallerTypes' /\ WorkTypes' /\ ImageTypes'
        => TypeOK'
BY DEF TypeOK, SurfaceTypes, FrameTypes, CallerTypes, WorkTypes, ImageTypes

\* The values that stand for no slot and no image are neither.
LEMMA NoneOfThem == NoFrame \notin Frames /\ NoImage \notin Images
BY PresenterAssumption DEF NoFrame, NoImage, Frames, Images

\* There is a first slot and a first image.
LEMMA FirstOnes == 0 \in Frames /\ 1 \in Images
BY PresenterAssumption DEF Frames, Images

\* The slots wrap around.
LEMMA NextFrameIsFrame == frame_index \in Frames => NextFrame \in Frames
BY PresenterAssumption DEF Frames, NextFrame

\* What create_swapchain_sync leaves behind.
LEMMA ResetImagesTypes ==
    ResetImages => ImageTypes'
BY DEF ResetImages, ImageTypes

\* init leaves every variable with its type.
LEMMA TypeInit == Init => TypeOK
<1> SUFFICES ASSUME Init PROVE TypeOK
    OBVIOUS
<1>1. gpu \in [Frames -> Work \cup {NoWork}]
    BY DEF Init
<1>2. images_in_flight \in [Images -> Frames \cup {NoFrame}]
    BY DEF Init
<1>3. /\ fence \in [Frames -> {"signalled", "unsignalled"}]
      /\ image_available \in [Frames -> {"free", "pending", "signalled"}]
      /\ slot_image \in [Frames -> Images]
      /\ render_finished \in [Images -> {"free", "signalled"}]
    BY FirstOnes DEF Init
<1>4. presents \in Seq([image : Images, semaphore : Images])
    BY DEF Init
<1> QED
    BY <1>1, <1>2, <1>3, <1>4, FirstOnes DEF Init, TypeOK

\* Every step keeps the types.
LEMMA TypeNext == TypeOK /\ [Next]_vars => TypeOK'
<1> SUFFICES ASSUME TypeOK, [Next]_vars PROVE TypeOK'
    OBVIOUS
<1> USE DEF surface, frame, caller, semaphores, watcher
<1>0. frame_index \in Frames /\ NoFrame \in Frames \cup {NoFrame}
    BY DEF TypeOK
<1>1. CASE StartAcquire
    BY <1>1 DEF StartAcquire, TypeOK
<1>2. CASE WaitFrame
    BY <1>2 DEF WaitFrame, TypeOK
<1>3. ASSUME NEW i \in Images, NextImage(i) PROVE TypeOK'
    BY <1>3 DEF NextImage, TypeOK
<1>4. CASE OpenFrame
    BY <1>4 DEF OpenFrame, Returned, TypeOK
<1>5. CASE BeginRecording
    BY <1>5 DEF BeginRecording, TypeOK
<1>6. CASE OutOfDate
    BY <1>6 DEF OutOfDate, TypeOK
<1>7. CASE AcquireFails
    BY <1>7 DEF AcquireFails, TypeOK
<1>8. CASE BeginFails
    BY <1>8 DEF BeginFails, TypeOK
<1>9. CASE FinishFrameRecording
    <2>1. /\ recording_open' = FALSE
          /\ UNCHANGED <<surface, frame_index, current_image, frame_open,
                         acquired_wait_consumed, images_in_flight, dangling,
                         submitted, caller, fence, gpu, semaphores, watcher>>
        BY <1>9 DEF FinishFrameRecording
    <2>2. SurfaceTypes' /\ CallerTypes'
        BY <2>1, TypeGroups DEF SurfaceTypes, CallerTypes
    <2>3. FrameTypes'
        BY <2>1, TypeGroups DEF FrameTypes
    <2>4. WorkTypes' /\ ImageTypes'
        BY <2>1, TypeGroups DEF WorkTypes, ImageTypes
    <2> QED
        BY <2>2, <2>3, <2>4, TypeParts
<1>10. CASE ResetForGraph
    BY <1>10 DEF ResetForGraph, TypeOK
<1>11. CASE Submit
    BY <1>11 DEF Submit, RenderFinished, Work, TypeOK
<1>12. CASE PresentSubmitted
    <2>1. presents' \in Seq([image : Images, semaphore : Images])
        BY <1>12 DEF PresentSubmitted, RenderFinished, TypeOK
    <2>2. frame_index' \in Frames
        BY <1>12, NextFrameIsFrame DEF PresentSubmitted, TypeOK
    <2>3. watch' \in {"none", "running", "over", "completed"}
              /\ watch_frame' \in Frames \cup {NoFrame}
        BY <1>12 DEF PresentSubmitted, TypeOK
    <2> QED
        BY <1>12, <2>1, <2>2, <2>3 DEF PresentSubmitted, CloseFrame, TypeOK
<1>13. CASE AbandonSubmitted
    BY <1>13, ResetImagesTypes DEF AbandonSubmitted, ReplaceFrameSync,
       CleanupSwapchain, CloseAbandoned, CloseFrame, TypeOK, ImageTypes
<1>14. CASE AbandonAcquired
    <2>1. CASE KeepSwapchain
        <3>1. ImageTypes'
            BY <2>1 DEF KeepSwapchain, Forget, TypeOK, ImageTypes
        <3> QED
            BY <1>14, <2>1, <3>1 DEF AbandonAcquired, ReplaceFrameSync,
               KeepSwapchain, CloseAbandoned, CloseFrame, TypeOK, ImageTypes
    <2>2. CASE CleanupSwapchain
        BY <1>14, <2>2, ResetImagesTypes DEF AbandonAcquired,
           ReplaceFrameSync, CleanupSwapchain, CloseAbandoned, CloseFrame,
           TypeOK, ImageTypes
    <2> QED
        BY <1>14, <2>1, <2>2 DEF AbandonAcquired
<1>15. CASE AbandonFails
    BY <1>15 DEF AbandonFails, TypeOK
<1>16. CASE AbandonFailsLate
    BY <1>16 DEF AbandonFailsLate, TypeOK
<1>17. ASSUME NEW e \in Extents, ResizeSkipped(e) PROVE TypeOK'
    BY <1>17 DEF ResizeSkipped, CanResize, TypeOK
<1>18. CASE ResizeToZero
    BY <1>18 DEF ResizeToZero, TypeOK
<1>19. ASSUME NEW e \in Extents, Resize(e) PROVE TypeOK'
    <2>1. ResetImages
        BY <1>19 DEF Resize
    <2>2. /\ extent' = e /\ swapchain' = "ready" /\ swapchain_extent' = e
          /\ framebuffers' = TRUE /\ suspended' = FALSE
          /\ resize_required' = FALSE /\ resized' = e
          /\ UNCHANGED <<frame_index, current_image, frame_open, recording_open,
                acquired_wait_consumed, submitted, caller, fence, gpu,
                image_available, slot_image, presents, watcher>>
        BY <1>19 DEF Resize
    <2>3. SurfaceTypes'
        BY <2>2 DEF SurfaceTypes
    <2>4. FrameTypes' /\ CallerTypes'
        BY <2>2, TypeGroups DEF FrameTypes, CallerTypes
    <2>5. WorkTypes'
        BY <2>2, TypeGroups DEF WorkTypes
    <2> QED
        BY <2>1, <2>3, <2>4, <2>5, ResetImagesTypes, TypeParts
<1>20. ASSUME NEW e \in Extents, ResizeFailsAtWait(e) PROVE TypeOK'
    BY <1>20 DEF ResizeFailsAtWait, TypeOK
<1>21. ASSUME NEW e \in Extents, ResizeFailsAtRebuild(e) PROVE TypeOK'
    <2>1. /\ swapchain' \in {"none", "broken", "ready"}
          /\ swapchain_extent' \in Extents
          /\ ResetImages
                \/ UNCHANGED <<images_in_flight, dangling, render_finished,
                               acquired>>
        BY <1>21 DEF ResizeFailsAtRebuild, TypeOK
    <2>2. ImageTypes'
        BY <2>1, ResetImagesTypes, TypeGroups DEF ImageTypes
    <2>3. /\ extent' = e /\ framebuffers' = FALSE /\ resized' = "none"
          /\ UNCHANGED <<resize_required, suspended, frame_index, current_image,
                frame_open, recording_open, acquired_wait_consumed,
                submitted, caller, fence, gpu, image_available, slot_image,
                presents, watcher>>
        BY <1>21 DEF ResizeFailsAtRebuild
    <2>4. SurfaceTypes'
        BY <2>1, <2>3, TypeGroups DEF SurfaceTypes
    <2>5. FrameTypes' /\ CallerTypes'
        BY <2>3, TypeGroups DEF FrameTypes, CallerTypes
    <2>6. WorkTypes'
        BY <2>3, TypeGroups DEF WorkTypes
    <2> QED
        BY <2>2, <2>4, <2>5, <2>6, TypeParts
<1>22. ASSUME NEW f \in Frames, RunFrame(f) PROVE TypeOK'
    BY <1>22 DEF RunFrame, Work, NoWork, TypeOK
<1>23. CASE Display
    <2>1. presents' \in Seq([image : Images, semaphore : Images])
        BY <1>23 DEF Display, TypeOK
    <2>2. Head(presents) \in [image : Images, semaphore : Images]
        BY <1>23, HeadTailProperties DEF Display, TypeOK
    <2>3. render_finished' \in [Images -> {"free", "signalled"}]
              /\ image_available' \in [Frames -> {"free", "pending", "signalled"}]
        BY <1>23, <2>2 DEF Display, TypeOK
    <2> QED
        BY <1>23, <2>1, <2>3 DEF Display, TypeOK
<1>24. CASE WaiterCompletes
    BY <1>24 DEF WaiterCompletes, TypeOK
<1>25. CASE WaiterPollsDestroyed
    BY <1>25 DEF WaiterPollsDestroyed, TypeOK
<1>26. CASE UNCHANGED vars
    BY <1>26 DEF vars, TypeOK
<1> QED
    BY <1>1, <1>2, <1>3, <1>4, <1>5, <1>6, <1>7, <1>8, <1>9, <1>10, <1>11,
       <1>12, <1>13, <1>14, <1>15, <1>16, <1>17, <1>18, <1>19, <1>20, <1>21,
       <1>22, <1>23, <1>24, <1>25, <1>26
    DEF Next, AcquireStep, AcquireGoesOn, DrawStep, AbandonStep, ResizeStep,
        GpuStep

-----------------------------------------------------------------------------
(* Work, images and the watched frame *)

\* Nothing is drawn, open or waited for at first.
LEMMA SafeInit == Init => SafeInv
BY DEF Init, SafeInv, NoDanglingFence, WorkInv, OpenInv, WatchInv, Acquiring,
       NoWork

\* Nothing is drawn while the device is idle, and so nobody waits for a frame
\* that is still drawn.
LEMMA IdleIsQuiet ==
    TypeOK /\ WatchInv /\ Idle =>
        (\A f \in Frames : gpu[f] = NoWork) /\ watch # "running"
BY DEF Idle, WatchInv

\* A step that keeps the frame, the slots and the GPU as they are keeps the
\* invariant: all but the position of the caller.
LEMMA Untouched ==
    ASSUME SafeInv, UNCHANGED <<frame_index, current_image, frame_open,
                images_in_flight, dangling, submitted, beginning, fence, gpu>>,
           call' # "none" \/ call' = call \/ ~frame_open \/ submitted,
           call' \in {"next_image", "wait_image"} =>
                gpu[frame_index] = NoWork,
           Acquiring' => ~frame_open,
           WatchInv'
    PROVE  SafeInv'
BY DEF SafeInv, NoDanglingFence, WorkInv, OpenInv

\* Every step keeps the invariant.
LEMMA SafeNext == TypeOK /\ SafeInv /\ [Next]_vars => SafeInv'
<1> SUFFICES ASSUME TypeOK, SafeInv, [Next]_vars PROVE SafeInv'
    OBVIOUS
<1> USE DEF surface, frame, caller, semaphores, watcher
<1>0. /\ frame_index \in Frames /\ current_image \in Images
      /\ gpu \in [Frames -> Work \cup {NoWork}]
      /\ fence \in [Frames -> {"signalled", "unsignalled"}]
      /\ images_in_flight \in [Images -> Frames \cup {NoFrame}]
      /\ watch_frame \in Frames \cup {NoFrame}
      /\ frame_open \in BOOLEAN /\ submitted \in BOOLEAN
      /\ beginning \in BOOLEAN
    BY DEF TypeOK
<1>1. CASE StartAcquire
    BY <1>1, <1>0 DEF StartAcquire, SafeInv, NoDanglingFence, WorkInv, OpenInv,
       WatchInv, Acquiring
<1>2. CASE WaitFrame
    <2>1. gpu[frame_index] = NoWork /\ ~frame_open
        BY <1>0, <1>2 DEF WaitFrame, SafeInv, WorkInv, OpenInv, Acquiring
    <2> QED
        BY <1>2, <2>1, Untouched DEF WaitFrame, SafeInv, WatchInv
<1>3. ASSUME NEW i \in Images, NextImage(i) PROVE SafeInv'
    <2>1. gpu[frame_index] = NoWork /\ ~frame_open
        BY <1>3 DEF NextImage, SafeInv, OpenInv, Acquiring
    <2> QED
        BY <1>3, <2>1, Untouched DEF NextImage, SafeInv, WatchInv
<1>4. CASE OpenFrame
    <2> DEFINE i == slot_image[frame_index]
    <2>1. i \in Images
        BY DEF TypeOK
    <2>2. gpu[frame_index] = NoWork
        BY <1>4 DEF OpenFrame, SafeInv, OpenInv
    <2>3. ASSUME NEW f \in Frames, gpu[f] # NoWork PROVE gpu[f].image # i
        BY <1>4, <2>3, NoneOfThem DEF OpenFrame, SafeInv, WorkInv
    <2>4. /\ images_in_flight' = [images_in_flight EXCEPT ![i] = frame_index]
          /\ dangling' = dangling \ {i}
          /\ current_image' = i
          /\ frame_open' = TRUE /\ submitted' = FALSE
          /\ UNCHANGED <<frame_index, beginning, fence, gpu, watch, watch_frame>>
        BY <1>4 DEF OpenFrame
    <2>5. call' \in {"begin", "orphaned"} \/ (~beginning /\ call' = "none")
        <3>1. Returned
            BY <1>4 DEF OpenFrame
        <3> QED
            BY <3>1 DEF Returned
    <2>6. NoDanglingFence' /\ WatchInv'
        BY <2>4 DEF SafeInv, NoDanglingFence, WatchInv
    <2>7. WorkInv'
        BY <1>0, <2>3, <2>4 DEF SafeInv, WorkInv, Work
    <2>8. OpenInv'
        BY <1>0, <2>1, <2>2, <2>4, <2>5 DEF OpenInv, Acquiring
    <2> QED
        BY <2>6, <2>7, <2>8 DEF SafeInv
<1>5. CASE BeginRecording
    BY <1>5, <1>0 DEF BeginRecording, SafeInv, NoDanglingFence, WorkInv, OpenInv,
       WatchInv, Acquiring
<1>6. CASE OutOfDate
    <2>1. ~frame_open
        BY <1>6 DEF OutOfDate, SafeInv, OpenInv, Acquiring
    <2> QED
        BY <1>6, <2>1, Untouched DEF OutOfDate, SafeInv, WatchInv, Acquiring
<1>7. CASE AcquireFails
    <2>1. ~frame_open
        BY <1>7 DEF AcquireFails, SafeInv, OpenInv, Acquiring
    <2> QED
        BY <1>7, <2>1, Untouched DEF AcquireFails, SafeInv, WatchInv, Acquiring
<1>8. CASE BeginFails
    BY <1>8, <1>0 DEF BeginFails, SafeInv, NoDanglingFence, WorkInv, OpenInv,
       WatchInv, Acquiring
<1>9. CASE FinishFrameRecording
    BY <1>9, Untouched
    DEF FinishFrameRecording, SafeInv, OpenInv, WatchInv, Acquiring
<1>10. CASE ResetForGraph
    BY <1>10, <1>0 DEF ResetForGraph, SafeInv, NoDanglingFence, WorkInv,
       OpenInv, WatchInv, Acquiring
<1>11. CASE Submit
    <2>1. /\ frame_open /\ ~submitted /\ call = "none"
          /\ fence[frame_index] = "unsignalled"
          /\ images_in_flight[current_image] = frame_index
        BY <1>11 DEF Submit, SafeInv, OpenInv
    <2>2. /\ gpu' = [gpu EXCEPT ![frame_index] =
                        [image |-> current_image, semaphore |-> RenderFinished]]
          /\ submitted' = TRUE
          /\ UNCHANGED <<frame_index, current_image, frame_open, call, beginning,
                images_in_flight, dangling, fence, watch, watch_frame>>
        BY <1>11 DEF Submit
    <2>3. [image |-> current_image, semaphore |-> RenderFinished] # NoWork
        BY <1>0, NoneOfThem DEF NoWork
    <2>4. WorkInv'
        BY <1>0, <2>1, <2>2 DEF SafeInv, WorkInv
    <2>5. OpenInv'
        BY <1>0, <2>1, <2>2 DEF SafeInv, OpenInv, Acquiring
    <2>6. WatchInv' /\ NoDanglingFence'
        BY <1>0, <2>2, <2>3 DEF SafeInv, WatchInv, NoDanglingFence
    <2> QED
        BY <2>4, <2>5, <2>6 DEF SafeInv
<1>12. CASE PresentSubmitted
    <2>1. call = "none" /\ call' = "none" /\ frame_open' = FALSE
        BY <1>12 DEF PresentSubmitted, CloseFrame
    <2>2. UNCHANGED <<images_in_flight, dangling, fence, gpu>>
        BY <1>12 DEF PresentSubmitted
    <2>3. WatchInv'
        BY <1>0, <1>12 DEF PresentSubmitted, SafeInv, WatchInv
    <2> QED
        BY <2>1, <2>2, <2>3
        DEF SafeInv, NoDanglingFence, WorkInv, OpenInv, Acquiring
<1>13. ASSUME Idle, UNCHANGED <<gpu, watch>>, frame_open' = FALSE,
              call' = "none", NoDanglingFence'
       PROVE  SafeInv'
    BY <1>13, IdleIsQuiet DEF SafeInv, WorkInv, OpenInv, WatchInv, Acquiring
<1>14. ResetImages \/ KeepSwapchain => NoDanglingFence'
    <2>1. KeepSwapchain => dangling' = {}
        BY <1>0, NoneOfThem
        DEF KeepSwapchain, Forget, SafeInv, NoDanglingFence
    <2> QED
        BY <2>1 DEF ResetImages, NoDanglingFence
<1>15. CASE AbandonSubmitted
    BY <1>13, <1>14, <1>15
    DEF AbandonSubmitted, CleanupSwapchain, CloseAbandoned, CloseFrame
<1>16. CASE AbandonAcquired
    BY <1>13, <1>14, <1>16
    DEF AbandonAcquired, CleanupSwapchain, CloseAbandoned, CloseFrame
<1>17. CASE AbandonFails
    BY <1>17, Untouched DEF AbandonFails, SafeInv, OpenInv, WatchInv, Acquiring
<1>18. CASE AbandonFailsLate
    BY <1>18, Untouched
    DEF AbandonFailsLate, SafeInv, OpenInv, WatchInv, Acquiring
<1>19. ASSUME NEW e \in Extents,
              \/ ResizeSkipped(e) \/ ResizeToZero \/ ResizeFailsAtWait(e)
       PROVE  SafeInv'
    BY <1>19, Untouched
    DEF ResizeSkipped, ResizeToZero, ResizeFailsAtWait, NeedsRecreate, CanResize,
        SafeInv, OpenInv, WatchInv, Acquiring
<1>20. ASSUME NEW e \in Extents, Resize(e) PROVE SafeInv'
    BY <1>0, <1>13, <1>14, <1>20 DEF Resize, NeedsRecreate, CanResize
<1>21. ASSUME NEW e \in Extents, ResizeFailsAtRebuild(e) PROVE SafeInv'
    <2>1. NoDanglingFence'
        BY <1>14, <1>21 DEF ResizeFailsAtRebuild, SafeInv, NoDanglingFence
    <2> QED
        BY <1>0, <1>13, <1>21, <2>1
        DEF ResizeFailsAtRebuild, NeedsRecreate, CanResize
<1>22. ASSUME NEW f \in Frames, RunFrame(f) PROVE SafeInv'
    <2>1. /\ gpu' = [gpu EXCEPT ![f] = NoWork]
          /\ fence' = [fence EXCEPT ![f] = "signalled"]
          /\ watch' = IF watch = "running" /\ watch_frame = f THEN "over"
                      ELSE watch
          /\ gpu[f] # NoWork
          /\ UNCHANGED <<frame, caller, watch_frame>>
        BY <1>22 DEF RunFrame
    <2>2. WorkInv' /\ NoDanglingFence'
        BY <1>0, <2>1 DEF SafeInv, WorkInv, NoDanglingFence
    <2>3. OpenInv'
        BY <1>0, <2>1 DEF SafeInv, OpenInv, Acquiring
    <2>4. WatchInv'
        BY <1>0, <2>1 DEF SafeInv, WatchInv
    <2> QED
        BY <2>2, <2>3, <2>4 DEF SafeInv
<1>23. CASE Display
    BY <1>23, Untouched DEF Display, SafeInv, OpenInv, WatchInv, Acquiring
<1>24. CASE WaiterCompletes \/ WaiterPollsDestroyed
    BY <1>24, Untouched DEF WaiterCompletes, WaiterPollsDestroyed, SafeInv,
       OpenInv, WatchInv, Acquiring
<1>25. CASE UNCHANGED vars
    BY <1>25, Untouched DEF vars, SafeInv, OpenInv, WatchInv, Acquiring
<1> QED
    BY <1>1, <1>2, <1>3, <1>4, <1>5, <1>6, <1>7, <1>8, <1>9, <1>10, <1>11,
       <1>12, <1>15, <1>16, <1>17, <1>18, <1>19, <1>20, <1>21,
       <1>22, <1>23, <1>24, <1>25, PresenterAssumption
    DEF Next, AcquireStep, AcquireGoesOn, DrawStep, AbandonStep, ResizeStep,
        GpuStep

-----------------------------------------------------------------------------
(* The theorems *)

\* Types, and the invariant that the theorems below rest on.
THEOREM Invariant == Spec => []IInv
<1>1. Init => IInv
    BY TypeInit, SafeInit DEF IInv
<1>2. IInv /\ [Next]_vars => IInv'
    BY TypeNext, SafeNext DEF IInv
<1> QED
    BY <1>1, <1>2, PTL DEF Spec

\* The presenter's variables, the GPU's and the engine's keep their types.
THEOREM TypeCorrect == Spec => []TypeOK
<1>1. IInv => TypeOK
    BY DEF IInv
<1> QED
    BY <1>1, Invariant, PTL

\* acquire_frame waits for the slot's fence and for the fence that the image
\* remembers: what an open frame records into is used by no running work.
THEOREM OpenFrameNotInUse == Spec => []OpenFrameIsIdle
<1>1. IInv => OpenFrameIsIdle
    <2> SUFFICES ASSUME IInv, frame_open, ~submitted PROVE OpenFrameIsIdle
        BY DEF OpenFrameIsIdle
    <2>1. frame_index \in Frames /\ current_image \in Images
        BY DEF IInv, TypeOK
    <2>2. gpu[frame_index] = NoWork
              /\ images_in_flight[current_image] = frame_index
        BY DEF IInv, SafeInv, OpenInv
    <2>3. ASSUME NEW f \in Frames, gpu[f].image = current_image PROVE FALSE
        <3>1. gpu[f] # NoWork
            BY <2>1, <2>3, NoneOfThem DEF NoWork
        <3>2. f = frame_index
            BY <2>2, <2>3, <3>1 DEF IInv, SafeInv, WorkInv
        <3> QED
            BY <2>2, <3>1, <3>2
    <2> QED
        BY <2>2, <2>3 DEF OpenFrameIsIdle
<1> QED
    BY <1>1, Invariant, PTL

\* replace_abandoned_frame_sync leaves no copy of the fence that it destroys.
THEOREM NoFenceDangles == Spec => []NoDanglingFence
<1>1. IInv => NoDanglingFence
    BY DEF IInv, SafeInv
<1> QED
    BY <1>1, Invariant, PTL

\* The waiter calls back for a presented frame only when that frame was drawn,
\* even if its fence was reset, replaced or lent again in the meantime.
THEOREM NoEarlyCompletion == Spec => CompletesAfterItsWork
<1>1. IInv /\ [Next]_vars
        => (watch' = "completed" /\ watch # "completed" => watch = "over")
    <2> SUFFICES ASSUME IInv, [Next]_vars, watch' = "completed",
                        watch # "completed"
                 PROVE  watch = "over"
        OBVIOUS
    <2>1. CASE WaiterCompletes
        BY <2>1 DEF WaiterCompletes, IInv, SafeInv, WatchInv, WorkInv
    <2>2. CASE WaiterPollsDestroyed
        BY <2>2, NoneOfThem DEF WaiterPollsDestroyed, IInv, SafeInv, WatchInv
    <2>3. ASSUME NEW f \in Frames, RunFrame(f) PROVE FALSE
        BY <2>3 DEF RunFrame
    <2>4. CASE PresentSubmitted
        BY <2>4 DEF PresentSubmitted, watcher
    <2>5. ASSUME UNCHANGED watch PROVE FALSE
        BY <2>5
    <2> QED
        BY <2>1, <2>2, <2>3, <2>4, <2>5
        DEF Next, StartAcquire, AcquireStep, AcquireGoesOn, WaitFrame, NextImage,
            OpenFrame, BeginRecording, OutOfDate, AcquireFails, BeginFails,
            DrawStep, FinishFrameRecording, ResetForGraph, Submit, AbandonStep,
            AbandonSubmitted, AbandonAcquired, AbandonFails, AbandonFailsLate,
            ResizeStep, ResizeToZero, ResizeSkipped, Resize, ResizeFailsAtWait,
            ResizeFailsAtRebuild, GpuStep, Display, watcher, vars
<1> QED
    BY <1>1, Invariant, PTL DEF Spec, CompletesAfterItsWork

\* No frame is recorded over running work, nor waits for a destroyed fence.
THEOREM FramesStayIdle == Spec => []FramesIdle
    BY OpenFrameNotInUse, NoFenceDangles, PTL DEF FramesIdle

-----------------------------------------------------------------------------
(* The semaphores *)

One(b) == IF b THEN 1 ELSE 0

\* Where the presentations of an image are in a queue.
Places(q, i) == {n \in DOMAIN q : q[n].image = i}

\* An image is drawn into.
Drawing(i) == \E f \in Frames : gpu[f].image = i

\* The presentations of an image that are queued or that its submitted frame
\* will ask for, and the signals that its work has given or will give.
Waiting(i) ==
    Queued(i) + One(frame_open /\ submitted /\ current_image = i)

Signals(i) == One(Drawing(i)) + One(render_finished[i] = "signalled")

\* Work and presentations use the semaphore of their image, and a slot works on
\* the image that it acquired.
PairInv ==
    /\ \A f \in Frames : gpu[f] # NoWork =>
            gpu[f].semaphore = gpu[f].image /\ slot_image[f] = gpu[f].image
    /\ \A n \in DOMAIN presents : presents[n].semaphore = presents[n].image
    /\ frame_open => slot_image[frame_index] = current_image

\* Every presentation has a signal of its own.
BalanceInv == \A i \in Images : Waiting(i) = Signals(i)

Unsubmitted == call = "wait_image" \/ (frame_open /\ ~submitted)

\* Work whose image is there, or that is yet to be submitted for it, is the only
\* one that a presentation of the image waits for.
TurnInv ==
    /\ \A f \in Frames : gpu[f] # NoWork /\ image_available[f] = "signalled"
            => Waiting(gpu[f].image) = 1
    /\ Unsubmitted /\ image_available[frame_index] = "signalled"
            => Queued(slot_image[frame_index]) = 0
    /\ call = "wait_image" => Queued(slot_image[frame_index]) \in {0, 1}

SignalInv == PairInv /\ BalanceInv /\ TurnInv

\* A queue has finitely many places.
LEMMA PlacesFinite ==
    ASSUME NEW q \in Seq(Work), NEW i
    PROVE  IsFiniteSet(Places(q, i)) /\ Cardinality(Places(q, i)) \in Nat
<1>1. Len(q) \in Nat /\ DOMAIN q = 1 .. Len(q)
    OBVIOUS
<1>2. IsFiniteSet(1 .. Len(q))
    BY <1>1, FS_Interval
<1>3. Places(q, i) \in SUBSET (1 .. Len(q))
    BY <1>1 DEF Places
<1>4. IsFiniteSet(Places(q, i))
    BY <1>2, <1>3, FS_Subset
<1> QED
    BY <1>4, FS_CardinalityType

\* A presentation that is queued adds a place for its image alone.
LEMMA PlacesAppend ==
    ASSUME NEW q \in Seq(Work), NEW e \in Work, NEW i
    PROVE  Cardinality(Places(Append(q, e), i))
                = Cardinality(Places(q, i)) + One(e.image = i)
<1>1. /\ Len(q) \in Nat /\ DOMAIN q = 1 .. Len(q)
      /\ DOMAIN Append(q, e) = 1 .. Len(q) + 1
      /\ \A n \in 1 .. Len(q) : Append(q, e)[n] = q[n]
      /\ Append(q, e)[Len(q) + 1] = e
    BY AppendProperties
<1>2. IsFiniteSet(Places(q, i)) /\ Cardinality(Places(q, i)) \in Nat
    BY PlacesFinite
<1>3. CASE e.image = i
    <2>1. Places(Append(q, e), i) = Places(q, i) \cup {Len(q) + 1}
        BY <1>1, <1>3 DEF Places
    <2>2. Len(q) + 1 \notin Places(q, i)
        BY <1>1 DEF Places
    <2> QED
        BY <1>2, <1>3, <2>1, <2>2, FS_AddElement DEF One
<1>4. CASE e.image # i
    <2>1. Places(Append(q, e), i) = Places(q, i)
        BY <1>1, <1>4 DEF Places
    <2> QED
        BY <1>2, <1>4, <2>1 DEF One
<1> QED
    BY <1>3, <1>4

\* The oldest presentation takes the place of its image alone with it.
LEMMA PlacesTail ==
    ASSUME NEW q \in Seq(Work), NEW i, q # <<>>
    PROVE  Cardinality(Places(q, i))
                = Cardinality(Places(Tail(q), i)) + One(Head(q).image = i)
<1>1. /\ Len(q) \in Nat /\ Len(q) # 0 /\ DOMAIN q = 1 .. Len(q)
      /\ Tail(q) \in Seq(Work) /\ Len(Tail(q)) = Len(q) - 1
      /\ DOMAIN Tail(q) = 1 .. Len(q) - 1
      /\ \A n \in 1 .. Len(q) - 1 : Tail(q)[n] = q[n + 1]
      /\ Head(q) = q[1]
    BY HeadTailProperties, EmptySeq
<1>2. IsFiniteSet(Places(q, i)) /\ Cardinality(Places(q, i)) \in Nat
    BY PlacesFinite
<1>3. IsFiniteSet(Places(Tail(q), i)) /\ Cardinality(Places(Tail(q), i)) \in Nat
    BY <1>1, PlacesFinite
<1>4. PICK S : S = Places(Tail(q), i)
    OBVIOUS
<1>5. PICK T : T = Places(q, i) \ {1}
    OBVIOUS
<1>6. Cardinality(S) = Cardinality(T)
    <2>1. PICK F : F = [n \in S |-> n + 1]
        OBVIOUS
    <2>2. F \in [S -> T]
        BY <1>1, <1>4, <1>5, <2>1 DEF Places
    <2>3. \A a, b \in S : F[a] = F[b] => a = b
        BY <1>1, <1>4, <2>1 DEF Places
    <2>4. ASSUME NEW t \in T PROVE \E s \in S : F[s] = t
        <3>1. t - 1 \in S /\ F[t - 1] = t
            BY <1>1, <1>4, <1>5, <2>1 DEF Places
        <3> QED
            BY <3>1
    <2>5. F \in Bijection(S, T)
        BY <2>2, <2>3, <2>4, Fun_IsBij
    <2>6. ExistsBijection(S, T)
        BY <2>5 DEF ExistsBijection
    <2> QED
        BY <1>3, <1>4, <2>6, FS_Bijection
<1>7. Cardinality(T) = IF 1 \in Places(q, i) THEN Cardinality(Places(q, i)) - 1
                       ELSE Cardinality(Places(q, i))
    BY <1>2, <1>5, FS_RemoveElement
<1>8. 1 \in Places(q, i) <=> Head(q).image = i
    BY <1>1 DEF Places
<1> QED
    BY <1>2, <1>3, <1>4, <1>6, <1>7, <1>8 DEF One

\* An image is queued a number of times.
LEMMA QueuedIsNat ==
    ASSUME TypeOK, NEW i PROVE Queued(i) \in Nat
<1>1. presents \in Seq(Work)
    BY DEF TypeOK, Work
<1> QED
    BY <1>1, PlacesFinite DEF Queued, Places

\* The same before and after the steps that change the queue.
LEMMA QueuedMore ==
    ASSUME TypeOK, NEW e \in Work, presents' = Append(presents, e), NEW i
    PROVE  Queued(i)' = Queued(i) + One(e.image = i)
<1>1. presents \in Seq(Work)
    BY DEF TypeOK, Work
<1>2. Cardinality(Places(Append(presents, e), i))
                = Cardinality(Places(presents, i)) + One(e.image = i)
    BY <1>1, PlacesAppend
<1> QED
    BY <1>2 DEF Queued, Places

\* A presentation that is taken off the queue was counted once.
LEMMA QueuedLess ==
    ASSUME TypeOK, presents # <<>>, presents' = Tail(presents), NEW i
    PROVE  Queued(i) = Queued(i)' + One(Head(presents).image = i)
<1>1. presents \in Seq(Work)
    BY DEF TypeOK, Work
<1>2. Cardinality(Places(presents, i))
        = Cardinality(Places(Tail(presents), i)) + One(Head(presents).image = i)
    BY <1>1, PlacesTail
<1> QED
    BY <1>2 DEF Queued, Places

\* Nothing is queued in an empty queue.
LEMMA QueuedNothing == presents = <<>> => \A i : Queued(i) = 0
<1>1. ASSUME presents = <<>>, NEW i PROVE Queued(i) = 0
    <2>1. {n \in DOMAIN presents : presents[n].image = i} = {}
        BY <1>1
    <2> QED
        BY <2>1, FS_EmptySet DEF Queued
<1> QED
    BY <1>1

\* Nothing is queued, drawn or signalled at first.
LEMMA SignalInit == Init => SignalInv
<1> SUFFICES ASSUME Init PROVE SignalInv
    OBVIOUS
<1>1. \A i : Queued(i) = 0
    BY QueuedNothing DEF Init
<1>2. \A i \in Images : ~ Drawing(i)
    BY NoneOfThem DEF Init, Drawing, NoWork
<1>3. BalanceInv
    BY <1>1, <1>2 DEF Init, BalanceInv, Waiting, Signals, One
<1>4. PairInv /\ TurnInv
    BY DEF Init, PairInv, TurnInv, Unsubmitted
<1> QED
    BY <1>3, <1>4 DEF SignalInv

\* A step that changes neither semaphores nor work, opens no frame and acquires
\* no image keeps the invariant.
LEMMA SignalsUntouched ==
    ASSUME SignalInv,
           UNCHANGED <<frame_index, current_image, frame_open, submitted, gpu,
                       image_available, slot_image, render_finished, presents>>,
           call' = "wait_image" => call = "wait_image"
    PROVE  SignalInv'
<1>1. \A j : /\ Queued(j)' = Queued(j)
             /\ Waiting(j)' = Waiting(j)
             /\ Signals(j)' = Signals(j)
    BY DEF Queued, Waiting, Signals, Drawing
<1>2. PairInv' /\ BalanceInv'
    BY <1>1 DEF SignalInv, PairInv, BalanceInv
<1>3. TurnInv'
    BY <1>1 DEF SignalInv, TurnInv, Unsubmitted
<1> QED
    BY <1>2, <1>3 DEF SignalInv

\* While the device is idle no image waits for a presentation, and only a frame
\* that was drawn and not presented has left a signal.
LEMMA IdleSignals ==
    ASSUME IInv, SignalInv, Idle, NEW i \in Images
    PROVE  /\ ~ Drawing(i)
           /\ Queued(i) = 0
           /\ render_finished[i] = "signalled"
                => frame_open /\ submitted /\ current_image = i
<1>1. ~ Drawing(i)
    BY NoneOfThem DEF Idle, Drawing, NoWork
<1>2. Queued(i) = 0
    BY QueuedNothing DEF Idle
<1>3. Waiting(i) = Signals(i)
    BY DEF SignalInv, BalanceInv
<1>4. Signals(i) = One(render_finished[i] = "signalled")
    BY <1>1 DEF Signals, One
<1>5. Waiting(i) = One(frame_open /\ submitted /\ current_image = i)
    BY <1>2 DEF Waiting, One
<1> QED
    BY <1>1, <1>2, <1>3, <1>4, <1>5 DEF One

\* A step of an idle device that closes the frame and leaves no signal behind.
LEMMA SignalsEmptied ==
    ASSUME IInv, SignalInv, Idle, UNCHANGED <<gpu, presents>>,
           frame_open' = FALSE, call' # "wait_image",
           \A i \in Images : render_finished'[i] # "signalled"
    PROVE  SignalInv'
<1>1. \A f \in Frames : gpu'[f] = NoWork
    BY DEF Idle
<1>2. presents' = <<>>
    BY DEF Idle
<1>3. \A i : Queued(i)' = 0
    <2>1. \A i : Queued(i) = 0
        BY QueuedNothing DEF Idle
    <2> QED
        BY <2>1 DEF Queued
<1>4. \A i \in Images : ~ Drawing(i)'
    BY <1>1, NoneOfThem DEF Drawing, NoWork
<1>5. PairInv' /\ TurnInv'
    BY <1>1, <1>2 DEF PairInv, TurnInv, Unsubmitted
<1>6. BalanceInv'
    BY <1>3, <1>4 DEF BalanceInv, Waiting, Signals, One
<1> QED
    BY <1>5, <1>6 DEF SignalInv

\* The steps of the caller that touch no semaphore.
LEMMA CallerKeepsSignals ==
    ASSUME IInv, SignalInv,
           \/ StartAcquire \/ WaitFrame \/ OutOfDate \/ AcquireFails
           \/ BeginRecording \/ BeginFails \/ FinishFrameRecording
           \/ ResetForGraph \/ AbandonFails \/ ResizeToZero
           \/ WaiterCompletes \/ WaiterPollsDestroyed
           \/ \E e \in Extents : ResizeSkipped(e) \/ ResizeFailsAtWait(e)
           \/ UNCHANGED vars
    PROVE  SignalInv'
BY SignalsUntouched
DEF StartAcquire, WaitFrame, OutOfDate, AcquireFails, BeginRecording,
    BeginFails, FinishFrameRecording, ResetForGraph, AbandonFails, ResizeToZero,
    WaiterCompletes, WaiterPollsDestroyed, ResizeSkipped, ResizeFailsAtWait,
    NeedsRecreate, CanResize, vars, surface, frame, caller, semaphores, watcher

\* vkAcquireNextImageKHR: the image comes at once only if nothing of it is
\* queued.
LEMMA NextImageKeepsSignals ==
    ASSUME IInv, SignalInv, NEW i \in Images, NextImage(i) PROVE SignalInv'
<1>1. /\ frame_index \in Frames /\ ~ frame_open /\ gpu[frame_index] = NoWork
      /\ slot_image \in [Frames -> Images]
      /\ image_available \in [Frames -> {"free", "pending", "signalled"}]
    BY DEF IInv, TypeOK, SafeInv, OpenInv, Acquiring, NextImage
<1>2. /\ Queued(i) \in {0, 1}
      /\ slot_image' = [slot_image EXCEPT ![frame_index] = i]
      /\ image_available' = [image_available EXCEPT ![frame_index] =
                                IF Queued(i) = 0 THEN "signalled" ELSE "pending"]
      /\ call' = "wait_image"
      /\ UNCHANGED <<frame_index, current_image, frame_open, submitted, gpu,
                     render_finished, presents>>
    BY DEF NextImage, surface, frame
<1>3. \A j : /\ Queued(j)' = Queued(j)
             /\ Waiting(j)' = Waiting(j)
             /\ Signals(j)' = Signals(j)
    BY <1>2 DEF Queued, Waiting, Signals, Drawing
<1>4. PairInv'
    BY <1>1, <1>2 DEF SignalInv, PairInv
<1>5. BalanceInv'
    BY <1>3 DEF SignalInv, BalanceInv
<1>6. TurnInv'
    <2>1. ASSUME NEW f \in Frames, gpu[f] # NoWork,
                 image_available'[f] = "signalled"
          PROVE  Waiting(gpu[f].image) = 1
        BY <1>1, <1>2, <2>1 DEF SignalInv, TurnInv
    <2>2. slot_image'[frame_index] = i
              /\ (image_available'[frame_index] = "signalled" => Queued(i) = 0)
        BY <1>1, <1>2
    <2> QED
        BY <1>2, <1>3, <2>1, <2>2 DEF TurnInv
<1> QED
    BY <1>4, <1>5, <1>6 DEF SignalInv

\* The frame that opens draws into the image that was acquired for it.
LEMMA OpenFrameKeepsSignals ==
    ASSUME IInv, SignalInv, OpenFrame PROVE SignalInv'
<1>1. /\ call = "wait_image" /\ call' # "wait_image" /\ ~ frame_open
      /\ frame_open' = TRUE /\ submitted' = FALSE
      /\ current_image' = slot_image[frame_index]
      /\ UNCHANGED <<frame_index, gpu, image_available, slot_image,
                     render_finished, presents>>
    BY DEF OpenFrame, Returned, semaphores, IInv, SafeInv, OpenInv, Acquiring
<1>2. \A j : /\ Queued(j)' = Queued(j)
             /\ Waiting(j)' = Waiting(j)
             /\ Signals(j)' = Signals(j)
    BY <1>1 DEF Queued, Waiting, Signals, Drawing, One
<1>3. PairInv'
    BY <1>1 DEF SignalInv, PairInv
<1>4. BalanceInv'
    BY <1>2 DEF SignalInv, BalanceInv
<1>5. TurnInv'
    BY <1>1, <1>2 DEF SignalInv, TurnInv, Unsubmitted
<1> QED
    BY <1>3, <1>4, <1>5 DEF SignalInv

\* What an open frame draws into is not drawn into by any other work.
LEMMA OpenIsNotDrawn ==
    ASSUME IInv, frame_open, ~submitted
    PROVE  gpu[frame_index] = NoWork /\ ~ Drawing(current_image)
<1>1. frame_index \in Frames /\ current_image \in Images
    BY DEF IInv, TypeOK
<1>2. gpu[frame_index] = NoWork
          /\ images_in_flight[current_image] = frame_index
    BY DEF IInv, SafeInv, OpenInv
<1>3. ASSUME NEW f \in Frames, gpu[f].image = current_image PROVE FALSE
    <2>1. gpu[f] # NoWork
        BY <1>1, <1>3, NoneOfThem DEF NoWork
    <2>2. f = frame_index
        BY <1>2, <1>3, <2>1 DEF IInv, SafeInv, WorkInv
    <2> QED
        BY <1>2, <2>1, <2>2
<1> QED
    BY <1>2, <1>3 DEF Drawing

\* A submission owes its image one signal, and its frame one presentation.
LEMMA SubmitKeepsSignals ==
    ASSUME IInv, SignalInv, Submit PROVE SignalInv'
<1>1. /\ frame_index \in Frames /\ current_image \in Images
      /\ gpu \in [Frames -> Work \cup {NoWork}]
      /\ frame_open /\ ~ submitted /\ call = "none"
      /\ gpu[frame_index] = NoWork /\ ~ Drawing(current_image)
    BY OpenIsNotDrawn DEF IInv, TypeOK, Submit
<1>2. /\ gpu' = [gpu EXCEPT ![frame_index] =
                    [image |-> current_image, semaphore |-> current_image]]
      /\ submitted' = TRUE
      /\ UNCHANGED <<frame_index, current_image, frame_open, call,
                     image_available, slot_image, render_finished, presents>>
    BY DEF Submit, RenderFinished, caller, semaphores
<1>3. Queued(current_image) \in Nat
    BY QueuedIsNat DEF IInv
<1>4. \A j : Queued(j)' = Queued(j)
    BY <1>2 DEF Queued
<1>5. Waiting(current_image) = Queued(current_image)
          /\ Waiting(current_image)' = Queued(current_image) + 1
    BY <1>1, <1>2, <1>3, <1>4 DEF Waiting, One
<1>6. \A j : j # current_image => Waiting(j)' = Waiting(j)
    BY <1>2, <1>4 DEF Waiting, One
<1>7. Drawing(current_image)'
    BY <1>1, <1>2 DEF Drawing
<1>8. \A j \in Images \ {current_image} : Drawing(j)' <=> Drawing(j)
    BY <1>1, <1>2, NoneOfThem DEF Drawing, NoWork
<1>9. BalanceInv'
    <2>1. Signals(current_image)' = Signals(current_image) + 1
        BY <1>1, <1>2, <1>7 DEF Signals, One
    <2>2. \A j \in Images \ {current_image} : Signals(j)' = Signals(j)
        BY <1>2, <1>8 DEF Signals, One
    <2>3. Waiting(current_image)' = Signals(current_image)'
        BY <1>1, <1>5, <2>1 DEF SignalInv, BalanceInv
    <2> QED
        BY <1>2, <1>6, <2>2, <2>3 DEF SignalInv, BalanceInv
<1>10. PairInv'
    BY <1>1, <1>2 DEF SignalInv, PairInv
<1>11. TurnInv'
    <2>1. ASSUME NEW f \in Frames, gpu'[f] # NoWork,
                 image_available[f] = "signalled"
          PROVE  Waiting(gpu[f].image)' = 1
        <3>1. CASE f = frame_index
            <4>1. gpu'[f].image = current_image
                BY <1>1, <1>2, <3>1
            <4>2. Queued(current_image) = 0
                BY <1>1, <2>1, <3>1
                DEF SignalInv, TurnInv, Unsubmitted, PairInv
            <4>3. Waiting(current_image)' = 1
                BY <1>5, <4>2
            <4> QED
                BY <1>2, <4>1, <4>3 DEF Waiting, Queued
        <3>2. CASE f # frame_index
            <4>1. gpu'[f] = gpu[f]
                BY <1>1, <1>2, <3>2
            <4>2. gpu[f].image # current_image
                BY <1>1 DEF Drawing
            <4>3. Waiting(gpu[f].image) = 1
                BY <2>1, <4>1 DEF SignalInv, TurnInv
            <4> QED
                BY <1>2, <1>4, <4>1, <4>2, <4>3 DEF Waiting, One
        <3> QED
            BY <3>1, <3>2
    <2> QED
        BY <1>1, <1>2, <2>1 DEF TurnInv, Unsubmitted
<1> QED
    BY <1>9, <1>10, <1>11 DEF SignalInv

\* The presentation of a frame takes the place of the frame.
LEMMA PresentKeepsSignals ==
    ASSUME IInv, SignalInv, PresentSubmitted PROVE SignalInv'
<1>1. PICK e : e = [image |-> current_image, semaphore |-> current_image]
    OBVIOUS
<1>2. /\ current_image \in Images /\ e \in Work /\ e.image = current_image
      /\ e.semaphore = current_image
    BY <1>1 DEF IInv, TypeOK, Work
<1>3. /\ frame_open /\ submitted /\ call = "none" /\ call' = "none"
      /\ presents' = Append(presents, e)
      /\ frame_open' = FALSE
      /\ UNCHANGED <<current_image, gpu, image_available, slot_image,
                     render_finished>>
    BY <1>1 DEF PresentSubmitted, RenderFinished, CloseFrame, caller
<1>4. \A j : /\ Queued(j) \in Nat
             /\ Queued(j)' = Queued(j) + One(current_image = j)
    BY <1>2, <1>3, QueuedIsNat, QueuedMore DEF IInv
<1>5. \A j : Waiting(j)' = Waiting(j) /\ Signals(j)' = Signals(j)
    BY <1>3, <1>4 DEF Waiting, Signals, Drawing, One
<1>6. PairInv'
    <2>1. presents \in Seq(Work)
        BY DEF IInv, TypeOK, Work
    <2>2. \A n \in DOMAIN presents' : presents'[n].semaphore = presents'[n].image
        BY <1>2, <1>3, <2>1, AppendProperties DEF SignalInv, PairInv
    <2> QED
        BY <1>3, <2>2 DEF SignalInv, PairInv
<1>7. BalanceInv'
    BY <1>5 DEF SignalInv, BalanceInv
<1>8. TurnInv'
    BY <1>3, <1>5 DEF SignalInv, TurnInv, Unsubmitted
<1> QED
    BY <1>6, <1>7, <1>8 DEF SignalInv

\* Work finds the semaphore that it signals unsignalled.
LEMMA TurnMeansFree ==
    ASSUME IInv, SignalInv, NEW f \in Frames, gpu[f] # NoWork,
           image_available[f] = "signalled"
    PROVE  /\ gpu[f].image \in Images
           /\ gpu[f].semaphore = gpu[f].image
           /\ render_finished[gpu[f].image] = "free"
<1>1. gpu[f].image \in Images
    BY DEF IInv, TypeOK, Work
<1>2. Drawing(gpu[f].image)
    BY DEF Drawing
<1>3. Waiting(gpu[f].image) = 1
    BY DEF SignalInv, TurnInv
<1>4. render_finished[gpu[f].image] # "signalled"
    BY <1>1, <1>2, <1>3 DEF SignalInv, BalanceInv, Signals, One
<1> QED
    BY <1>1, <1>4 DEF SignalInv, PairInv, IInv, TypeOK

\* Work that ends turns the signal it owes into one that it has given.
LEMMA RunKeepsSignals ==
    ASSUME IInv, SignalInv, NEW f \in Frames, RunFrame(f) PROVE SignalInv'
<1>1. PICK i : i = gpu[f].image
    OBVIOUS
<1>2. /\ gpu[f] # NoWork /\ image_available[f] = "signalled"
      /\ gpu' = [gpu EXCEPT ![f] = NoWork]
      /\ image_available' = [image_available EXCEPT ![f] = "free"]
      /\ UNCHANGED <<frame_index, current_image, frame_open, submitted, call,
                     slot_image, presents>>
    BY DEF RunFrame, frame, caller
<1>3. i \in Images /\ gpu[f].semaphore = i /\ render_finished[i] = "free"
    BY <1>1, <1>2, TurnMeansFree
<1>4. /\ frame_index \in Frames
      /\ gpu \in [Frames -> Work \cup {NoWork}]
      /\ image_available \in [Frames -> {"free", "pending", "signalled"}]
      /\ render_finished \in [Images -> {"free", "signalled"}]
    BY DEF IInv, TypeOK
<1>5. render_finished' = [render_finished EXCEPT ![i] = "signalled"]
    BY <1>3 DEF RunFrame
<1>6. ASSUME NEW g \in Frames, gpu[g].image = i PROVE g = f
    BY <1>1, <1>2, <1>3, <1>6, NoneOfThem DEF IInv, SafeInv, WorkInv, NoWork
<1>7. \A j : Queued(j)' = Queued(j) /\ Waiting(j)' = Waiting(j)
    BY <1>2 DEF Queued, Waiting, One
<1>8. BalanceInv'
    <2>1. Drawing(i) /\ ~ Drawing(i)'
        BY <1>1, <1>2, <1>3, <1>4, <1>6, NoneOfThem DEF Drawing, NoWork
    <2>2. \A j \in Images \ {i} : Drawing(j)' <=> Drawing(j)
        BY <1>1, <1>2, <1>4, NoneOfThem DEF Drawing, NoWork
    <2>3. Signals(i)' = Signals(i)
        BY <1>3, <1>4, <1>5, <2>1 DEF Signals, One
    <2>4. \A j \in Images \ {i} : Signals(j)' = Signals(j)
        BY <1>4, <1>5, <2>2 DEF Signals, One
    <2> QED
        BY <1>7, <2>3, <2>4 DEF SignalInv, BalanceInv
<1>9. PairInv'
    BY <1>2, <1>4 DEF SignalInv, PairInv
<1>10. TurnInv'
    <2>1. ASSUME NEW g \in Frames, gpu'[g] # NoWork,
                 image_available'[g] = "signalled"
          PROVE  Waiting(gpu[g].image)' = 1
        BY <1>2, <1>4, <1>7, <2>1 DEF SignalInv, TurnInv, Waiting, Queued
    <2>2. image_available'[frame_index] = "signalled"
                => image_available[frame_index] = "signalled"
        BY <1>2, <1>4
    <2> QED
        BY <1>2, <1>7, <2>1, <2>2 DEF SignalInv, TurnInv, Unsubmitted
<1> QED
    BY <1>8, <1>9, <1>10 DEF SignalInv

\* A presentation that is displayed consumes the signal of its image, and work
\* that was waiting for it is the image's only work.
LEMMA DisplayKeepsSignals ==
    ASSUME IInv, SignalInv, Display PROVE SignalInv'
<1>1. PICK i : i = Head(presents).image
    OBVIOUS
<1>2. /\ presents # <<>> /\ presents \in Seq(Work)
      /\ Head(presents) \in Work /\ Tail(presents) \in Seq(Work)
      /\ Head(presents) = presents[1] /\ 1 \in DOMAIN presents
    <2>1. presents # <<>> /\ presents \in Seq(Work)
        BY DEF Display, IInv, TypeOK, Work
    <2>2. Len(presents) \in Nat /\ Len(presents) # 0
        BY <2>1, EmptySeq
    <2> QED
        BY <2>1, <2>2, HeadTailProperties
<1>3. i \in Images /\ Head(presents).semaphore = i
    BY <1>1, <1>2 DEF Work, SignalInv, PairInv
<1>4. /\ render_finished[i] = "signalled"
      /\ render_finished' = [render_finished EXCEPT ![i] = "free"]
      /\ image_available' = [f \in Frames |->
            IF image_available[f] = "pending" /\ slot_image[f] = i
            THEN "signalled" ELSE image_available[f]]
      /\ presents' = Tail(presents)
      /\ UNCHANGED <<frame_index, current_image, frame_open, submitted, call,
                     gpu, slot_image>>
    BY <1>1, <1>3 DEF Display, frame, caller
<1>5. /\ frame_index \in Frames
      /\ gpu \in [Frames -> Work \cup {NoWork}]
      /\ render_finished \in [Images -> {"free", "signalled"}]
      /\ slot_image \in [Frames -> Images]
    BY DEF IInv, TypeOK
<1>6. \A j : Queued(j) = Queued(j)' + One(j = i)
    BY <1>1, <1>2, <1>4, QueuedLess DEF IInv, One
<1>7. \A j : Queued(j) \in Nat /\ Queued(j)' \in Nat
    <2>1. \A j : Queued(j) \in Nat
        BY QueuedIsNat DEF IInv
    <2>2. \A j : Queued(j)' \in Nat
        BY <1>2, <1>4, PlacesFinite DEF Queued, Places
    <2> QED
        BY <2>1, <2>2
<1>8. \A j : Waiting(j) = Waiting(j)' + One(j = i)
    BY <1>4, <1>6, <1>7 DEF Waiting, One
<1>9. \A j : Drawing(j)' <=> Drawing(j)
    BY <1>4 DEF Drawing
<1>10. BalanceInv'
    <2>1. ASSUME NEW j \in Images PROVE Signals(j) = Signals(j)' + One(j = i)
        BY <1>3, <1>4, <1>5, <1>9 DEF Signals, One
    <2>2. ASSUME NEW j \in Images
          PROVE  Waiting(j) \in Nat /\ Waiting(j)' \in Nat /\ Signals(j)' \in Nat
        BY <1>7 DEF Waiting, Signals, One
    <2> QED
        BY <1>8, <2>1, <2>2 DEF SignalInv, BalanceInv, One
<1>11. PairInv'
    BY <1>2, <1>4, HeadTailProperties DEF SignalInv, PairInv
<1>12. Drawing(i) => Waiting(i) = 2 /\ Waiting(i)' = 1
    <2>1. Drawing(i) => Waiting(i) = 2
        BY <1>3, <1>4 DEF SignalInv, BalanceInv, Signals, One
    <2>2. Waiting(i)' \in Nat
        BY <1>7 DEF Waiting, One
    <2> QED
        BY <1>8, <2>1, <2>2 DEF One
<1>13. ASSUME NEW f \in Frames, gpu[f] # NoWork, image_available'[f] = "signalled"
       PROVE  Waiting(gpu[f].image)' = 1
    <2>1. CASE gpu[f].image = i
        <3>1. Waiting(i)' = 1
            BY <1>12, <2>1 DEF Drawing
        <3> QED
            BY <1>4, <2>1, <3>1 DEF Waiting, Queued
    <2>2. CASE gpu[f].image # i
        <3>1. slot_image[f] # i
            BY <1>13, <2>2 DEF SignalInv, PairInv
        <3>2. Waiting(gpu[f].image) = 1
            BY <1>4, <1>13, <3>1 DEF SignalInv, TurnInv
        <3> QED
            <4>1. PICK j : j = gpu[f].image
                OBVIOUS
            <4>2. Waiting(j) = Waiting(j)'
                BY <1>4, <1>7, <1>8, <2>2, <4>1 DEF Waiting, One
            <4> QED
                BY <1>4, <3>2, <4>1, <4>2 DEF Waiting, Queued
    <2> QED
        BY <2>1, <2>2
<1>14. ASSUME Unsubmitted, image_available'[frame_index] = "signalled"
       PROVE  Queued(slot_image[frame_index])' = 0
    <2>1. PICK j : j = slot_image[frame_index]
        OBVIOUS
    <2> SUFFICES Queued(j)' = 0
        BY <1>4, <2>1 DEF Queued
    <2>2. CASE image_available[frame_index] = "signalled"
        <3>1. Queued(j) = 0
            BY <1>14, <2>1, <2>2 DEF SignalInv, TurnInv
        <3> QED
            BY <1>6, <1>7, <3>1 DEF One
    <2>3. CASE image_available[frame_index] # "signalled"
        <3>1. j = i
            BY <1>4, <1>5, <1>14, <2>1, <2>3
        <3>2. CASE call = "wait_image"
            <4>1. Queued(i) \in {0, 1}
                BY <2>1, <3>1, <3>2 DEF SignalInv, TurnInv
            <4> QED
                BY <1>6, <1>7, <3>1, <4>1 DEF One
        <3>3. CASE frame_open /\ ~submitted
            <4>1. current_image = i /\ ~ Drawing(i)
                BY <2>1, <3>1, <3>3, OpenIsNotDrawn DEF SignalInv, PairInv
            <4>2. Waiting(i) = 1
                BY <1>3, <1>4, <4>1 DEF SignalInv, BalanceInv, Signals, One
            <4>3. Queued(i) = 1
                BY <1>7, <3>3, <4>2 DEF Waiting, One
            <4> QED
                BY <1>6, <1>7, <3>1, <4>3 DEF One
        <3> QED
            BY <1>14, <3>2, <3>3 DEF Unsubmitted
    <2> QED
        BY <2>2, <2>3
<1>15. TurnInv'
    <2>1. call = "wait_image" => Queued(slot_image[frame_index])' \in {0, 1}
        <3>1. PICK j : j = slot_image[frame_index]
            OBVIOUS
        <3>2. call = "wait_image" => Queued(j) \in {0, 1}
            BY <3>1 DEF SignalInv, TurnInv
        <3>3. call = "wait_image" => Queued(j)' \in {0, 1}
            BY <1>6, <1>7, <3>2 DEF One
        <3> QED
            BY <1>4, <3>1, <3>3 DEF Queued
    <2> QED
        BY <1>4, <1>13, <1>14, <2>1 DEF TurnInv, Unsubmitted
<1> QED
    BY <1>10, <1>11, <1>15 DEF SignalInv

\* An abandoned frame, and a swapchain that is recreated.
LEMMA AbandonKeepsSignals ==
    ASSUME IInv, SignalInv, AbandonSubmitted \/ AbandonAcquired
    PROVE  SignalInv'
<1>1. /\ Idle /\ UNCHANGED <<gpu, presents>>
      /\ frame_open' = FALSE /\ call' # "wait_image"
    BY DEF AbandonSubmitted, AbandonAcquired, CloseAbandoned, CloseFrame
<1>2. render_finished \in [Images -> {"free", "signalled"}]
    BY DEF IInv, TypeOK
<1>3. CASE AbandonSubmitted
    <2>1. \A i \in Images : render_finished'[i] # "signalled"
        BY <1>3 DEF AbandonSubmitted, CleanupSwapchain, ResetImages
    <2> QED
        BY <1>1, <2>1, SignalsEmptied
<1>4. CASE AbandonAcquired
    <2>1. \A i \in Images : render_finished[i] # "signalled"
        BY <1>1, <1>4, IdleSignals DEF AbandonAcquired
    <2>2. \A i \in Images : render_finished'[i] # "signalled"
        BY <1>2, <1>4, <2>1
        DEF AbandonAcquired, CleanupSwapchain, KeepSwapchain, ResetImages
    <2> QED
        BY <1>1, <2>2, SignalsEmptied
<1> QED
    BY <1>3, <1>4

\* A resize waits for the device and makes new semaphores.
LEMMA ResizeKeepsSignals ==
    ASSUME IInv, SignalInv, NEW e \in Extents,
           Resize(e) \/ ResizeFailsAtRebuild(e)
    PROVE  SignalInv'
<1>1. /\ Idle /\ UNCHANGED <<gpu, presents>> /\ ~ frame_open
      /\ frame_open' = FALSE /\ call' # "wait_image"
    BY DEF Resize, ResizeFailsAtRebuild, NeedsRecreate, CanResize, caller, IInv,
           TypeOK
<1>2. \A i \in Images : render_finished[i] # "signalled"
    BY <1>1, IdleSignals
<1>3. \A i \in Images : render_finished'[i] # "signalled"
    BY <1>2 DEF Resize, ResizeFailsAtRebuild, ResetImages
<1> QED
    BY <1>1, <1>3, SignalsEmptied

\* abandon_frame gives the semaphore of the slot up, and the frame cannot be
\* submitted any more.
LEMMA LateKeepsSignals ==
    ASSUME IInv, SignalInv, AbandonFailsLate PROVE SignalInv'
<1>1. /\ frame_open /\ ~ submitted /\ frame_index \in Frames
      /\ call \in {"none", "give_up"} /\ call' # "wait_image"
      /\ image_available \in [Frames -> {"free", "pending", "signalled"}]
      /\ image_available' = [image_available EXCEPT ![frame_index] = "free"]
      /\ UNCHANGED <<frame_index, current_image, frame_open, submitted, gpu,
                     slot_image, render_finished, presents>>
    BY DEF AbandonFailsLate, IInv, TypeOK
<1>2. \A j : /\ Queued(j)' = Queued(j)
             /\ Waiting(j)' = Waiting(j)
             /\ Signals(j)' = Signals(j)
    BY <1>1 DEF Queued, Waiting, Signals, Drawing
<1>3. PairInv' /\ BalanceInv'
    BY <1>1, <1>2 DEF SignalInv, PairInv, BalanceInv
<1>4. TurnInv'
    <2>1. ASSUME NEW g \in Frames, gpu[g] # NoWork,
                 image_available'[g] = "signalled"
          PROVE  Waiting(gpu[g].image)' = 1
        BY <1>1, <1>2, <2>1 DEF SignalInv, TurnInv, Waiting, Queued
    <2> QED
        BY <1>1, <2>1 DEF TurnInv, Unsubmitted
<1> QED
    BY <1>3, <1>4 DEF SignalInv

\* Every step keeps the invariant.
LEMMA SignalNext == IInv /\ SignalInv /\ [Next]_vars => SignalInv'
<1> SUFFICES ASSUME IInv, SignalInv, [Next]_vars PROVE SignalInv'
    OBVIOUS
<1>1. CASE StartAcquire \/ AcquireStep
    BY <1>1, CallerKeepsSignals, NextImageKeepsSignals, OpenFrameKeepsSignals
    DEF AcquireStep, AcquireGoesOn
<1>2. CASE DrawStep
    BY <1>2, CallerKeepsSignals, SubmitKeepsSignals, PresentKeepsSignals
    DEF DrawStep
<1>3. CASE AbandonStep
    BY <1>3, CallerKeepsSignals, AbandonKeepsSignals, LateKeepsSignals
    DEF AbandonStep
<1>4. CASE ResizeStep
    BY <1>4, CallerKeepsSignals, ResizeKeepsSignals DEF ResizeStep
<1>5. CASE GpuStep
    BY <1>5, RunKeepsSignals, DisplayKeepsSignals DEF GpuStep
<1>6. CASE WaiterCompletes \/ WaiterPollsDestroyed \/ UNCHANGED vars
    BY <1>6, CallerKeepsSignals
<1> QED
    BY <1>1, <1>2, <1>3, <1>4, <1>5, <1>6 DEF Next

\* One semaphore for every image: work never signals a semaphore whose signal no
\* presentation has consumed yet.
THEOREM SignalsAreConsumed == Spec => []SignalsUnsignalled
<1>1. Init => SignalInv
    BY SignalInit
<1>2. IInv /\ SignalInv /\ [Next]_vars => SignalInv'
    BY SignalNext
<1>3. IInv /\ SignalInv => SignalsUnsignalled
    BY TurnMeansFree DEF SignalsUnsignalled
<1> QED
    BY <1>1, <1>2, <1>3, Invariant, PTL DEF Spec

-----------------------------------------------------------------------------
(* Recovery *)

\* A semaphore is used up by work, or it is the one of the frame that is being
\* acquired or drawn; that frame's image was acquired and not given back.
CleanInv ==
    /\ \A f \in Frames : image_available[f] # "free" =>
            gpu[f] # NoWork \/ (f = frame_index /\ Unsubmitted)
    /\ frame_open => current_image \in acquired
    /\ call = "wait_image" => slot_image[frame_index] \in acquired

\* Every step keeps that, but the failures after which an acquired image is
\* forgotten and those of an abandoned frame that was given back.
LEMMA CleanNext ==
    ASSUME IInv, CleanInv, [Next]_vars,
           ~ (call = "wait_image" /\ AcquireFails), ~ AbandonFailsLate
    PROVE  CleanInv'
<1> USE DEF surface, frame, caller, semaphores, watcher
<1>0. /\ frame_index \in Frames /\ current_image \in Images
      /\ gpu \in [Frames -> Work \cup {NoWork}]
      /\ image_available \in [Frames -> {"free", "pending", "signalled"}]
      /\ slot_image \in [Frames -> Images]
      /\ frame_open \in BOOLEAN /\ submitted \in BOOLEAN
    BY DEF IInv, TypeOK
<1>1. CASE \/ StartAcquire \/ WaitFrame \/ OutOfDate \/ AcquireFails
           \/ BeginRecording \/ BeginFails \/ FinishFrameRecording
           \/ ResetForGraph \/ AbandonFails \/ ResizeToZero
           \/ WaiterCompletes \/ WaiterPollsDestroyed
           \/ \E e \in Extents : ResizeSkipped(e) \/ ResizeFailsAtWait(e)
           \/ UNCHANGED vars
    <2>1. UNCHANGED <<frame_index, current_image, frame_open, submitted, gpu,
                      image_available, slot_image, acquired>>
        BY <1>1 DEF StartAcquire, WaitFrame, OutOfDate, AcquireFails,
           BeginRecording, BeginFails, FinishFrameRecording, ResetForGraph,
           AbandonFails, ResizeToZero, WaiterCompletes, WaiterPollsDestroyed,
           ResizeSkipped, ResizeFailsAtWait, vars
    <2>2. call' = "wait_image" <=> call = "wait_image"
        BY <1>1 DEF StartAcquire, WaitFrame, OutOfDate, AcquireFails,
           BeginRecording, BeginFails, FinishFrameRecording, ResetForGraph,
           AbandonFails, ResizeToZero, WaiterCompletes, WaiterPollsDestroyed,
           ResizeSkipped, ResizeFailsAtWait, NeedsRecreate, CanResize, vars
    <2> QED
        BY <2>1, <2>2 DEF CleanInv, Unsubmitted
<1>2. ASSUME NEW i \in Images, NextImage(i) PROVE CleanInv'
    BY <1>0, <1>2 DEF NextImage, CleanInv, Unsubmitted
<1>3. CASE OpenFrame
    BY <1>0, <1>3 DEF OpenFrame, Returned, CleanInv, Unsubmitted
<1>4. CASE Submit
    <2>1. gpu'[frame_index] # NoWork
        BY <1>0, <1>4, NoneOfThem DEF Submit, NoWork
    <2>2. \A f \in Frames \ {frame_index} : gpu'[f] = gpu[f]
        BY <1>0, <1>4 DEF Submit
    <2> QED
        BY <1>4, <2>1, <2>2 DEF Submit, CleanInv, Unsubmitted
<1>5. CASE PresentSubmitted
    BY <1>0, <1>5 DEF PresentSubmitted, CloseFrame, CleanInv, Unsubmitted
<1>6. CASE AbandonSubmitted \/ AbandonAcquired
    <2>1. /\ frame_open' = FALSE /\ call' = "none"
          /\ image_available' = [image_available EXCEPT ![frame_index] = "free"]
          /\ UNCHANGED <<frame_index, gpu>>
        BY <1>6 DEF AbandonSubmitted, AbandonAcquired, ReplaceFrameSync,
           CloseAbandoned, CloseFrame
    <2> QED
        BY <1>0, <2>1 DEF CleanInv, Unsubmitted
<1>7. ASSUME NEW e \in Extents, Resize(e) \/ ResizeFailsAtRebuild(e)
      PROVE  CleanInv'
    <2>1. /\ ~ frame_open /\ call = "none"
          /\ UNCHANGED <<frame_index, frame_open, submitted, call, gpu,
                         image_available>>
        BY <1>7 DEF Resize, ResizeFailsAtRebuild, NeedsRecreate, CanResize
    <2> QED
        BY <2>1 DEF CleanInv, Unsubmitted
<1>8. ASSUME NEW f \in Frames, RunFrame(f) PROVE CleanInv'
    BY <1>0, <1>8 DEF RunFrame, CleanInv, Unsubmitted
<1>9. CASE Display
    BY <1>0, <1>9 DEF Display, CleanInv, Unsubmitted
<1> QED
    BY <1>1, <1>2, <1>3, <1>4, <1>5, <1>6, <1>7, <1>8, <1>9
    DEF Next, AcquireStep, AcquireGoesOn, DrawStep, AbandonStep, ResizeStep,
        GpuStep

\* What the invariants say of the next acquisition.
LEMMA CleanAcquires == IInv /\ CleanInv => CleanAcquisition
<1> SUFFICES ASSUME IInv, CleanInv PROVE CleanAcquisition
    OBVIOUS
<1>1. frame_index \in Frames
    BY DEF IInv, TypeOK
<1>2. AcquireIntoFreeSemaphore
    BY <1>1 DEF AcquireIntoFreeSemaphore, IInv, SafeInv, OpenInv, Acquiring,
       CleanInv, Unsubmitted
<1> QED
    BY <1>2 DEF CleanAcquisition, OpenFrameOwnsImage, CleanInv

\* If those failures do not happen, an acquisition always finds its semaphore
\* free and an open frame its image acquired, whatever else fails.
THEOREM AcquisitionsAreClean ==
    ASSUME Faults \cap {"image_wait", "late"} = {}
    PROVE  Spec => []CleanAcquisition
<1>1. Init => CleanInv
    BY DEF Init, CleanInv
<1>2. IInv /\ CleanInv /\ [Next]_vars => CleanInv'
    <2>1. ~ (call = "wait_image" /\ AcquireFails) /\ ~ AbandonFailsLate
        BY DEF AcquireFails, AbandonFailsLate
    <2> QED
        BY <2>1, CleanNext
<1> QED
    BY <1>1, <1>2, CleanAcquires, Invariant, PTL DEF Spec

\* The same when they may happen and do not: after every other failure, what the
\* presenter acquires next is clean.
THEOREM RecoveryIsClean == FramesSpec => []RecoversCleanly
<1> DEFINE RecoveryInv == IInv /\ (focus = "recovery" => CleanInv)
<1>1. FramesInit => RecoveryInv
    BY TypeInit, SafeInit DEF FramesInit, IInv, Init, CleanInv
<1>2. RecoveryInv /\ [FramesNext]_<<focus, vars, frameRingVars>> => RecoveryInv'
    <2> SUFFICES ASSUME RecoveryInv, [FramesNext]_<<focus, vars, frameRingVars>>
                 PROVE  RecoveryInv'
        OBVIOUS
    <2>1. [Next]_vars /\ UNCHANGED focus
        BY DEF FramesNext
    <2>2. IInv'
        BY <2>1, TypeNext, SafeNext DEF IInv
    <2>3. ASSUME focus = "recovery" PROVE CleanInv'
        <3>1. UNCHANGED vars \/ ~ Unrecoverable
            BY <2>3 DEF FramesNext
        <3>2. CASE UNCHANGED vars
            BY <2>3, <3>2 DEF CleanInv, Unsubmitted, vars, frame, caller,
               semaphores
        <3>3. CASE ~ Unrecoverable
            BY <2>1, <2>3, <3>3, CleanNext DEF Unrecoverable
        <3> QED
            BY <3>1, <3>2, <3>3
    <2> QED
        BY <2>1, <2>2, <2>3
<1>3. RecoveryInv => RecoversCleanly
    BY CleanAcquires DEF RecoversCleanly
<1> HIDE DEF RecoveryInv
<1> QED
    BY <1>1, <1>2, <1>3, PTL DEF FramesSpec

-----------------------------------------------------------------------------
(* FrameRing, for any number of slots, swapchains of any sizes that have a *)
(* largest, and any number of frames: the inductive invariant              *)

Flights == [slot : Slots, image : RingImages, value : Nat]

RingTypes ==
    /\ \E n \in ImageCounts : chain \in [1 .. n -> {"free", "taken", "queued"}]
    /\ nextValue \in Nat
    /\ slotValue \in [Slots -> Nat]
    /\ acquireSem \in [Slots -> {"clear", "signalled", "waited"}]
    /\ finishedSem \in [RingImages -> {"clear", "pending"}]
    /\ ringCounter \in Nat
    /\ flight \in Seq(Flights)
    /\ callerAt \in {"wait", "acquire", "submit", "present", "recreate", "resize", "reset"}
    /\ slot \in Slots
    /\ value \in Nat
    /\ callerAt \in {"submit", "present"} => image \in RingImages

\* Every value that is given out is above those before it, and a slot's gate is
\* not below the values of its submissions; a recreation finds none.
ValueInv ==
    /\ RingRises
    /\ \A k \in DOMAIN flight :
        flight[k].value <= slotValue[flight[k].slot] /\ flight[k].value <= nextValue
    /\ ringCounter <= nextValue
    /\ callerAt = "submit" => value <= nextValue
    /\ callerAt \in {"resize", "reset"} => flight = <<>>

\* A slot's semaphore is in use by its submission, or by the one to come; an
\* image whose semaphore will be signalled or was is not given out again.
RingPairInv ==
    /\ \A s \in Slots \ spoiled : acquireSem[s] # "clear" =>
        InFlight(s) \/ (callerAt = "submit" /\ slot = s)
    /\ callerAt = "submit" => image \in DOMAIN chain /\ chain[image] = "taken"
    /\ callerAt # "resize" =>
        \A i \in RingImages : finishedSem[i] = "pending" =>
            /\ i \in DOMAIN chain /\ chain[i] # "free"
            /\ callerAt = "submit" => image # i

RingIInv == RingTypes /\ ValueInv /\ SlotsIdle /\ GatesOpen /\ RingPairInv

-----------------------------------------------------------------------------
(* Helpers *)

\* The largest swapchain bounds all.
LEMMA ImagesBounded == \A n \in ImageCounts : 1 .. n \subseteq RingImages
<1> DEFINE Largest(n) == n \in ImageCounts /\ \A m \in ImageCounts : m <= n
           most == CHOOSE n \in ImageCounts : \A m \in ImageCounts : m <= n
<1>1. most \in ImageCounts /\ \A m \in ImageCounts : m <= most
    BY RingAssumption
<1>2. RingImages = 1 .. most
    BY DEF RingImages
<1>3. most \in Nat
    BY <1>1, RingAssumption
<1> HIDE DEF most
<1>4. ASSUME NEW n \in ImageCounts PROVE 1 .. n \subseteq RingImages
    <2>1. n \in Nat /\ n <= most
        BY <1>1, RingAssumption
    <2> QED BY <1>2, <1>3, <2>1
<1> QED BY <1>4

\* The slots come round.
LEMMA NextSlot == \A s \in Slots : (s % RingSlots) + 1 \in Slots
    BY RingAssumption DEF Slots

\* Steps that touch nothing but where the caller is and the spoiled slots.
Waits ==
    WaitSlot \/ AcquireNothing \/ RingAcquireFails \/ SubmitFrameFails \/ PresentFails

\* Every step is one of these.
LEMMA RingSteps ==
    ASSUME RingNext
    PROVE  \/ Waits \/ SubmitFrame \/ PresentImage \/ RecreateChain \/ ResizeImages
           \/ ResetTracking \/ FinishFlight
           \/ \E i \in DOMAIN chain : AcquireImage(i) \/ ShowImage(i)
    BY DEF RingNext, Waits

\* What is in flight is made of slots, images and values.
LEMMA InTheAir ==
    ASSUME RingTypes
    PROVE  \A k \in DOMAIN flight :
            /\ k \in Nat \ {0} /\ k <= Len(flight)
            /\ flight[k].slot \in Slots /\ flight[k].value \in Nat
<1> SUFFICES ASSUME NEW k \in DOMAIN flight
             PROVE  /\ k \in Nat \ {0} /\ k <= Len(flight)
                    /\ flight[k].slot \in Slots /\ flight[k].value \in Nat
    OBVIOUS
<1>1. flight \in Seq(Flights) /\ DOMAIN flight = 1 .. Len(flight) /\ Len(flight) \in Nat
    BY LenProperties DEF RingTypes
<1>2. flight[k] \in Flights
    BY <1>1, ElementOfSeq
<1> QED BY <1>1, <1>2 DEF Flights

\* What is in flight after a submission: what was, and the frame.
LEMMA Submitted ==
    ASSUME RingTypes, SubmitFrame
    PROVE  LET flown == [slot |-> slot, image |-> image, value |-> value]
           IN  /\ flown \in Flights
               /\ flight' \in Seq(Flights)
               /\ DOMAIN flight' = 1 .. Len(flight) + 1
               /\ \A k \in DOMAIN flight : flight'[k] = flight[k]
               /\ flight'[Len(flight) + 1] = flown
<1>1. [slot |-> slot, image |-> image, value |-> value] \in Flights
    BY DEF RingTypes, SubmitFrame, Goes, Flights
<1> QED
    BY <1>1, AppendProperties DEF RingTypes, SubmitFrame

\* What is in flight after the first is finished: the others.
LEMMA Finished ==
    ASSUME RingTypes, FinishFlight
    PROVE  /\ Head(flight) = flight[1] /\ Head(flight) \in Flights
           /\ flight' \in Seq(Flights)
           /\ 1 \in DOMAIN flight
           /\ DOMAIN flight' = 1 .. Len(flight) - 1
           /\ \A k \in DOMAIN flight' : k + 1 \in DOMAIN flight /\ flight'[k] = flight[k + 1]
           /\ \A k \in DOMAIN flight \ {1} :
                k - 1 \in DOMAIN flight' /\ flight'[k - 1] = flight[k]
<1>1. flight \in Seq(Flights) /\ flight # <<>> /\ flight' = Tail(flight)
    BY DEF RingTypes, FinishFlight
<1>2. Head(flight) \in Flights /\ Head(flight) = flight[1]
    BY <1>1, HeadTailProperties
<1>3. Tail(flight) \in Seq(Flights) /\ Len(Tail(flight)) = Len(flight) - 1
      /\ \A k \in 1 .. Len(Tail(flight)) : Tail(flight)[k] = flight[k + 1]
    BY <1>1, HeadTailProperties
<1>4. Len(flight) \in Nat /\ Len(flight) > 0 /\ DOMAIN flight = 1 .. Len(flight)
      /\ DOMAIN flight' = 1 .. Len(flight')
    BY <1>1, <1>3, LenProperties, EmptySeq
<1> QED BY <1>1, <1>2, <1>3, <1>4

-----------------------------------------------------------------------------
(* The steps *)

LEMMA RingTypeStep ==
    ASSUME RingTypes, RingNext
    PROVE  RingTypes'
<1> USE DEF Goes, NextRingFrame, ringVars, semVars, gpuRing, callerVars
<1>1. CASE Waits
    BY <1>1, NextSlot DEF RingTypes, Waits, WaitSlot, AcquireNothing, RingAcquireFails,
                          SubmitFrameFails, PresentFails
<1>2. CASE SubmitFrame
    BY <1>2, Submitted DEF RingTypes, SubmitFrame, FinishedOf, Marked
<1>3. CASE PresentImage
    BY <1>3, NextSlot DEF RingTypes, PresentImage
<1>4. CASE RecreateChain
    <2>1. PICK n \in ImageCounts : chain' = [i \in 1 .. n |-> "free"]
        BY <1>4 DEF RecreateChain
    <2>2. chain' \in [1 .. n -> {"free", "taken", "queued"}]
        BY <2>1
    <2> QED BY <1>4, <2>2 DEF RingTypes, RecreateChain
<1>5. CASE ResizeImages
    BY <1>5 DEF RingTypes, ResizeImages
<1>6. CASE ResetTracking
    BY <1>6 DEF RingTypes, ResetTracking
<1>7. CASE FinishFlight
    BY <1>7, Finished DEF RingTypes, FinishFlight, Flights
<1>8. ASSUME NEW i \in DOMAIN chain, AcquireImage(i)
      PROVE  RingTypes'
    BY <1>8, NextSlot, ImagesBounded DEF RingTypes, AcquireImage
<1>9. ASSUME NEW i \in DOMAIN chain, ShowImage(i)
      PROVE  RingTypes'
    BY <1>9, ImagesBounded DEF RingTypes, ShowImage
<1> QED BY RingSteps, <1>1, <1>2, <1>3, <1>4, <1>5, <1>6, <1>7, <1>8, <1>9

\* What the values and the gates say is not disturbed by a step that leaves
\* them and does not come to a submission.
LEMMA ValuesKept ==
    ASSUME ValueInv, GatesOpen,
           UNCHANGED <<nextValue, slotValue, flight, ringCounter>>,
           callerAt' = "submit" => callerAt = "submit" /\ UNCHANGED value,
           callerAt' \in {"resize", "reset"} => flight = <<>>
    PROVE  ValueInv' /\ GatesOpen'
    BY DEF ValueInv, RingRises, GatesOpen

LEMMA ValueStep ==
    ASSUME RingTypes, ValueInv, GatesOpen, RingNext
    PROVE  ValueInv' /\ GatesOpen'
<1> USE DEF Goes, NextRingFrame, ringVars, semVars, gpuRing, callerVars
<1>1. CASE Waits
    BY <1>1, ValuesKept DEF Waits, WaitSlot, AcquireNothing, RingAcquireFails,
                            SubmitFrameFails, PresentFails
<1>2. CASE SubmitFrame
    <2>1. \A k \in DOMAIN flight' :
            \/ k \in DOMAIN flight /\ k <= Len(flight) /\ flight'[k] = flight[k]
            \/ k = Len(flight) + 1 /\ flight'[k].value = value /\ flight'[k].slot = slot
        BY <1>2, Submitted, LenProperties DEF RingTypes
    <2>2. Len(flight) + 1 \in DOMAIN flight' /\ flight'[Len(flight) + 1].value = value
        BY <1>2, Submitted, LenProperties DEF RingTypes
    <2>3. /\ slotValue' = [slotValue EXCEPT ![slot] = value]
          /\ ringCounter' = ringCounter /\ nextValue' = nextValue
          /\ callerAt = "submit" /\ callerAt' = "present"
        BY <1>2 DEF SubmitFrame, Marked
    <2>4. \A k \in DOMAIN flight :
            flight[k].value \in Nat /\ flight[k].slot \in Slots /\ k \in Nat
        BY InTheAir DEF RingTypes
    <2>5. RingRises'
        <3>1. \A k \in DOMAIN flight' : flight'[k].value > ringCounter'
            BY <2>1, <2>3 DEF ValueInv, RingRises
        <3>2. \A j, k \in DOMAIN flight' : j < k => flight'[j].value < flight'[k].value
            <4> SUFFICES ASSUME NEW j \in DOMAIN flight', NEW k \in DOMAIN flight', j < k
                         PROVE  flight'[j].value < flight'[k].value
                OBVIOUS
            <4>1. Len(flight) \in Nat
                BY LenProperties DEF RingTypes
            <4>2. j \in DOMAIN flight /\ flight'[j] = flight[j]
                BY <2>1, <2>4, <4>1
            <4>3. CASE k \in DOMAIN flight
                <5>1. flight'[k] = flight[k]
                    BY <2>1, <2>4, <4>1, <4>3
                <5> QED BY <4>2, <4>3, <5>1 DEF ValueInv, RingRises
            <4>4. CASE k \notin DOMAIN flight
                BY <2>1, <2>3, <4>2, <4>4 DEF ValueInv, RingRises
            <4> QED BY <4>3, <4>4
        <3> QED BY <3>1, <3>2, <2>3 DEF RingRises
    <2>6. \A k \in DOMAIN flight' :
            flight'[k].value <= slotValue'[flight'[k].slot] /\ flight'[k].value <= nextValue'
        <3> SUFFICES ASSUME NEW k \in DOMAIN flight'
                     PROVE  /\ flight'[k].value <= slotValue'[flight'[k].slot]
                            /\ flight'[k].value <= nextValue'
            OBVIOUS
        <3>1. slot \in Slots /\ value \in Nat /\ nextValue \in Nat /\ value <= nextValue
              /\ slotValue \in [Slots -> Nat]
            BY <2>3 DEF ValueInv, RingTypes
        <3>2. CASE k \in DOMAIN flight /\ flight'[k] = flight[k]
            <4>1. flight[k].value < value /\ flight[k].value <= nextValue
                  /\ flight[k].value <= slotValue[flight[k].slot]
                BY <2>3, <3>2 DEF ValueInv, RingRises
            <4> QED BY <2>3, <2>4, <3>1, <3>2, <4>1
        <3>3. CASE flight'[k].value = value /\ flight'[k].slot = slot
            BY <2>3, <3>1, <3>3
        <3> QED BY <2>1, <3>2, <3>3
    <2>7. GatesOpen'
        <3> SUFFICES ASSUME NEW s \in Slots, slotValue'[s] > ringCounter
                     PROVE  \E k \in DOMAIN flight' : flight'[k].value >= slotValue'[s]
            BY <2>3 DEF GatesOpen
        <3>1. CASE s = slot
            BY <2>2, <2>3, <3>1 DEF RingTypes
        <3>2. CASE s # slot
            <4>1. PICK k \in DOMAIN flight : flight[k].value >= slotValue[s]
                BY <2>3, <3>2 DEF GatesOpen, RingTypes
            <4>2. k \in DOMAIN flight' /\ flight'[k] = flight[k]
                BY <1>2, Submitted, LenProperties DEF RingTypes
            <4> QED BY <2>3, <3>2, <4>1, <4>2 DEF RingTypes
        <3> QED BY <3>1, <3>2
    <2> QED BY <2>3, <2>5, <2>6, <2>7 DEF ValueInv
<1>3. CASE PresentImage
    BY <1>3, ValuesKept DEF PresentImage
<1>4. CASE RecreateChain
    BY <1>4, ValuesKept DEF RecreateChain
<1>5. CASE ResizeImages
    BY <1>5, ValuesKept DEF ResizeImages, ValueInv
<1>6. CASE ResetTracking
    <2>1. flight = <<>> /\ flight' = flight
        BY <1>6 DEF ResetTracking, ValueInv
    <2>2. DOMAIN flight = {}
        BY <2>1
    <2> QED BY <1>6, <2>1, <2>2 DEF ResetTracking, ValueInv, RingRises, GatesOpen, RingTypes
<1>7. CASE FinishFlight
    <2>1. /\ ringCounter' = flight[1].value /\ 1 \in DOMAIN flight
          /\ UNCHANGED <<nextValue, slotValue, callerAt, value>>
        BY <1>7, Finished DEF FinishFlight
    <2>2. \A k \in DOMAIN flight :
            flight[k].value \in Nat /\ flight[k].slot \in Slots /\ k \in Nat \ {0}
        BY InTheAir DEF RingTypes
    <2>3. \A k \in DOMAIN flight' : k + 1 \in DOMAIN flight /\ flight'[k] = flight[k + 1]
                                    /\ k \in Nat \ {0}
        BY <1>7, Finished, LenProperties DEF RingTypes
    <2>4. RingRises'
        BY <2>1, <2>2, <2>3 DEF ValueInv, RingRises
    <2>5. GatesOpen'
        <3> SUFFICES ASSUME NEW s \in Slots, slotValue[s] > flight[1].value
                     PROVE  \E k \in DOMAIN flight' : flight'[k].value >= slotValue[s]
            BY <2>1 DEF GatesOpen
        <3>1. flight[1].value > ringCounter /\ flight[1].value \in Nat
              /\ slotValue[s] \in Nat /\ ringCounter \in Nat
            BY <2>1, <2>2 DEF ValueInv, RingRises, RingTypes
        <3>2. PICK k \in DOMAIN flight : flight[k].value >= slotValue[s]
            BY <3>1 DEF GatesOpen
        <3>3. k # 1
            BY <2>2, <3>1, <3>2
        <3>4. k - 1 \in DOMAIN flight' /\ flight'[k - 1] = flight[k]
            BY <1>7, <3>3, Finished
        <3> QED BY <3>2, <3>4
    <2>6. callerAt \in {"resize", "reset"} => flight = <<>>
        BY DEF ValueInv
    <2>7. callerAt \notin {"resize", "reset"}
        BY <1>7, <2>6 DEF FinishFlight
    <2>8. \A k \in DOMAIN flight' :
            flight'[k].value <= slotValue'[flight'[k].slot] /\ flight'[k].value <= nextValue'
        BY <2>1, <2>3 DEF ValueInv
    <2> QED BY <2>1, <2>4, <2>5, <2>7, <2>8 DEF ValueInv
<1>8. ASSUME NEW i \in DOMAIN chain, AcquireImage(i)
      PROVE  ValueInv' /\ GatesOpen'
    <2>1. \A k \in DOMAIN flight : flight[k].value \in Nat
        BY InTheAir DEF RingTypes
    <2>2. /\ UNCHANGED <<slotValue, flight, ringCounter>> /\ nextValue' = nextValue + 1
          /\ callerAt' = "submit" => value' = nextValue + 1
          /\ callerAt' \in {"submit", "wait"}
        BY <1>8 DEF AcquireImage
    <2>3. nextValue \in Nat /\ ringCounter \in Nat
        BY DEF RingTypes
    <2>4. GatesOpen'
        BY <2>2 DEF GatesOpen
    <2> QED BY <2>1, <2>2, <2>3, <2>4 DEF ValueInv, RingRises
<1>9. ASSUME NEW i \in DOMAIN chain, ShowImage(i)
      PROVE  ValueInv' /\ GatesOpen'
    BY <1>9, ValuesKept DEF ShowImage, ValueInv
<1> QED BY RingSteps, <1>1, <1>2, <1>3, <1>4, <1>5, <1>6, <1>7, <1>8, <1>9

\* The wait for the slot's gate finds its submission finished.
LEMMA IdleStep ==
    ASSUME RingTypes, ValueInv, SlotsIdle, RingNext
    PROVE  SlotsIdle'
<1> USE DEF Goes, NextRingFrame, ringVars, semVars, gpuRing, callerVars
<1>1. CASE callerAt' \notin {"acquire", "submit"}
    BY <1>1 DEF SlotsIdle
<1>2. CASE WaitSlot
    <2> SUFFICES ASSUME NEW k \in DOMAIN flight, flight[k].slot = slot
                 PROVE  FALSE
        BY <1>2 DEF WaitSlot, SlotsIdle, InFlight
    <2>1. /\ flight[k].value \in Nat /\ slotValue[slot] \in Nat /\ ringCounter \in Nat
        BY InTheAir DEF RingTypes
    <2>2. flight[k].value > ringCounter /\ flight[k].value <= slotValue[slot]
        BY DEF ValueInv, RingRises
    <2> QED BY <1>2, <2>1, <2>2 DEF WaitSlot
<1>3. CASE FinishFlight
    <2>1. UNCHANGED <<callerAt, slot>>
        BY <1>3 DEF FinishFlight
    <2> QED BY <1>3, <2>1, Finished DEF SlotsIdle, InFlight
<1>4. ASSUME NEW i \in DOMAIN chain, AcquireImage(i) \/ ShowImage(i)
      PROVE  SlotsIdle'
    BY <1>4 DEF AcquireImage, ShowImage, SlotsIdle, InFlight
<1> QED
    BY RingSteps, <1>1, <1>2, <1>3, <1>4
    DEF Waits, AcquireNothing, RingAcquireFails, SubmitFrameFails, PresentFails, SubmitFrame,
        PresentImage, RecreateChain, ResizeImages, ResetTracking

\* A semaphore is waited for by what is in flight, or by the engine that shows
\* the image.
LEMMA PairStep ==
    ASSUME RingTypes, ValueInv, SlotsIdle, RingPairInv, RingNext
    PROVE  RingPairInv'
<1> USE DEF Goes, NextRingFrame, ringVars, semVars, gpuRing, callerVars
<1>1. CASE Waits
    BY <1>1 DEF Waits, WaitSlot, AcquireNothing, RingAcquireFails, SubmitFrameFails,
                PresentFails, RingPairInv, InFlight
<1>2. CASE SubmitFrame
    <2>1. \A s \in Slots : InFlight(s) \/ s = slot => InFlight(s)'
        BY <1>2, Submitted, LenProperties DEF InFlight, RingTypes
    <2>2. /\ acquireSem' = [acquireSem EXCEPT ![slot] = "waited"]
          /\ finishedSem' = [finishedSem EXCEPT ![image] = "pending"]
          /\ UNCHANGED <<chain, spoiled>>
          /\ callerAt = "submit" /\ callerAt' = "present"
        BY <1>2 DEF SubmitFrame, FinishedOf
    <2> QED BY <2>1, <2>2 DEF RingPairInv, RingTypes
<1>3. CASE PresentImage
    BY <1>3 DEF PresentImage, RingPairInv, RingTypes, InFlight
<1>4. CASE RecreateChain
    BY <1>4 DEF RecreateChain, RingPairInv, InFlight
<1>5. CASE ResizeImages
    BY <1>5 DEF ResizeImages, RingPairInv, InFlight
<1>6. CASE ResetTracking
    BY <1>6 DEF ResetTracking, RingPairInv, InFlight
<1>7. CASE FinishFlight
    <2>1. /\ acquireSem' = [acquireSem EXCEPT ![flight[1].slot] = "clear"]
          /\ UNCHANGED <<chain, finishedSem, spoiled, callerAt, slot, image>>
        BY <1>7, Finished DEF FinishFlight
    <2>2. \A s \in Slots : InFlight(s) => InFlight(s)' \/ flight[1].slot = s
        BY <1>7, Finished DEF InFlight
    <2> QED BY <2>1, <2>2 DEF RingPairInv, RingTypes
<1>8. ASSUME NEW i \in DOMAIN chain, AcquireImage(i)
      PROVE  RingPairInv'
    BY <1>8 DEF AcquireImage, RingPairInv, RingTypes, InFlight
<1>9. ASSUME NEW i \in DOMAIN chain, ShowImage(i)
      PROVE  RingPairInv'
    BY <1>9 DEF ShowImage, RingPairInv, RingTypes, InFlight
<1> QED BY RingSteps, <1>1, <1>2, <1>3, <1>4, <1>5, <1>6, <1>7, <1>8, <1>9

-----------------------------------------------------------------------------
(* Theorems *)

LEMMA RingInvariant == RingSpec => []RingIInv
<1>1. RingInit => RingIInv
    <2> SUFFICES ASSUME RingInit PROVE RingIInv
        OBVIOUS
    <2>1. RingTypes
        BY RingAssumption DEF RingInit, RingTypes, Slots
    <2>2. flight = <<>> /\ DOMAIN flight = {}
        BY DEF RingInit
    <2> QED
        BY <2>1, <2>2
        DEF RingInit, RingIInv, ValueInv, RingRises, SlotsIdle, GatesOpen, RingPairInv, InFlight
<1>2. RingIInv /\ [RingNext]_frameRingVars => RingIInv'
    <2>1. ASSUME RingIInv, RingNext PROVE RingIInv'
        BY <2>1, RingTypeStep, ValueStep, IdleStep, PairStep DEF RingIInv
    <2>2. ASSUME RingIInv, UNCHANGED frameRingVars PROVE RingIInv'
        BY <2>2
        DEF RingIInv, RingTypes, ValueInv, RingRises, SlotsIdle, GatesOpen, RingPairInv, InFlight,
            frameRingVars, ringVars, semVars, gpuRing, callerVars
    <2> QED BY <2>1, <2>2
<1> QED BY <1>1, <1>2, PTL DEF RingSpec

\* frame_ring::wait_slot: when a slot is acquired for, its last submission is
\* finished, however often the ring was resized and whatever failed.
THEOREM RingSlotsIdle == RingSpec => []SlotsIdle
    BY RingInvariant, PTL DEF RingIInv

\* frame_ring::mark_submitted: a slot never waits for a value that nothing in
\* flight will signal.
THEOREM RingGatesOpen == RingSpec => []GatesOpen
    BY RingInvariant, PTL DEF RingIInv

\* The timeline only rises, and a binary semaphore is clear when it is to be
\* signalled, except that of a slot whose image was acquired for nothing.
THEOREM RingSignalsLegal == RingSpec => []SignalsLegal
<1>1. RingIInv => SignalsLegal
    <2> SUFFICES ASSUME RingIInv PROVE SemaphoresPaired
        BY DEF RingIInv, ValueInv, SignalsLegal
    <2>1. callerAt = "acquire" /\ slot \notin spoiled => acquireSem[slot] = "clear"
        BY DEF RingIInv, RingPairInv, SlotsIdle, RingTypes
    <2>2. callerAt = "submit" => finishedSem[image] = "clear"
        BY DEF RingIInv, RingPairInv, RingTypes
    <2> QED BY <2>1, <2>2 DEF SemaphoresPaired, FinishedOf
<1> QED BY <1>1, RingInvariant, PTL

\* The frame ring is safe to draw with, for any slots, image counts and values.
THEOREM RingIsSafe == RingSpec => []RingSafe
    BY RingSlotsIdle, RingGatesOpen, RingSignalsLegal, PTL DEF RingSafe
=============================================================================
