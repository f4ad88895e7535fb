------------------------------- MODULE MCFrames -------------------------------
(***************************************************************************)
(* The two ways to draw into a swapchain, for TLC: the presenter with its  *)
(* fences, and the frame ring with its timeline. They share no state;      *)
(* focus is the one that a behaviour is about, and the other stays in one  *)
(* initial state.                                                          *)
(***************************************************************************)
EXTENDS MCPresenter, FrameRing

VARIABLE focus

FramesInit ==
    /\ focus \in {"presenter", "recovery", "ring"}
    /\ Init /\ RingInit
    /\ focus # "ring" => ringImages = 2
    /\ focus = "ring" => extent = "small"

\* After these failures a frame cannot be given back, or the presenter not be
\* used again.
Unrecoverable ==
    \/ call = "wait_image" /\ AcquireFails
    \/ AbandonFailsLate
    \/ \E e \in Extents : ResizeFailsAtRebuild(e)

FramesNext ==
    /\ UNCHANGED focus
    /\ \/ focus = "presenter" /\ Next /\ UNCHANGED frameRingVars
       \/ focus = "recovery" /\ Next /\ ~ Unrecoverable /\ UNCHANGED frameRingVars
       \/ focus = "ring" /\ RingNext /\ UNCHANGED vars

\* When the presenter is to recover, its calls and its GPU go on.
FramesSpec ==
    /\ FramesInit /\ [][FramesNext]_<<focus, vars, frameRingVars>>
    /\ focus = "recovery" => Fairness

\* The presenter recovers from all but three failures: it then acquires images
\* into free semaphores, an open frame owns its image, and acquire_frame, which
\* waits without a time limit, returns.
RecoversCleanly == focus = "recovery" => CleanAcquisition

RecoveryReturns == focus = "recovery" => AcquireReturns
===============================================================================
