------------------------------ MODULE FrameRing ------------------------------
(***************************************************************************)
(* frame_ring with acquire_present_frame and submit_and_present: frames in *)
(* flight on a ring of slots, each with a binary semaphore for the acquire *)
(* of its image; each swapchain image with one for its presentation; and a *)
(* timeline semaphore whose values gate the reuse of the slots.            *)
(*                                                                         *)
(* The caller is the loop that frame_ring's documentation describes: one   *)
(* slot after the other, a recreation when the swapchain asks for it, and  *)
(* after an error the next frame.  The presentation engine shows an image  *)
(* some time after the submission that signals its semaphore is done, and  *)
(* gives it out again after that.                                          *)
(***************************************************************************)
EXTENDS Naturals, Sequences, FiniteSets

CONSTANTS RingSlots,     \* slot_count
          ImageCounts,   \* how many images a swapchain may turn out to have
          MaxValue       \* bound: the timeline values that are given out

ASSUME RingAssumption ==
    /\ RingSlots \in Nat \ {0} /\ ImageCounts \subseteq Nat \ {0} /\ MaxValue \in Nat
    /\ \E n \in ImageCounts : \A m \in ImageCounts : m <= n

NoRingImage == 0
Slots == 1 .. RingSlots
RingImages == 1 .. CHOOSE n \in ImageCounts : \A m \in ImageCounts : m <= n

VARIABLES chain,         \* the swapchain's images: "free", "taken", "queued"
          ringImages,    \* how many image semaphores the ring has
          nextValue,     \* next_timeline_value_
          slotValue,     \* slot_timeline_value_
          acquireSem,    \* "clear", "signalled", "waited": for each slot
          finishedSem,   \* "clear", "pending": for each image
          ringCounter,   \* the timeline's value
          flight,        \* the submissions that the GPU has not finished
          callerAt,      \* what the caller does next
          slot, image, value,   \* the frame it is at
          spoiled        \* slots whose acquired image was never submitted

callerVars == <<slot, image, value>>
ringVars == <<nextValue, slotValue, ringImages>>
semVars == <<acquireSem, finishedSem>>
gpuRing == <<flight, ringCounter>>
frameRingVars == <<chain, ringVars, semVars, gpuRing, callerAt, callerVars, spoiled>>

\* make_frame_ring, for a swapchain that is there.
RingInit ==
    /\ \E n \in ImageCounts : chain = [i \in 1 .. n |-> "free"] /\ ringImages = n
    /\ nextValue = 0 /\ slotValue = [s \in Slots |-> 0]
    /\ acquireSem = [s \in Slots |-> "clear"]
    /\ finishedSem = [i \in RingImages |-> "clear"]
    /\ ringCounter = 0 /\ flight = <<>>
    /\ callerAt = "wait" /\ slot = 1 /\ image = NoRingImage /\ value = 0
    /\ spoiled = {}

Goes(from, to) == callerAt = from /\ callerAt' = to
NextRingFrame == slot' = (slot % RingSlots) + 1 /\ image' = NoRingImage /\ UNCHANGED value

-----------------------------------------------------------------------------
(* acquire_present_frame *)

\* wait_slot: the timeline has reached the slot's value; zero is no wait.
WaitSlot ==
    /\ Goes("wait", "acquire")
    /\ ringCounter >= slotValue[slot]
    /\ UNCHANGED <<chain, ringVars, semVars, gpuRing, callerVars, spoiled>>

\* acquire_next_image gave image i, and signals the slot's semaphore; the value
\* is allocated; make_submit_sync fails where the ring has no such image.
AcquireImage(i) ==
    /\ callerAt = "acquire" /\ nextValue < MaxValue
    /\ chain[i] = "free"
    /\ chain' = [chain EXCEPT ![i] = "taken"]
    /\ acquireSem' = [acquireSem EXCEPT ![slot] = "signalled"]
    /\ nextValue' = nextValue + 1
    /\ IF i <= ringImages
       THEN /\ callerAt' = "submit" /\ image' = i /\ value' = nextValue + 1
            /\ UNCHANGED <<slot, spoiled>>
       ELSE /\ callerAt' = "wait" /\ NextRingFrame
            /\ spoiled' = spoiled \cup {slot}
    /\ UNCHANGED <<slotValue, ringImages, finishedSem, gpuRing>>

\* The swapchain is out of date, or the acquisition fails.
AcquireNothing ==
    /\ Goes("acquire", "recreate")
    /\ UNCHANGED <<chain, ringVars, semVars, gpuRing, callerVars, spoiled>>

RingAcquireFails ==
    /\ Goes("acquire", "wait") /\ NextRingFrame
    /\ UNCHANGED <<chain, ringVars, semVars, gpuRing, spoiled>>

-----------------------------------------------------------------------------
(* submit_and_present *)

\* The slot's semaphore stays signalled: nothing will wait for it.
SubmitFrameFails ==
    /\ Goes("submit", "wait") /\ NextRingFrame
    /\ spoiled' = spoiled \cup {slot}
    /\ UNCHANGED <<chain, ringVars, semVars, gpuRing>>

\* render_finished_semaphore
FinishedOf(i) == i

\* mark_submitted
Marked(s) == slotValue' = [slotValue EXCEPT ![s] = value]

SubmitFrame ==
    /\ Goes("submit", "present")
    /\ flight' = Append(flight, [slot |-> slot, image |-> image, value |-> value])
    /\ acquireSem' = [acquireSem EXCEPT ![slot] = "waited"]
    /\ finishedSem' = [finishedSem EXCEPT ![FinishedOf(image)] = "pending"]
    /\ Marked(slot)
    /\ UNCHANGED <<chain, nextValue, ringImages, ringCounter, callerVars, spoiled>>

\* vkQueuePresentKHR takes the image. The swapchain may be out of date all the
\* same.
PresentImage ==
    /\ callerAt = "present"
    /\ callerAt' \in {"wait", "recreate"}
    /\ NextRingFrame
    /\ chain' = [chain EXCEPT ![image] = "queued"]
    /\ UNCHANGED <<ringVars, semVars, gpuRing, spoiled>>

\* The presentation fails: the image stays taken.
PresentFails ==
    /\ Goes("present", "wait") /\ NextRingFrame
    /\ UNCHANGED <<chain, ringVars, semVars, gpuRing, spoiled>>

-----------------------------------------------------------------------------
(* A recreation by the caller, on an idle device *)

\* The swapchain is created anew, with the ring's image semaphores to follow.
RecreateChain ==
    /\ Goes("recreate", "resize")
    /\ flight = <<>>
    /\ \E n \in ImageCounts : chain' = [i \in 1 .. n |-> "free"]
    /\ UNCHANGED <<ringVars, semVars, gpuRing, callerVars, spoiled>>

\* resize_images: new semaphores for the images, and none when one fails.
ResizeImages ==
    /\ Goes("resize", "reset")
    /\ ringImages' \in {0, Len(chain)}
    /\ finishedSem' = [i \in RingImages |-> "clear"]
    /\ UNCHANGED <<chain, nextValue, slotValue, acquireSem, gpuRing, callerVars, spoiled>>

\* Mutant: the sequence of values starts anew.
ResetTracking_Rewind ==
    /\ Goes("reset", "wait")
    /\ slotValue' = [s \in Slots |-> 0] /\ nextValue' = 0
    /\ UNCHANGED <<chain, ringImages, semVars, gpuRing, callerVars, spoiled>>

\* reset_completion_tracking: the gates go, the values go on.
ResetTracking ==
    /\ Goes("reset", "wait")
    /\ slotValue' = [s \in Slots |-> 0]
    /\ UNCHANGED <<chain, nextValue, ringImages, semVars, gpuRing, callerVars, spoiled>>

-----------------------------------------------------------------------------
(* The GPU and the presentation engine *)

\* A submission is finished: it has waited for its slot's semaphore.
FinishFlight ==
    /\ flight # <<>>
    /\ flight' = Tail(flight)
    /\ ringCounter' = Head(flight).value
    /\ acquireSem' = [acquireSem EXCEPT ![Head(flight).slot] = "clear"]
    /\ UNCHANGED <<chain, ringVars, finishedSem, callerAt, callerVars, spoiled>>

\* A queued image is shown: its semaphore was waited for.
ShowImage(i) ==
    /\ chain[i] = "queued"
    /\ \A k \in DOMAIN flight : flight[k].image # i
    /\ chain' = [chain EXCEPT ![i] = "free"]
    /\ finishedSem' = [finishedSem EXCEPT ![i] = "clear"]
    /\ UNCHANGED <<ringVars, acquireSem, gpuRing, callerAt, callerVars, spoiled>>

RingNext ==
    \/ WaitSlot \/ (\E i \in DOMAIN chain : AcquireImage(i)) \/ AcquireNothing \/ RingAcquireFails
    \/ SubmitFrame \/ SubmitFrameFails \/ PresentImage \/ PresentFails
    \/ RecreateChain \/ ResizeImages \/ ResetTracking
    \/ FinishFlight \/ (\E i \in DOMAIN chain : ShowImage(i))

RingSpec == RingInit /\ [][RingNext]_frameRingVars

-----------------------------------------------------------------------------
(* Properties *)

InFlight(s) == \E k \in DOMAIN flight : flight[k].slot = s

\* A slot that is acquired for has no submission under way, whatever became of
\* its presentation: its command buffer may be recorded.
SlotsIdle == callerAt \in {"acquire", "submit"} => ~ InFlight(slot)

\* The submissions signal ever higher values, over recreations too: a timeline
\* semaphore cannot go back.
RingRises ==
    /\ \A k \in DOMAIN flight : flight[k].value > ringCounter
    /\ \A j, k \in DOMAIN flight : j < k => flight[j].value < flight[k].value
    /\ callerAt = "submit" =>
        value > ringCounter /\ \A k \in DOMAIN flight : value > flight[k].value

\* No slot waits for a value that nobody will signal: a frame that was acquired
\* and never submitted leaves no gate behind.
GatesOpen ==
    \A s \in Slots : slotValue[s] > ringCounter =>
        \E k \in DOMAIN flight : flight[k].value >= slotValue[s]

\* A binary semaphore that is about to be signalled is not signalled yet, nor
\* about to be: the slot's at an acquisition, the image's at a submission. Slots
\* are excepted whose last image was acquired and never submitted.
SemaphoresPaired ==
    /\ callerAt = "acquire" /\ slot \notin spoiled => acquireSem[slot] = "clear"
    /\ callerAt = "submit" => finishedSem[FinishedOf(image)] = "clear"

\* Every signal is a legal one: the timeline rises and a binary semaphore is
\* clear when it is to be signalled.
SignalsLegal == RingRises /\ SemaphoresPaired

\* A ring of slots is safe to draw with: idle slots, gates that open and legal
\* signals.
RingSafe == SlotsIdle /\ GatesOpen /\ SignalsLegal
=============================================================================
