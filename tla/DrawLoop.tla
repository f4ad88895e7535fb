------------------------------ MODULE DrawLoop ------------------------------
(***************************************************************************)
(* The draw senders over one presenter: a thread starts one draw after the *)
(* other and waits for its completion (sync_wait).  What a sender does is  *)
(* a sequence of steps, each of which may end the draw; an asynchronous    *)
(* one ends with a wait for the frame's fence on the completion waiter.    *)
(***************************************************************************)
EXTENDS Naturals, Sequences, FiniteSets

CONSTANT MaxDraws   \* bound: the draws that are started

ASSUME MaxDrawsAssumption == MaxDraws \in Nat

-----------------------------------------------------------------------------
(* What the senders do.  A synchronous draw is over once it is submitted.  *)

SyncDraw == <<"stop?", "begin", "record", "end", "value">>
AsyncDraw == <<"stop?", "begin", "record", "end", "wait">>

DrawSender == SyncDraw
DrawAsyncSender == AsyncDraw
DrawMeshSender == SyncDraw
DrawMeshAsyncSender == AsyncDraw
DrawBindSender == SyncDraw
DrawBindAsyncSender == AsyncDraw
DrawMeshBindSender == SyncDraw
DrawMeshBindAsyncSender == AsyncDraw

\* Mutant: it looks at its layers when the frame is open.
DrawLayersSender_Late == <<"stop?", "begin", "layers?", "record", "end", "value">>

DrawLayersSender == <<"stop?", "layers?", "begin", "record", "end", "value">>

DrawLayersAsyncSender == <<"stop?", "begin", "layers?", "record", "end", "wait">>

DrawSenders ==
    {DrawSender, DrawAsyncSender, DrawMeshSender, DrawMeshAsyncSender, DrawBindSender,
     DrawBindAsyncSender, DrawMeshBindSender, DrawMeshBindAsyncSender, DrawLayersSender,
     DrawLayersAsyncSender}

-----------------------------------------------------------------------------

VARIABLES steps,       \* what is left of the draw that is under way
          draws,       \* how many were started
          outcomes,    \* how each was completed
          frameOpen,   \* frame_open_ of the presenter
          begun,       \* the draws that began a frame,
          shown,       \* presented it,
          rendering,   \* and have work on the GPU
          waited       \* the draw whose fence the waiter polls, or 0

drawVars == <<steps, draws, outcomes, frameOpen, begun, shown, rendering, waited>>

DrawInit ==
    /\ steps = <<>> /\ draws = 0 /\ outcomes = [n \in 1 .. MaxDraws |-> {}]
    /\ frameOpen = FALSE /\ begun = {} /\ shown = {} /\ rendering = {}
    /\ waited = 0

Completes(outcome) ==
    /\ outcomes' = [outcomes EXCEPT ![draws] = @ \cup {outcome}]
    /\ steps' = <<>>
GoesOn == steps' = Tail(steps) /\ UNCHANGED outcomes
IsAt(step) == steps # <<>> /\ Head(steps) = step

\* The last draw has completed, and the next is connected and started.
StartDraw ==
    /\ steps = <<>> /\ waited = 0 /\ draws < MaxDraws
    /\ draws' = draws + 1
    /\ steps' \in DrawSenders
    /\ UNCHANGED <<outcomes, frameOpen, begun, shown, rendering, waited>>

\* A stop was requested or not; the list of layers is empty or not.
LookAtStop ==
    /\ IsAt("stop?")
    /\ GoesOn \/ Completes("stopped")
    /\ UNCHANGED <<draws, frameOpen, begun, shown, rendering, waited>>

LookAtLayers ==
    /\ IsAt("layers?")
    /\ GoesOn \/ Completes("error")
    /\ UNCHANGED <<draws, frameOpen, begun, shown, rendering, waited>>

\* try_begin_frame: a frame, none (the swapchain is to be recreated), an error,
\* which may leave a frame open that could not be abandoned.
BeginDraw ==
    /\ IsAt("begin")
    /\ \/ /\ ~ frameOpen /\ GoesOn
          /\ frameOpen' = TRUE /\ begun' = begun \cup {draws}
       \/ ~ frameOpen /\ Completes("value") /\ UNCHANGED <<frameOpen, begun>>
       \/ Completes("error") /\ UNCHANGED <<frameOpen, begun>>
       \/ ~ frameOpen /\ Completes("error") /\ frameOpen' = TRUE /\ begun' = begun \cup {draws}
    /\ UNCHANGED <<draws, shown, rendering, waited>>

\* The commands are recorded; an exception ends the draw.
RecordDraw ==
    /\ IsAt("record")
    /\ GoesOn \/ Completes("error")
    /\ UNCHANGED <<draws, frameOpen, begun, shown, rendering, waited>>

\* The draw completes with the error; the frame is not abandoned.
EndFailed == Completes("error")

\* try_end_frame: it fails before the submission or at the presentation, where
\* the frame stays open; or the frame is presented.
EndDraw ==
    /\ IsAt("end")
    /\ \/ EndFailed /\ UNCHANGED <<frameOpen, shown, rendering>>
       \/ EndFailed /\ rendering' = rendering \cup {draws} /\ UNCHANGED <<frameOpen, shown>>
       \/ /\ GoesOn /\ rendering' = rendering \cup {draws}
          /\ frameOpen' = FALSE /\ shown' = shown \cup {draws}
    /\ UNCHANGED <<draws, begun, waited>>

CompleteDraw ==
    /\ IsAt("value") /\ Completes("value")
    /\ UNCHANGED <<draws, frameOpen, begun, shown, rendering, waited>>

\* enqueue_borrowed_fence_wait; from here the draw is the waiter's, unless the
\* job could not be made.
EnqueueDraw ==
    /\ IsAt("wait")
    /\ \/ GoesOn /\ waited' = draws
       \/ Completes("error") /\ UNCHANGED waited
    /\ UNCHANGED <<draws, frameOpen, begun, shown, rendering>>

\* Mutant: a wait that fails calls nobody.
WaitCalls_Silent ==
    /\ waited # 0
    /\ \/ waited \notin rendering /\ Completes("value")
       \/ waited \in rendering /\ UNCHANGED <<outcomes, steps>>
    /\ waited' = 0
    /\ UNCHANGED <<draws, frameOpen, begun, shown, rendering>>

\* complete_draw: the fence is signalled; or the wait was stopped, or failed.
WaitCalls ==
    /\ waited # 0
    /\ \/ waited \notin rendering /\ Completes("value")
       \/ Completes("stopped")
       \/ Completes("error")
    /\ waited' = 0
    /\ UNCHANGED <<draws, frameOpen, begun, shown, rendering>>

\* The GPU finishes the work of a draw.
RenderDraw(n) ==
    /\ n \in rendering
    /\ rendering' = rendering \ {n}
    /\ UNCHANGED <<steps, draws, outcomes, frameOpen, begun, shown, waited>>

DrawThread ==
    StartDraw \/ LookAtStop \/ LookAtLayers \/ BeginDraw \/ RecordDraw \/ EndDraw \/ CompleteDraw
    \/ EnqueueDraw

DrawNext == DrawThread \/ WaitCalls \/ \E n \in 1 .. MaxDraws : RenderDraw(n)

DrawSpec == DrawInit /\ [][DrawNext]_drawVars

\* The thread, the GPU and the waiter go on. The waiter calls in the end, as
\* CompletionWaiter shows.
DrawFairness ==
    /\ WF_drawVars(DrawThread)
    /\ WF_drawVars(WaitCalls)
    /\ \A n \in 1 .. MaxDraws : WF_drawVars(RenderDraw(n))

DrawFairSpec == DrawSpec /\ DrawFairness

-----------------------------------------------------------------------------
(* Properties *)

\* A draw that completes with a value has presented the frame that it began,
\* and when it is asynchronous its work was done; it has no other outcome.
ValueIsShown ==
    \A n \in 1 .. MaxDraws : "value" \in outcomes[n] =>
        outcomes[n] = {"value"} /\ (n \in begun => n \in shown)

\* When a draw is over and the frame is still open, a draw that began it has
\* failed; and a synchronous draw of no layers does not get as far.
OpenFrameHasCause ==
    /\ steps = <<>> /\ waited = 0 /\ frameOpen =>
        \E n \in begun \ shown : outcomes[n] = {"error"}
    /\ IsAt("layers?") /\ steps[Len(steps)] = "value" => draws \notin begun

\* Every draw that is started completes.
DrawsComplete == \A n \in 1 .. MaxDraws : draws = n ~> outcomes[n] # {}

\* What the draws of a loop tell is true, and so is what they leave behind.
DrawsTellTruth == ValueIsShown /\ OpenFrameHasCause
=============================================================================
