----------------------------- MODULE GraphSubmit -----------------------------
(***************************************************************************)
(* One started pass graph: pass_graph_op_state, the graph_submit_sender it *)
(* connects, the hop to the context scheduler (stdexec::continues_on) and  *)
(* the receiver that runs after_gpu. The operation borrows a command       *)
(* buffer for every batch, creates fences and semaphores, submits batch by *)
(* batch, hands the last fence to the completion waiter and gives          *)
(* everything back before it completes its receiver.                       *)
(*                                                                         *)
(* The planner is ExecutionPlan: a plan is what it arrives at, and that    *)
(* its last batch comes after all others is checked there. The waiter and  *)
(* the scheduler's agent are taken by their contracts (CompletionContract, *)
(* TaskQueue). Stop requests, the GPU and failing calls are the            *)
(* environment.                                                            *)
(***************************************************************************)
EXTENDS Naturals, Sequences, FiniteSets

CONSTANTS Plans,          \* [preds: for each batch the batches it waits for,
                          \*  join: was the last one added by prepare_terminal]
          Presenting,     \* may the graph present a frame? a set of BOOLEANs
          Timelines,      \* kinds of semaphores the device has, likewise
          RetireAttempts, \* k_retirement_attempts
          Faults          \* may Vulkan calls, allocations and callbacks fail?

\* S contains whatever its members come after.
ClosedUnder(preds, S) == \A d \in S : preds[d] \subseteq S

\* The last batch comes after all others (ExecutionPlan!LastJoinsAll).
Joined(preds) ==
    \A S \in SUBSET DOMAIN preds :
        Len(preds) \in S /\ ClosedUnder(preds, S) => S = DOMAIN preds

ASSUME SubmitAssumption ==
    /\ \A p \in Plans :
        /\ p.preds \in Seq(SUBSET Nat) /\ Len(p.preds) > 0
        /\ \A b \in DOMAIN p.preds : p.preds[b] \subseteq 1 .. b - 1
        /\ p.join \in BOOLEAN
        /\ Joined(p.preds)
    /\ Presenting \subseteq BOOLEAN
    /\ Timelines \subseteq BOOLEAN
    /\ RetireAttempts \in Nat \ {0}
    /\ Faults \in BOOLEAN

VARIABLES plan,        \* the planned graph
          presentation,\* does it present?
          timeline,    \* the device's timeline_semaphore capability
          pc,          \* where the operation is
          scopes,      \* batches whose command buffer is on loan
          fences,      \* the fences vector: "own", "borrowed" or "null"
          semaphores,  \* how many semaphores the operation holds
          handed,      \* was the last fence given to the waiter to destroy?
          destroyed,   \* history: how often the fence of a batch was destroyed
          submitted,   \* batches submitted so far, in order
          frame,       \* the acquired frame of a graph that presents
          attempts,    \* failed waits of finish_error
          stored,      \* what the inner operation completed with
          outcome,     \* what the caller's receiver was completed with
          after_gpu,   \* history: the after_gpu callbacks ran
          failure,     \* history: something the operation depends on failed
          gpu,         \* each batch: "idle", "queued" or "done"
          lost,        \* the device is lost
          stop         \* stop was requested

request == <<plan, presentation, timeline>>
objects == <<scopes, fences, semaphores, handed, destroyed>>
history == <<after_gpu, failure>>
world == <<gpu, lost, stop>>
vars == <<request, pc, objects, submitted, frame, attempts, stored, outcome,
          history, world>>

Count == Len(plan.preds)
Batches == DOMAIN plan.preds

\* create_sync: one semaphore per batch or one per edge of the plan.
SemaphoreCount ==
    IF timeline /\ Count > 1 THEN Count
    ELSE Cardinality({e \in Batches \X Batches : e[1] \in plan.preds[e[2]]})

\* is_borrowed_graph_fence
Borrowed(b) == presentation /\ b = Count

InFlight(b) == gpu[b] = "queued" /\ ~lost

Init ==
    /\ plan \in Plans
    /\ presentation \in Presenting
    /\ presentation => ~plan.join  \* the final batch is the join
    /\ timeline \in Timelines
    /\ pc = "start"
    /\ scopes = {}
    /\ fences = <<>>
    /\ semaphores = 0
    /\ handed = FALSE
    /\ destroyed = [b \in Batches |-> 0]
    /\ submitted = 0
    /\ frame = IF presentation THEN "acquired" ELSE "none"
    /\ attempts = 0
    /\ stored = "none"
    /\ outcome = "none"
    /\ after_gpu = FALSE
    /\ failure = FALSE
    /\ gpu = [b \in Batches |-> "idle"]
    /\ lost = FALSE
    /\ stop = FALSE

-----------------------------------------------------------------------------
(* Pieces the handlers are built from *)

\* presentation->abort, which gives the frame back and may itself fail.
Abort(state, failed) ==
    /\ failed => Faults
    /\ frame' = IF failed THEN "abort_failed" ELSE state

\* Complete the caller's receiver: from here on the operation may be destroyed.
Complete(signal) ==
    /\ outcome' = signal
    /\ pc' = "completed"

\* The inner operation completes and stdexec::continues_on keeps the result.
Hop(signal) ==
    /\ stored' = signal
    /\ pc' = "hop"

\* The fences that release() destroys.
OwnFences == {b \in DOMAIN fences : fences[b] # "null" /\ ~Borrowed(b)}

\* release: fences, semaphores, then the scopes with their loans. also is what
\* the waiter destroyed before it called back.
Release(also) ==
    /\ destroyed' = [b \in Batches |->
            destroyed[b] + (IF b \in OwnFences THEN 1 ELSE 0)
                         + (IF b \in also THEN 1 ELSE 0)]
    /\ fences' = <<>>
    /\ semaphores' = 0
    /\ scopes' = {}

-----------------------------------------------------------------------------
(* pass_graph_op_state::start *)

\* Stop was requested before anything began.
StopAtStart ==
    /\ pc = "start"
    /\ stop
    /\ IF presentation
       THEN \E failed \in BOOLEAN :
                /\ Abort("abandoned_acquired", failed)
                /\ Complete(IF failed THEN "error" ELSE "stopped")
                /\ failure' = failed
       ELSE Complete("stopped") /\ UNCHANGED <<frame, failure>>
    /\ UNCHANGED <<request, objects, submitted, attempts, stored, after_gpu,
                   world>>

Start ==
    /\ pc = "start"
    /\ ~stop
    /\ pc' = "prepare"
    /\ UNCHANGED <<request, objects, submitted, frame, attempts, stored,
                   outcome, history, world>>

\* fail_before_submit: the error, whichever failed last.
FailBeforeSubmit ==
    /\ Faults
    /\ failure' = TRUE
    /\ IF presentation
       THEN \E failed \in BOOLEAN : Abort("abandoned_acquired", failed)
       ELSE UNCHANGED frame
    /\ Complete("error")
    /\ UNCHANGED <<request, fences, semaphores, handed, destroyed, submitted,
                   attempts, stored, after_gpu, world>>

\* prepare_graph or prepare_presentation fails; or record_execution does, and
\* the scopes it had opened are gone when it returns.
PrepareFails ==
    /\ pc = "prepare"
    /\ FailBeforeSubmit
    /\ UNCHANGED scopes

\* The graph is planned and recorded, a scope for every batch of the graph.
Record ==
    /\ pc = "prepare"
    /\ scopes' = IF plan.join THEN Batches \ {Count} ELSE Batches
    /\ pc' = "terminal"
    /\ UNCHANGED <<request, fences, semaphores, handed, destroyed, submitted,
                   frame, attempts, stored, outcome, history, world>>

\* prepare_terminal: the joining batch gets its scope.
PrepareTerminal ==
    /\ pc = "terminal"
    /\ scopes' = Batches
    /\ pc' = "connected"
    /\ UNCHANGED <<request, fences, semaphores, handed, destroyed, submitted,
                   frame, attempts, stored, outcome, history, world>>

\* The joining scope cannot be opened, or cannot end its recording. The vector
\* of scopes is a local of start: it outlives the completion.
PrepareTerminalFails ==
    /\ pc = "terminal"
    /\ plan.join
    /\ scopes' \in {scopes, Batches}
    /\ FailBeforeSubmit

-----------------------------------------------------------------------------
(* graph_submit_sender::op_state::start *)

\* Stop was requested while the graph was prepared: nothing is released.
StopBeforeSubmit ==
    /\ pc = "connected"
    /\ stop
    /\ IF presentation
       THEN \E failed \in BOOLEAN :
                /\ Abort("abandoned_acquired", failed)
                /\ Hop(IF failed THEN "error" ELSE "stopped")
                /\ failure' = failed
       ELSE Hop("stopped") /\ UNCHANGED <<frame, failure>>
    /\ UNCHANGED <<request, objects, submitted, attempts, outcome, after_gpu,
                   world>>

\* create_sync succeeds, or fails at any of its objects and keeps the others.
CreateSync ==
    /\ pc = "connected"
    /\ ~stop
    /\ \E made \in 0 .. Count, more \in 0 .. SemaphoreCount :
        LET complete == made = Count /\ more = SemaphoreCount
        IN  /\ more > 0 => made = Count
            /\ ~complete => Faults
            /\ fences' = [b \in 1 .. made |->
                            IF Borrowed(b) THEN "borrowed" ELSE "own"]
            /\ semaphores' = more
            /\ pc' = IF complete THEN "submitting" ELSE "failing"
            /\ failure' = ~complete
    /\ UNCHANGED <<request, scopes, handed, destroyed, submitted, frame,
                   attempts, stored, outcome, after_gpu, world>>

\* submit_batch for the next batch.
SubmitBatch ==
    /\ pc = "submitting"
    /\ submitted < Count
    /\ ~lost
    /\ submitted' = submitted + 1
    /\ gpu' = [gpu EXCEPT ![submitted + 1] = "queued"]
    /\ UNCHANGED <<request, pc, objects, frame, attempts, stored, outcome,
                   history, lost, stop>>

\* A reset, a submission, the presentation or the hand-over to the waiter
\* fails, by a result or an exception: on to finish_error.
SubmitFails ==
    /\ pc = "submitting"
    /\ Faults \/ lost
    /\ failure' = TRUE
    /\ pc' = "failing"
    /\ UNCHANGED <<request, objects, submitted, frame, attempts, stored,
                   outcome, after_gpu, world>>

\* All batches are submitted and the frame is queued for presentation.
Present ==
    /\ pc = "submitting"
    /\ submitted = Count
    /\ presentation
    /\ frame = "acquired"
    /\ frame' = "presented"
    /\ UNCHANGED <<request, pc, objects, submitted, attempts, stored, outcome,
                   history, world>>

\* The last fence goes to the waiter, which destroys it unless it belongs to
\* the presenter.
EnqueueWait ==
    /\ pc = "submitting"
    /\ submitted = Count
    /\ presentation => frame = "presented"
    /\ fences' = [fences EXCEPT ![Count] = "null"]
    /\ handed' = ~presentation
    /\ pc' = "waiting"
    /\ UNCHANGED <<request, scopes, semaphores, destroyed, submitted, frame,
                   attempts, stored, outcome, history, world>>

-----------------------------------------------------------------------------
(* finish_error *)

\* Mutant: only the batch submitted last is waited for.
SubmittedDone_Last == submitted > 0 => gpu[submitted] = "done"

\* Mutant: the fences of batches never submitted are waited for as well.
SubmittedDone_All == submitted > 0 => \A b \in Batches : gpu[b] = "done"

\* What vkWaitForFences waits for.
SubmittedDone == \A b \in 1 .. submitted : gpu[b] = "done"

\* Was the presenter's semaphore already consumed by the final batch?
AbortState ==
    IF submitted = Count THEN "abandoned_final" ELSE "abandoned_acquired"

\* Everything submitted is finished or the device is lost; the frame that was
\* not presented is given back, then everything else.
FinishError ==
    /\ pc = "failing"
    /\ attempts < RetireAttempts
    /\ SubmittedDone \/ lost
    /\ IF presentation /\ frame # "presented"
       THEN \E failed \in BOOLEAN : Abort(AbortState, failed)
       ELSE UNCHANGED frame
    /\ Release({})
    /\ Hop("error")
    /\ UNCHANGED <<request, handed, submitted, attempts, outcome, history,
                   world>>

\* A wait fails for an ordinary reason, here or in the waiter; the last attempt
\* terminates the process.
WaitFails ==
    /\ Faults
    /\ \/ pc = "failing" /\ submitted > 0
       \/ pc = "waiting"
    /\ attempts < RetireAttempts
    /\ attempts' = attempts + 1
    /\ failure' = TRUE
    /\ UNCHANGED <<request, pc, objects, submitted, frame, stored, outcome,
                   after_gpu, world>>

Terminated == attempts = RetireAttempts

-----------------------------------------------------------------------------
(* The waiter's callback *)

\* Mutant: an error of the wait is not reported.
SignalFor_IgnoreError(error, stopped) == IF stopped THEN "stopped" ELSE "value"

\* complete_after_reclaim
SignalFor(error, stopped) ==
    IF error THEN "error" ELSE IF stopped THEN "stopped" ELSE "value"

\* The waiter's contract: the fence is signalled or the device lost, an owned
\* fence is destroyed, an error is reported for every failed wait. Then the
\* rest is released and the sender completes.
WaiterCallback ==
    /\ pc = "waiting"
    /\ attempts < RetireAttempts
    /\ gpu[Count] = "done" \/ lost
    /\ \E error, stopped \in BOOLEAN :
        /\ error => lost \/ Faults
        /\ ~error => gpu[Count] = "done" /\ attempts = 0
        /\ stopped => stop
        /\ failure' = (failure \/ error)
        /\ Hop(SignalFor(error, stopped))
    /\ Release(IF handed THEN {Count} ELSE {})
    /\ handed' = FALSE
    /\ UNCHANGED <<request, submitted, frame, attempts, outcome, after_gpu,
                   world>>

-----------------------------------------------------------------------------
(* continues_on: schedule_sender, then pass_graph_after_gpu_receiver *)

\* The schedule operation sees a stop request, when it starts or when its task
\* runs: the receiver is stopped whatever the stored result is.
HopStopped ==
    /\ pc \in {"hop", "scheduled"}
    /\ stop
    /\ Complete("stopped")
    /\ UNCHANGED <<request, objects, submitted, frame, attempts, stored,
                   history, world>>

HopEnqueue ==
    /\ pc = "hop"
    /\ ~stop
    /\ pc' = "scheduled"
    /\ UNCHANGED <<request, objects, submitted, frame, attempts, stored,
                   outcome, history, world>>

HopFails ==
    /\ pc = "hop"
    /\ ~stop
    /\ Faults
    /\ failure' = TRUE
    /\ Complete("error")
    /\ UNCHANGED <<request, objects, submitted, frame, attempts, stored,
                   after_gpu, world>>

\* On the agent's thread: an error or a stop is passed on.
PassOn ==
    /\ pc = "scheduled"
    /\ ~stop
    /\ stored \in {"error", "stopped"}
    /\ Complete(stored)
    /\ UNCHANGED <<request, objects, submitted, frame, attempts, stored,
                   history, world>>

\* On the agent's thread: run_after_gpu and commit_after_gpu, which may throw.
RunAfterGpu ==
    /\ pc = "scheduled"
    /\ ~stop
    /\ stored = "value"
    /\ \E failed \in BOOLEAN :
        /\ failed => Faults
        /\ failure' = (failure \/ failed)
        /\ Complete(IF failed THEN "error" ELSE "value")
    /\ after_gpu' = TRUE
    /\ UNCHANGED <<request, objects, submitted, frame, attempts, stored, world>>

\* The caller destroys the operation, with the scopes it still holds.
DestroyOperation ==
    /\ pc = "completed"
    /\ pc' = "destroyed"
    /\ scopes' = {}
    /\ UNCHANGED <<request, fences, semaphores, handed, destroyed, submitted,
                   frame, attempts, stored, outcome, history, world>>

-----------------------------------------------------------------------------
(* Environment *)

\* A batch runs once those it waits for are done; its fence signals.
RunBatch(b) ==
    /\ InFlight(b)
    /\ \A p \in plan.preds[b] : gpu[p] = "done"
    /\ gpu' = [gpu EXCEPT ![b] = "done"]
    /\ UNCHANGED <<request, pc, objects, submitted, frame, attempts, stored,
                   outcome, history, lost, stop>>

LoseDevice ==
    /\ ~lost
    /\ lost' = TRUE
    /\ UNCHANGED <<request, pc, objects, submitted, frame, attempts, stored,
                   outcome, history, gpu, stop>>

RequestStop ==
    /\ ~stop
    /\ stop' = TRUE
    /\ UNCHANGED <<request, pc, objects, submitted, frame, attempts, stored,
                   outcome, history, gpu, lost>>

-----------------------------------------------------------------------------
Prepare ==
    StopAtStart \/ Start \/ PrepareFails \/ Record \/ PrepareTerminal
        \/ PrepareTerminalFails

Submit ==
    StopBeforeSubmit \/ CreateSync \/ SubmitBatch \/ SubmitFails \/ Present
        \/ EnqueueWait

Finish ==
    FinishError \/ WaiterCallback \/ HopStopped \/ HopEnqueue \/ HopFails
        \/ PassOn \/ RunAfterGpu

Environment == LoseDevice \/ RequestStop \/ \E b \in Batches : RunBatch(b)

Next ==
    Prepare \/ Submit \/ Finish \/ WaitFails \/ DestroyOperation \/ Environment

Spec == Init /\ [][Next]_vars

\* The threads that carry the operation run, and submitted work finishes. No
\* wait is obliged to fail, nobody to request a stop or to destroy the operation.
Fairness ==
    /\ WF_vars(Prepare \/ Submit \/ Finish)
    /\ WF_vars(\E b \in Batches : RunBatch(b))

FairSpec == Spec /\ Fairness

-----------------------------------------------------------------------------
(* Properties *)

TypeOK ==
    /\ plan \in Plans
    /\ presentation \in BOOLEAN
    /\ timeline \in BOOLEAN
    /\ pc \in {"start", "prepare", "terminal", "connected", "submitting",
               "failing", "waiting", "hop", "scheduled", "completed",
               "destroyed"}
    /\ scopes \in SUBSET Batches
    /\ fences \in Seq({"own", "borrowed", "null"})
    /\ Len(fences) <= Count
    /\ semaphores \in 0 .. SemaphoreCount
    /\ handed \in BOOLEAN
    /\ destroyed \in [Batches -> Nat]
    /\ submitted \in 0 .. Count
    /\ frame \in {"none", "acquired", "presented", "abandoned_acquired",
                  "abandoned_final", "abort_failed"}
    /\ attempts \in 0 .. RetireAttempts
    /\ stored \in {"none", "value", "error", "stopped"}
    /\ outcome \in {"none", "value", "error", "stopped"}
    /\ after_gpu \in BOOLEAN
    /\ failure \in BOOLEAN
    /\ gpu \in [Batches -> {"idle", "queued", "done"}]
    /\ lost \in BOOLEAN
    /\ stop \in BOOLEAN

\* While the GPU may run any batch of the graph, its command buffer, its fence
\* and every semaphore are held and the caller, who then frees what the steps
\* borrow, has not heard of completion: whatever was submitted, whichever call
\* failed, and although only the last fence is waited for.
HeldWhileInFlight ==
    \A b \in Batches :
        InFlight(b) =>
            /\ b \in scopes
            /\ destroyed[b] = 0
            /\ semaphores = SemaphoreCount
            /\ outcome = "none"

\* Two owners, the operation and the waiter, destroy every fence of the graph
\* exactly once between them, and never the presenter's.
FencesDestroyedOnce ==
    /\ \A b \in Batches : destroyed[b] <= IF Borrowed(b) THEN 0 ELSE 1
    /\ outcome # "none" =>
        /\ fences = <<>> /\ semaphores = 0 /\ ~handed
        /\ \A b \in 1 .. submitted : ~Borrowed(b) => destroyed[b] = 1

\* A frame that was acquired is presented or given back before completion, and
\* the presenter is told truly whether the final batch has consumed its
\* semaphore.
FrameSettled ==
    outcome # "none" =>
        /\ frame # "acquired"
        /\ frame = "abandoned_final" => gpu[Count] = "done" \/ lost
        /\ frame = "abandoned_acquired" => gpu[Count] = "idle"

\* "Successful operations complete through set_value only after their promised
\* work and required post-GPU cleanup are done"; after_gpu itself comes after
\* all of the graph's work, not only the batch that was waited for.
ValueMeansDone ==
    /\ outcome = "value" => after_gpu /\ ~failure
    /\ after_gpu =>
        /\ \A b \in Batches : gpu[b] = "done"
        /\ scopes = {}
        /\ presentation => frame = "presented"

\* A started graph completes, unless the process is terminated: no failure
\* leaves finish_error waiting for work that was never submitted.
EventuallyCompletes == pc # "start" ~> outcome # "none" \/ Terminated

\* What the documentation says of completion: every loan is returned by then.
LoansReturned == outcome # "none" => scopes = {}

\* What the documentation says of failures: they reach set_error.
FailureReported == outcome = "stopped" => ~failure

\* What the GPU may use is there, and what it no longer uses goes away once.
ObjectsHeld == HeldWhileInFlight /\ FencesDestroyedOnce

\* What a completion says is true, of the work and of the frame.
OutcomeTrue == FrameSettled /\ ValueMeansDone
=============================================================================
