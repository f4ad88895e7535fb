------------------------------ MODULE Recording ------------------------------
(***************************************************************************)
(* A planned graph becomes commands: what its steps declare, the scope of  *)
(* every batch, the barriers around every step, and what the steps hold    *)
(* until the GPU is done.                                                  *)
(*                                                                         *)
(* A graph is recorded by its own operation, a scope for every batch, or   *)
(* by record_into into a command buffer that the caller is recording; then *)
(* a recorded_graph, which the caller moves, marks and retires, owns the   *)
(* steps. Callers keep the preconditions that recorded_graph.hpp states.   *)
(* queues and preds are those of ExecutionPlan, whose plan is recorded.    *)
(***************************************************************************)
EXTENDS ExecutionPlan

CONSTANTS StepKinds, \* kinds of steps
          Objects,   \* recorded_graph objects of the caller
          MaxPasses  \* bound: steps in a recorded graph

ASSUME RecordingAssumption ==
    /\ StepKinds \subseteq {"custom", "complete", "partial", "silent", "bind"}
    /\ Objects \cap {"operation", "call", "nobody"} = {}

VARIABLES familyOf,   \* the family of each queue
          passes,     \* the kind of each step
          external,   \* is the graph recorded by record_into?
          shows,      \* the steps that use the presented image
          stage,      \* how far recording and retirement have come
          opened,     \* the scopes, or the caller's command buffer
          todo,       \* what the running loop still has to do
          sets,       \* the descriptor set of each step that binds resources
          calls,      \* the callbacks that have run
          gpu,        \* the commands: "none", "running" or "done"
          lifecycle,  \* of each recorded_graph
          owner       \* who owns the steps

recordingVars == <<familyOf, passes, external, shows, stage, opened, todo, sets,
                   calls, gpu, lifecycle, owner>>
graphGiven == <<vars, familyOf, passes, external, shows>>

RecordedPlan == IF preds = <<>> THEN PlanBatches ELSE PlanDag

RecordingInit ==
    /\ \E n \in 0 .. MaxPasses :
        /\ queues \in [1 .. n -> Queues]
        /\ familyOf \in {f \in [Queues -> {1, 2}] : f[DefaultQueue] = 1}
        /\ preds \in {<<>>, ChainPreds(n)}
        /\ passes \in [1 .. n -> StepKinds]
        /\ sets = [i \in 1 .. n |-> "none"]
        /\ presenting \in BOOLEAN
        /\ shows \in SUBSET {i \in 1 .. n : presenting /\ passes[i] = "custom"}
    /\ external \in {FALSE, ~presenting}
    /\ stage = "start" /\ gpu = "none" /\ owner = "operation"
    /\ opened = <<>> /\ todo = <<>> /\ calls = <<>>
    /\ lifecycle = [o \in Objects |-> "retired"]

-----------------------------------------------------------------------------
(* Declarations: pass_execution.hpp, pass_steps.hpp *)

\* Mutant: only the ends are compared.
CrossesFamilies_Ends(batches) ==
    batches # <<>> /\ familyOf[batches[1].queue] # familyOf[Last(batches).queue]

\* crosses_queue_families.
CrossesFamilies(batches) ==
    \E b \in DOMAIN batches :
        b > 1 /\ familyOf[batches[b - 1].queue] # familyOf[batches[b].queue]

\* A step with a list of resources or with complete metadata declares them;
\* one with metadata must have it complete.
HasDeclarations(k) == k \in {"custom", "complete"}
RequiresComplete(k) == k \in {"complete", "partial"}

\* declare_step_resources of typed and of runtime steps.
Declares(k, typed, crosses) ==
    /\ typed \/ HasDeclarations(k) \/ ~(crosses \/ RequiresComplete(k))
    /\ HasDeclarations(k) \/ (~RequiresComplete(k) /\ ~crosses)

\* validate_presentation_image: the final batch alone uses the image.
ImageFits(batches) ==
    presenting => batches # <<>> /\ shows # {} /\ \A i \in shows : i >= Last(batches).first

\* plan_resource_sync; the tracker, too, may refuse a declaration.
PlanRecording ==
    LET crosses == CrossesFamilies(RecordedPlan)
        declared(typed) == \A i \in DOMAIN passes : Declares(passes[i], typed, crosses)
        fits(typed) == declared(typed) /\ ImageFits(RecordedPlan)
    IN  /\ stage = "start"
        /\ \/ stage' = "refused"
              /\ \/ \E typed \in BOOLEAN : ~ fits(typed)
                 \/ \E i \in DOMAIN passes : HasDeclarations(passes[i])
           \/ stage' = "planned" /\ \E typed \in BOOLEAN : fits(typed)
        /\ UNCHANGED <<graphGiven, opened, todo, sets, calls, gpu, lifecycle, owner>>

-----------------------------------------------------------------------------
(* record_execution and record_external *)

\* record_sync_batch, for the steps of a batch in order.
Parts(batch) ==
    [k \in 1 .. 3 * (batch.last - batch.first + 1) |->
        <<<<"before", "step", "after">>[((k - 1) % 3) + 1], batch.first + ((k - 1) \div 3)>>]

Scope(q) == [queue |-> q, ended |-> FALSE, commands |-> <<>>]
AllEnded == \A s \in DOMAIN opened : opened[s].ended

\* A scope for the next batch; one for a graph that has none.
OpenScope ==
    LET b == Len(opened) + 1
    IN  /\ stage = "planned" /\ ~external /\ AllEnded
        /\ \/ /\ b <= Len(RecordedPlan)
              /\ opened' = Append(opened, Scope(RecordedPlan[b].queue))
              /\ todo' = Parts(RecordedPlan[b])
           \/ /\ RecordedPlan = <<>> /\ opened = <<>>
              /\ opened' = <<Scope(DefaultQueue)>>
              /\ UNCHANGED todo
        /\ stage' = "recording"
        /\ UNCHANGED <<graphGiven, sets, calls, gpu, lifecycle, owner>>

\* record_external: every batch has to be on the caller's queue.
BeginExternal(q) ==
    /\ stage = "planned" /\ external
    /\ IF \A b \in DOMAIN RecordedPlan : RecordedPlan[b].queue = q
       THEN /\ opened' = <<Scope(q)>>
            /\ todo' = FlattenSeq([b \in DOMAIN RecordedPlan |-> Parts(RecordedPlan[b])])
            /\ stage' = "recording" /\ owner' = "call"
       ELSE stage' = "refused" /\ UNCHANGED <<opened, todo, owner>>
    /\ UNCHANGED <<graphGiven, sets, calls, gpu, lifecycle>>

\* A binding step keeps the set that it allocates, writes and binds; a compute
\* step only records commands, which cannot fail.
Binds(part) == part[1] = "step" /\ passes[part[2]] = "bind"
Dispatches(part) == part[1] = "step" /\ passes[part[2]] = "complete"

\* The barriers before a step, the step, the barriers after it.
RecordPart ==
    LET part == Head(todo)
    IN  /\ stage = "recording" /\ todo # <<>>
        /\ opened' = [opened EXCEPT ![Len(opened)].commands = Append(@, part)]
        /\ todo' = Tail(todo)
        /\ sets' = IF Binds(part) THEN [sets EXCEPT ![part[2]] = "held"] ELSE sets
        /\ UNCHANGED <<graphGiven, stage, calls, gpu, lifecycle, owner>>

FreeAll == [i \in DOMAIN sets |-> IF sets[i] = "held" THEN "freed" ELSE sets[i]]

\* A barrier, a step, or the end of a scope fails, or a scope does not open:
\* the scopes go at once, the steps with whoever owns them.
RecordingFails ==
    /\ \/ stage = "planned" /\ ~external
       \/ stage = "recording" /\ (todo = <<>> => ~external)
    /\ ~(todo # <<>> /\ Dispatches(Head(todo)))
    /\ stage' = "failed" /\ opened' = <<>> /\ todo' = <<>>
    /\ IF external THEN sets' = FreeAll /\ owner' = "nobody" ELSE UNCHANGED <<sets, owner>>
    /\ UNCHANGED <<graphGiven, calls, gpu, lifecycle>>

EndScope ==
    /\ stage = "recording" /\ todo = <<>> /\ ~external
    /\ opened' = [opened EXCEPT ![Len(opened)].ended = TRUE]
    /\ stage' = IF Len(opened) >= Len(RecordedPlan) THEN "recorded" ELSE "planned"
    /\ UNCHANGED <<graphGiven, todo, sets, calls, gpu, lifecycle, owner>>

\* recorded_graph::record returns; the caller ends the command buffer.
ReturnRecorded(o) ==
    /\ stage = "recording" /\ todo = <<>> /\ external
    /\ opened' = [opened EXCEPT ![1].ended = TRUE]
    /\ stage' = "recorded"
    /\ lifecycle' = [lifecycle EXCEPT ![o] = "recorded"]
    /\ owner' = o
    /\ UNCHANGED <<graphGiven, todo, sets, calls, gpu>>

-----------------------------------------------------------------------------
(* The commands run; recorded_graph and the graph's operation retire them *)

SubmitRecorded ==
    /\ stage = "recorded" /\ gpu = "none"
    /\ gpu' = "running"
    /\ UNCHANGED <<graphGiven, stage, opened, todo, sets, calls, lifecycle, owner>>

FinishRecorded ==
    /\ gpu = "running"
    /\ gpu' = "done"
    /\ UNCHANGED <<graphGiven, stage, opened, todo, sets, calls, lifecycle, owner>>

\* recorded_graph::mark_submitted, after a successful submission.
MarkRecorded(o) ==
    /\ stage = "recorded" /\ lifecycle[o] = "recorded" /\ gpu # "none"
    /\ lifecycle' = [lifecycle EXCEPT ![o] = "submitted"]
    /\ UNCHANGED <<graphGiven, stage, opened, todo, sets, calls, gpu, owner>>

\* run_after_gpu of all steps, then commit_after_gpu of all.
CallbacksInOrder ==
    [k \in 1 .. 2 * Len(passes) |->
        IF k <= Len(passes) THEN <<"after_gpu", k>> ELSE <<"commit", k - Len(passes)>>]

\* recorded_graph::complete.
CompleteRecorded(o) ==
    /\ stage = "recorded" /\ lifecycle[o] = "submitted" /\ gpu = "done"
    /\ lifecycle' = [lifecycle EXCEPT ![o] = "retired"]
    /\ owner' = "call"
    /\ stage' = "finishing" /\ todo' = CallbacksInOrder
    /\ UNCHANGED <<graphGiven, opened, sets, calls, gpu>>

\* The completion of the graph's operation.
CompleteGraph ==
    /\ stage = "recorded" /\ ~external /\ gpu = "done"
    /\ stage' = "finishing" /\ todo' = CallbacksInOrder
    /\ UNCHANGED <<graphGiven, opened, sets, calls, gpu, lifecycle, owner>>

\* One callback; that of a binding step frees its set.
RunCallback ==
    LET call == Head(todo)
    IN  /\ stage = "finishing" /\ todo # <<>>
        /\ calls' = Append(calls, call)
        /\ todo' = Tail(todo)
        /\ sets' = IF call[1] = "after_gpu" /\ sets[call[2]] = "held"
                   THEN [sets EXCEPT ![call[2]] = "freed"] ELSE sets
        /\ UNCHANGED <<graphGiven, stage, opened, gpu, lifecycle, owner>>

\* The callbacks are over, or one has thrown; a call that owns the steps
\* destroys them.
FinishCallbacks ==
    /\ stage = "finishing"
    /\ todo # <<>> => passes[Head(todo)[2]] # "bind"
    /\ stage' = "retired" /\ todo' = <<>>
    /\ IF external THEN sets' = FreeAll /\ owner' = "nobody" ELSE UNCHANGED <<sets, owner>>
    /\ UNCHANGED <<graphGiven, opened, calls, gpu, lifecycle>>

\* recorded_graph::abandon, of a buffer that was discarded.
AbandonRecorded(o) ==
    /\ stage = "recorded" /\ lifecycle[o] = "recorded" /\ gpu = "none"
    /\ lifecycle' = [lifecycle EXCEPT ![o] = "retired"]
    /\ stage' = "retired" /\ sets' = FreeAll /\ owner' = "nobody"
    /\ UNCHANGED <<graphGiven, opened, todo, calls, gpu>>

\* The operation is destroyed after it has completed.
DestroyGraph ==
    /\ ~external /\ owner = "operation"
    /\ stage \in {"refused", "failed", "retired"} \/ (stage = "recorded" /\ gpu = "none")
    /\ stage' = "retired" /\ sets' = FreeAll /\ owner' = "nobody"
    /\ UNCHANGED <<graphGiven, opened, todo, calls, gpu, lifecycle>>

\* Mutant: the object moved from keeps its state.
MoveRecorded_Copy(o, p) ==
    /\ o # p /\ stage = "recorded" /\ owner # p
    /\ lifecycle' = [lifecycle EXCEPT ![p] = lifecycle[o]]
    /\ owner' = IF owner = o THEN p ELSE owner
    /\ UNCHANGED <<graphGiven, stage, opened, todo, sets, calls, gpu>>

\* recorded_graph::operator=(recorded_graph &&), from o to p.
MoveRecorded(o, p) ==
    /\ o # p /\ stage = "recorded" /\ owner # p
    /\ lifecycle' = [lifecycle EXCEPT ![p] = lifecycle[o], ![o] = "retired"]
    /\ owner' = IF owner = o THEN p ELSE owner
    /\ UNCHANGED <<graphGiven, stage, opened, todo, sets, calls, gpu>>

\* Assignment to an object that owns a recording, or its destruction.
TerminateRecorded ==
    /\ stage = "recorded" /\ owner \in Objects
    /\ stage' = "terminated"
    /\ UNCHANGED <<graphGiven, opened, todo, sets, calls, gpu, lifecycle, owner>>

RecordingNext ==
    \/ PlanRecording \/ OpenScope \/ RecordPart \/ RecordingFails \/ EndScope
    \/ SubmitRecorded \/ FinishRecorded \/ CompleteGraph \/ RunCallback
    \/ FinishCallbacks \/ DestroyGraph \/ TerminateRecorded
    \/ \E q \in Queues : BeginExternal(q)
    \/ \E o \in Objects :
        ReturnRecorded(o) \/ MarkRecorded(o) \/ CompleteRecorded(o) \/ AbandonRecorded(o)
        \/ \E p \in Objects : MoveRecorded(o, p)

RecordingSpec == RecordingInit /\ [][RecordingNext]_<<vars, recordingVars>>

-----------------------------------------------------------------------------
(* Properties *)

CommandsOf(s) == opened[s].commands
Wanted == FlattenSeq([b \in DOMAIN RecordedPlan |-> Parts(RecordedPlan[b])])

\* What is submitted is the graph: every step once, between its barriers, in
\* order, on its own queue. A graph on queues of several families has declared
\* everything, so that its transfers are complete; a presented image is touched
\* by the last commands only, which alone wait for it. A refusal leaves none.
RecordingFaithful ==
    /\ gpu # "none" =>
        /\ FlattenSeq([s \in DOMAIN opened |-> CommandsOf(s)]) = Wanted
        /\ AllEnded
        /\ \A s \in DOMAIN opened, i \in DOMAIN passes :
            <<"step", i>> \in Range(CommandsOf(s)) =>
                /\ queues[i] = opened[s].queue
                /\ i \in shows => s = Len(opened)
        /\ \/ \A i \in DOMAIN passes : HasDeclarations(passes[i])
           \/ /\ \A i, j \in DOMAIN passes : familyOf[queues[i]] = familyOf[queues[j]]
              /\ \A i \in DOMAIN passes : passes[i] # "partial"
        /\ presenting => shows # {}
    /\ stage \in {"refused", "failed"} => opened = <<>>

\* Steps and descriptor sets outlive the commands that use them, one object at
\* most may retire a recording, callbacks run once, after the work and in
\* order, and nothing is kept once nobody owns the steps.
RetiredOnce ==
    /\ gpu = "running" =>
        /\ owner # "nobody"
        /\ \A i \in DOMAIN passes : passes[i] = "bind" => sets[i] = "held"
    /\ \A o \in Objects : lifecycle[o] # "retired" <=> owner = o
    /\ calls # <<>> => gpu = "done" /\ IsPrefix(calls, CallbacksInOrder)
    /\ owner = "nobody" => \A i \in DOMAIN sets : sets[i] # "held"
=============================================================================
