-------------------------- MODULE MCCompletionWaiter --------------------------
(***************************************************************************)
(* The completion waiter for TLC, in two instances of which a behaviour is *)
(* one (focus): "drain", where waits fail and the GPU ends its work, and   *)
(* "alone", with stop requests and a GPU that need not end anything.       *)
(***************************************************************************)
EXTENDS CompletionWaiter

CONSTANTS j1, j2

VARIABLE focus

TwoJobs == {j1, j2}
NoJobs == {}
AllKinds == {"owned", "unfenced", "borrowed"}

Alone == INSTANCE CompletionWaiter
    WITH Stoppable <- Jobs, Kinds <- {"owned", "borrowed"},
         RetireAttempts <- 3, WaitFaults <- FALSE

WaiterInit ==
    \/ focus = "drain" /\ Init
    \/ focus = "alone" /\ Alone!Init

WaiterNext ==
    /\ UNCHANGED focus
    /\ \/ focus = "drain" /\ Next
       \/ focus = "alone" /\ Alone!Next

\* The threads run when they can in both, the GPU in one.
ThreadSteps == \/ focus = "drain" /\ ThreadStep
               \/ focus = "alone" /\ Alone!ThreadStep
FinishJob(j) == \/ focus = "drain" /\ FinishSteps(j)
                \/ focus = "alone" /\ Alone!FinishSteps(j)

WaiterFairness ==
    /\ WF_vars(ThreadSteps)
    /\ \A j \in Jobs : /\ WF_vars(FinishJob(j)) /\ WF_vars(NotifyOne(j))
                       /\ WF_vars(focus = "drain" /\ GpuSignal(j))
    /\ WF_vars(NotifyAll)
    /\ WF_vars(Join)

WaiterSpec == WaiterInit /\ [][WaiterNext]_<<focus, vars>> /\ WaiterFairness

\* When the GPU finishes what was submitted, every job is called back whatever
\* waits fail, and shutdown comes back when they have been, unless the process is
\* terminated. What is done stays done: "again and again" is "in the end".
WaiterProgress == focus = "drain" => []<>(AllDone \/ Terminated)

\* When it need not finish anything, nothing waits for what does not concern it:
\* a finished job not for another job, a stop request not for the GPU.
WaiterIndependent == focus = "alone" => []<>NothingHeldUp
=============================================================================
