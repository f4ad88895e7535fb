--------------------------- MODULE CompletionWaiter ---------------------------
(***************************************************************************)
(* vkexec::detail::completion_waiter: the thread that waits for the GPU.   *)
(* Submitting code hands it a fence and a callback; the thread polls every *)
(* outstanding fence and stop token together, confirms that the work of a  *)
(* job is retired, destroys the job's synchronisation objects when it owns *)
(* them, and only then invokes the callback.                               *)
(*                                                                         *)
(* A job is a call of enqueue or enqueue_borrowed. The vectors pending_    *)
(* and active are the sets of jobs at that place (their order is left      *)
(* open, so every order is explored). The GPU, the stop tokens and the     *)
(* results of the Vulkan waits are the environment.                        *)
(***************************************************************************)
EXTENDS Naturals, FiniteSets

CONSTANTS Jobs,
          NoJob,
          Stoppable,       \* the jobs that come with a stop_requested callable
          Kinds,           \* the kinds of job that are enqueued
          RetireAttempts,  \* k_retirement_wait_attempts
          WaitFaults       \* do Vulkan waits fail for ordinary reasons?

ASSUME WaiterAssumption ==
    /\ NoJob \notin Jobs
    /\ Stoppable \subseteq Jobs
    /\ Kinds \subseteq {"owned", "unfenced", "borrowed"}
    /\ RetireAttempts \in Nat \ {0}
    /\ WaitFaults \in BOOLEAN

VARIABLES shutting_down,  \* shutting_down_, guarded by mutex_
          at,             \* where each job is
          kind,           \* owned: destroy_sync and a fence; unfenced:
                          \* destroy_sync and no fence; borrowed: a fence only
          refused,        \* jobs that arrived after shutdown
          notifying,      \* enqueue calls between the push and notify_one
          closer,         \* where the owner is in shutdown
          phase,          \* where the waiter thread is in run
          todo,           \* active jobs not yet visited in this pass
          item,           \* the job being finished by finish_job
          wave_error,     \* the failure finish_all hands to every job
          stop_seen,      \* job.stop_seen
          failed,         \* the job's callback gets an error
          attempts,       \* failed waits of wait_for_retirement
          destroyed,      \* jobs whose fence and semaphore are destroyed
          calls,          \* how often the callback was invoked
          gpu,            \* the job's work on the GPU
          lost,           \* the device is lost
          stop            \* the job's stop token is requested

intake == <<shutting_down, kind, refused, notifying, closer>>
thread == <<phase, todo, item, wave_error>>
result == <<stop_seen, failed, attempts, destroyed, calls>>
world == <<gpu, lost, stop>>
vars == <<intake, at, thread, result, world>>

-----------------------------------------------------------------------------
TypeOK ==
    /\ shutting_down \in BOOLEAN
    /\ at \in [Jobs -> {"new", "pending", "active", "retiring", "reclaimed",
                        "done"}]
    /\ kind \in [Jobs -> Kinds \cup {"none"}]
    /\ refused \in SUBSET Jobs
    /\ notifying \in SUBSET Jobs
    /\ closer \in {"idle", "notify_all", "join", "joined"}
    /\ phase \in {"top", "asleep", "polling", "waiting", "idling", "reaping",
                  "finishing_all", "exited"}
    /\ todo \in SUBSET Jobs
    /\ item \in Jobs \cup {NoJob}
    /\ wave_error \in BOOLEAN
    /\ stop_seen \in [Jobs -> BOOLEAN]
    /\ failed \in [Jobs -> BOOLEAN]
    /\ attempts \in [Jobs -> 0 .. RetireAttempts]
    /\ destroyed \in SUBSET Jobs
    /\ calls \in [Jobs -> 0 .. 1]
    /\ gpu \in [Jobs -> {"busy", "signalled"}]
    /\ lost \in BOOLEAN
    /\ stop \in [Jobs -> BOOLEAN]

Init ==
    /\ shutting_down = FALSE
    /\ at = [j \in Jobs |-> "new"]
    /\ kind = [j \in Jobs |-> "none"]
    /\ refused = {}
    /\ notifying = {}
    /\ closer = "idle"
    /\ phase = "top"
    /\ todo = {}
    /\ item = NoJob
    /\ wave_error = FALSE
    /\ stop_seen = [j \in Jobs |-> FALSE]
    /\ failed = [j \in Jobs |-> FALSE]
    /\ attempts = [j \in Jobs |-> 0]
    /\ destroyed = {}
    /\ calls = [j \in Jobs |-> 0]
    /\ gpu = [j \in Jobs |-> "busy"]
    /\ lost = FALSE
    /\ stop = [j \in Jobs |-> FALSE]

Pending == {j \in Jobs : at[j] = "pending"}
Active == {j \in Jobs : at[j] = "active"}
Owned(j) == kind[j] \in {"owned", "unfenced"}
Fenced(j) == kind[j] \in {"owned", "borrowed"}

\* The process called std::terminate. The other threads may still take steps
\* in the model, which only adds behaviours; the job itself is stuck.
Terminated == \E j \in Jobs : attempts[j] = RetireAttempts

\* The GPU no longer uses what the job lent it.
Retired(j) == lost \/ gpu[j] = "signalled"

-----------------------------------------------------------------------------
(* enqueue and enqueue_borrowed, called once the work was submitted *)

\* Mutant: shutting_down_ is not tested under the mutex.
Enqueue_Unchecked(j, k) ==
    /\ at[j] = "new"
    /\ at' = [at EXCEPT ![j] = "pending"]
    /\ kind' = [kind EXCEPT ![j] = k]
    /\ notifying' = notifying \cup {j}
    /\ UNCHANGED <<shutting_down, refused, closer, thread, result, world>>

Enqueue(j, k) ==
    /\ at[j] = "new"
    /\ ~shutting_down
    /\ at' = [at EXCEPT ![j] = "pending"]
    /\ kind' = [kind EXCEPT ![j] = k]
    /\ notifying' = notifying \cup {j}
    /\ UNCHANGED <<shutting_down, refused, closer, thread, result, world>>

\* The mutex released: cv_.notify_one.
Wake == phase' = IF phase = "asleep" THEN "top" ELSE phase

NotifyOne(j) ==
    /\ j \in notifying
    /\ notifying' = notifying \ {j}
    /\ Wake
    /\ UNCHANGED <<shutting_down, kind, refused, closer, at, todo, item,
                   wave_error, result, world>>

\* enqueue after shutdown: the caller's thread reclaims the synchronisation
\* objects itself before it calls back with the error.
RefuseOwned(j, k) ==
    /\ at[j] = "new"
    /\ shutting_down
    /\ k \in {"owned", "unfenced"}
    /\ at' = [at EXCEPT ![j] = "retiring"]
    /\ kind' = [kind EXCEPT ![j] = k]
    /\ refused' = refused \cup {j}
    /\ failed' = [failed EXCEPT ![j] = TRUE]
    /\ UNCHANGED <<shutting_down, notifying, closer, thread, stop_seen,
                   attempts, destroyed, calls, world>>

\* enqueue_borrowed after shutdown: straight to the callback.
RefuseBorrowed(j) ==
    /\ at[j] = "new"
    /\ shutting_down
    /\ at' = [at EXCEPT ![j] = "reclaimed"]
    /\ kind' = [kind EXCEPT ![j] = "borrowed"]
    /\ refused' = refused \cup {j}
    /\ failed' = [failed EXCEPT ![j] = TRUE]
    /\ UNCHANGED <<shutting_down, notifying, closer, thread, stop_seen,
                   attempts, destroyed, calls, world>>

-----------------------------------------------------------------------------
(* shutdown; a further call by the owner returns at once *)

BeginShutdown ==
    /\ closer = "idle"
    /\ ~shutting_down
    /\ shutting_down' = TRUE
    /\ closer' = "notify_all"
    /\ UNCHANGED <<kind, refused, notifying, at, thread, result, world>>

NotifyAll ==
    /\ closer = "notify_all"
    /\ closer' = "join"
    /\ Wake
    /\ UNCHANGED <<shutting_down, kind, refused, notifying, at, todo, item,
                   wave_error, result, world>>

Join ==
    /\ closer = "join"
    /\ phase = "exited"
    /\ closer' = "joined"
    /\ UNCHANGED <<shutting_down, kind, refused, notifying, at, thread, result,
                   world>>

-----------------------------------------------------------------------------
(* finish_job: retirement, reclaim, callback *)

\* Mutant: a job without a fence is not waited for.
Waited_FenceOnly(j) == Fenced(j) => gpu[j] = "signalled"

\* What the wait of reclaim_sync or finish_job waits for: the job's fence, or
\* the whole queue when it has none.
Waited(j) ==
    IF Fenced(j) THEN gpu[j] = "signalled"
    ELSE \A k \in Jobs : at[k] # "new" => gpu[k] = "signalled"

\* wait_for_retirement returns: the first failure, if there was one, is the
\* result; a lost device counts as retired but is reported. The fence and the
\* semaphore of an owned job are destroyed before anything else happens.
ConfirmRetirement(j) ==
    /\ at[j] = "retiring"
    /\ attempts[j] < RetireAttempts
    /\ \E device_lost \in BOOLEAN :
        /\ IF device_lost THEN lost ELSE Waited(j)
        /\ failed' = [failed EXCEPT ![j] = @ \/ device_lost \/ attempts[j] > 0]
    /\ at' = [at EXCEPT ![j] = "reclaimed"]
    /\ destroyed' = IF Owned(j) THEN destroyed \cup {j} ELSE destroyed
    /\ UNCHANGED <<intake, thread, stop_seen, attempts, calls, world>>

\* A wait fails for an ordinary reason; the last attempt terminates the
\* process, since nothing may be released that the GPU could still use.
FailRetirement(j) ==
    /\ WaitFaults
    /\ at[j] = "retiring"
    /\ attempts[j] < RetireAttempts
    /\ attempts' = [attempts EXCEPT ![j] = @ + 1]
    /\ UNCHANGED <<intake, at, thread, stop_seen, failed, destroyed, calls,
                   world>>

\* on_done(failure, stop_seen).
CallBack(j) ==
    /\ at[j] = "reclaimed"
    /\ at' = [at EXCEPT ![j] = "done"]
    /\ calls' = [calls EXCEPT ![j] = @ + 1]
    /\ item' = IF item = j THEN NoJob ELSE item
    /\ UNCHANGED <<intake, phase, todo, wave_error, stop_seen, failed,
                   attempts, destroyed, world>>

FinishSteps(j) == ConfirmRetirement(j) \/ FailRetirement(j) \/ CallBack(j)

-----------------------------------------------------------------------------
(* run *)

\* Mutant: the thread sleeps with work active.
HasWork_PendingOnly == shutting_down \/ Pending # {}

\* The predicate of cv_.wait.
HasWork == shutting_down \/ Pending # {} \/ Active # {}

Sleep ==
    /\ phase = "top"
    /\ ~HasWork
    /\ phase' = "asleep"
    /\ UNCHANGED <<intake, at, todo, item, wave_error, result, world>>

SpuriousWakeup ==
    /\ phase = "asleep"
    /\ Wake
    /\ UNCHANGED <<intake, at, todo, item, wave_error, result, world>>

\* The condition under which run returns, pending_ having been taken over.
Drained == shutting_down /\ Active \cup Pending = {}

Exit ==
    /\ phase = "top"
    /\ Drained
    /\ phase' = "exited"
    /\ UNCHANGED <<intake, at, todo, item, wave_error, result, world>>

\* pending_ is moved to the end of active.
TakePending ==
    /\ phase = "top"
    /\ HasWork
    /\ ~Drained
    /\ at' = [j \in Jobs |-> IF j \in Pending THEN "active" ELSE at[j]]
    /\ phase' = "polling"
    /\ UNCHANGED <<intake, todo, item, wave_error, result, world>>

\* poll_stop_flags and collect_fences.
PollStopFlags ==
    /\ phase = "polling"
    /\ stop_seen' = [j \in Jobs |->
                        stop_seen[j] \/ (j \in Active /\ stop[j])]
    /\ phase' = IF \E j \in Active : Fenced(j) THEN "waiting" ELSE "idling"
    /\ UNCHANGED <<intake, at, todo, item, wave_error, failed, attempts,
                   destroyed, calls, world>>

\* Mutant: the wait is for all fences, without a timeout.
WaitAnyFence_All(error) ==
    /\ phase = "waiting"
    /\ IF error THEN lost \/ WaitFaults
                ELSE \A j \in Active : Fenced(j) => gpu[j] = "signalled"
    /\ phase' = IF error THEN "finishing_all" ELSE "reaping"
    /\ wave_error' = error
    /\ todo' = Active
    /\ UNCHANGED <<intake, at, item, result, world>>

\* wait_any_fence: VK_SUCCESS and VK_TIMEOUT are treated alike, a lost device
\* or a failed call is the failure of every active job.
WaitAnyFence(error) ==
    /\ phase = "waiting"
    /\ error => lost \/ WaitFaults
    /\ phase' = IF error THEN "finishing_all" ELSE "reaping"
    /\ wave_error' = error
    /\ todo' = Active
    /\ UNCHANGED <<intake, at, item, result, world>>

\* complete_without_fences: vkQueueWaitIdle, then finish_all either way.
WaitQueueIdle(error) ==
    /\ phase = "idling"
    /\ IF error THEN lost \/ WaitFaults
                ELSE \A j \in Jobs : at[j] # "new" => gpu[j] = "signalled"
    /\ phase' = "finishing_all"
    /\ wave_error' = error
    /\ todo' = Active
    /\ UNCHANGED <<intake, at, item, result, world>>

\* finish_job begins for a job of this pass.
StartFinish(j, error) ==
    /\ item' = j
    /\ todo' = todo \ {j}
    /\ at' = [at EXCEPT ![j] = "retiring"]
    /\ failed' = [failed EXCEPT ![j] = error]
    /\ UNCHANGED <<intake, phase, wave_error, stop_seen, attempts, destroyed,
                   calls, world>>

FinishAllNext(j) ==
    /\ phase = "finishing_all"
    /\ item = NoJob
    /\ j \in todo
    /\ StartFinish(j, wave_error)

\* reap_ready_jobs, a job without a fence or whose fence has signalled.
ReapReady(j) ==
    /\ phase = "reaping"
    /\ item = NoJob
    /\ j \in todo
    /\ Fenced(j) => gpu[j] = "signalled"
    /\ StartFinish(j, FALSE)

\* reap_ready_jobs, vkGetFenceStatus fails.
ReapFailed(j) ==
    /\ phase = "reaping"
    /\ item = NoJob
    /\ j \in todo
    /\ Fenced(j)
    /\ lost \/ WaitFaults
    /\ StartFinish(j, TRUE)

\* reap_ready_jobs, VK_NOT_READY: the job stays active.
KeepWaiting(j) ==
    /\ phase = "reaping"
    /\ item = NoJob
    /\ j \in todo
    /\ Fenced(j)
    /\ gpu[j] = "busy"
    /\ todo' = todo \ {j}
    /\ UNCHANGED <<intake, at, phase, item, wave_error, result, world>>

\* Every job of the pass was visited: back to the top of the loop.
EndPass ==
    /\ phase \in {"reaping", "finishing_all"}
    /\ item = NoJob
    /\ todo = {}
    /\ phase' = "top"
    /\ UNCHANGED <<intake, at, todo, item, wave_error, result, world>>

-----------------------------------------------------------------------------
(* Environment *)

GpuSignal(j) ==
    /\ at[j] # "new"
    /\ gpu[j] = "busy"
    /\ gpu' = [gpu EXCEPT ![j] = "signalled"]
    /\ UNCHANGED <<intake, at, thread, result, lost, stop>>

LoseDevice ==
    /\ ~lost
    /\ lost' = TRUE
    /\ UNCHANGED <<intake, at, thread, result, gpu, stop>>

RequestStop(j) ==
    /\ j \in Stoppable
    /\ ~stop[j]
    /\ stop' = [stop EXCEPT ![j] = TRUE]
    /\ UNCHANGED <<intake, at, thread, result, gpu, lost>>

-----------------------------------------------------------------------------
Intake(j) ==
    \/ \E k \in Kinds : Enqueue(j, k) \/ RefuseOwned(j, k)
    \/ "borrowed" \in Kinds /\ RefuseBorrowed(j)

Pass ==
    \/ \E error \in BOOLEAN : WaitAnyFence(error) \/ WaitQueueIdle(error)
    \/ \E j \in Jobs :
        FinishAllNext(j) \/ ReapReady(j) \/ ReapFailed(j) \/ KeepWaiting(j)
    \/ EndPass

ThreadStep == Sleep \/ Exit \/ TakePending \/ PollStopFlags \/ Pass

Environment ==
    \/ SpuriousWakeup
    \/ LoseDevice
    \/ \E j \in Jobs : GpuSignal(j) \/ RequestStop(j)

Next ==
    \/ \E j \in Jobs : Intake(j) \/ NotifyOne(j) \/ FinishSteps(j)
    \/ BeginShutdown
    \/ NotifyAll
    \/ Join
    \/ ThreadStep
    \/ Environment

Spec == Init /\ [][Next]_vars

\* Threads run when they can; nobody is obliged to enqueue, to stop or to shut
\* down, and the GPU is not assumed to finish anything.
ThreadFairness ==
    /\ WF_vars(ThreadStep)
    /\ \A j \in Jobs : WF_vars(FinishSteps(j)) /\ WF_vars(NotifyOne(j))
    /\ WF_vars(NotifyAll)
    /\ WF_vars(Join)

\* Submitted work finishes.
GpuFairness == \A j \in Jobs : WF_vars(GpuSignal(j))

-----------------------------------------------------------------------------
(* Properties *)

\* finish_job "Reclaim (or wait) before the callback": nothing the GPU may
\* still use is destroyed, and a callback (which frees command buffers and
\* descriptor sets) comes after retirement and, for an owned job, after the
\* destruction. The one exception is a borrowed fence refused after shutdown.
RetiredBeforeRelease ==
    \A j \in Jobs :
        /\ j \in destroyed => Owned(j) /\ Retired(j)
        /\ calls[j] > 0 =>
            /\ Owned(j) => j \in destroyed
            /\ Retired(j) \/ (kind[j] = "borrowed" /\ j \in refused)

\* A callback without an error means the GPU really finished the job: neither
\* a lost device nor a failed wait is ever reported as success.
SuccessMeansFinished ==
    \A j \in Jobs :
        calls[j] > 0 /\ ~failed[j] => gpu[j] = "signalled" /\ attempts[j] = 0

\* The waiter never sleeps on a job or a shutdown it will not be told of.
NoLostWakeup ==
    phase = "asleep" /\ HasWork => closer = "notify_all" \/ notifying # {}

\* shutdown "Drains outstanding waits": no accepted job is left without its
\* callback once the thread is joined.
DrainedAtJoin ==
    closer = "joined" =>
        \A j \in Jobs : at[j] # "new" /\ j \notin refused => calls[j] = 1

\* Nothing is left to do: every job that enqueue ever saw had its callback, and
\* a shutdown that was begun has returned.
AllDone ==
    /\ \A j \in Jobs : at[j] # "new" => calls[j] = 1
    /\ shutting_down => closer = "joined"

\* "wake when any fence signals so overlapping submits complete
\* independently": a job whose work finished has completed, whatever the work
\* of the others does; "short so stop tokens stay responsive": a stop request
\* has been noticed although no work ever finishes.
NothingHeldUp ==
    \A j \in Jobs :
        /\ at[j] # "new" /\ gpu[j] = "signalled" => calls[j] = 1
        /\ at[j] \in {"pending", "active"} /\ stop[j] => stop_seen[j]

\* The waiter keeps the contract of CompletionContract.
InHand(j) == at[j] \notin {"new", "done"}

Contract == INSTANCE CompletionContract
    WITH owed <- {j \in Jobs : InHand(j) /\ j \notin refused},
         refused <- {j \in Jobs : InHand(j) /\ j \in refused},
         retired <- {j \in Jobs : Retired(j)},
         called <- {j \in Jobs : calls[j] > 0},
         closed <- shutting_down,
         gone <- (phase = "exited")

ImplementsContract == Contract!Spec

\* What the waiter releases, tells and leaves: nothing released early, no false
\* success, no wake-up lost, no job left behind by the join.
WaiterSafe ==
    /\ RetiredBeforeRelease
    /\ SuccessMeansFinished
    /\ NoLostWakeup
    /\ DrainedAtJoin
=============================================================================
