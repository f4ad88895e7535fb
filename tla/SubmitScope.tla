----------------------------- MODULE SubmitScope -----------------------------
(***************************************************************************)
(* Submissions through one context, from many threads: a scope leases a    *)
(* command pool, records into its command buffer, borrows descriptor sets, *)
(* is submitted by one of two senders and gives everything back.           *)
(*                                                                         *)
(* An operation is a scope with the sender that submits it ("fence" waits  *)
(* through the completion waiter, "wait" blocks), or a command buffer that *)
(* the caller allocates, submits and frees by itself ("manual").  The      *)
(* waiter is taken by CompletionContract: its callback comes once, when    *)
(* the work is over.  Handles are the things themselves, so that a pool, a *)
(* set or a buffer can be in two places when the code puts it there.       *)
(***************************************************************************)
EXTENDS Naturals, FiniteSets

CONSTANTS Ops,         \* operations, each on a thread of its own
          Kinds,       \* the kind of each operation: subsets of the three
          ScopeFamily, \* the queue family of each operation's queue
          Pools,       \* command pools
          Sets,        \* the descriptor sets of the pipeline's pool
          Bindings,    \* what a set can be written with
          NoPool,      \* no pool
          MaxBinds,    \* bound: dispatches in a scope
          Faults       \* the calls that may fail

FaultNames == {"create pool", "reset pool", "cache", "allocate", "begin", "end",
               "set", "sync", "submit", "throw", "enqueue", "lost"}

ASSUME ScopeAssumption ==
    /\ Kinds \subseteq {"fence", "wait", "manual"}
    /\ NoPool \notin Pools
    /\ \A o \in Ops : ScopeFamily[o] # NoPool
    /\ MaxBinds \in Nat
    /\ Faults \subseteq FaultNames

VARIABLES kind,      \* the kind of each operation
          at,        \* where it is
          lease,     \* scope.pool, or the pool its buffer is registered with
          buffer,    \* does it hold a command buffer of that pool?
          cache,     \* available_command_pools
          family,    \* the family of each pool that exists, or NoPool
          borrowed,  \* cleanup.allocated
          current,   \* cleanup.sets: the set bound last, if any
          contents,  \* what each descriptor set was written with
          recorded,  \* the sets that the commands use, as they were written
          sync,      \* the semaphore and fence the operation owns
          handed,    \* those that the waiter owns
          holder,    \* who holds the queue's lock while it waits
          result,    \* what the operation will complete with
          outcome,   \* what its receiver was completed with
          work,      \* the GPU's side: "none", "queued" or "done"
          lost       \* the device is lost

loans == <<lease, buffer, cache, family, borrowed, current, contents>>
gpuSide == <<work, lost>>
scopeVars == <<kind, at, loans, recorded, sync, handed, holder, result, outcome, gpuSide>>

MayFail(name) == name \in Faults
WorkOver(o) == work[o] # "queued" \/ lost
\* Which free handle comes back is the driver's affair.
AnyOf(handles) == CHOOSE h \in handles : TRUE
Goes(o, from, to) == at[o] = from /\ at' = [at EXCEPT ![o] = to]
Owe(o, signal) == result' = [result EXCEPT ![o] = signal]
Busy(q) == \E o \in Ops : ScopeFamily[o] = q /\ holder[o]

ScopeInit ==
    /\ kind = [o \in Ops |-> "none"]
    /\ at = [o \in Ops |-> "start"]
    /\ lease = [o \in Ops |-> NoPool]
    /\ buffer = [o \in Ops |-> FALSE]
    /\ cache = {}
    /\ family = [p \in Pools |-> NoPool]
    /\ borrowed = [o \in Ops |-> {}]
    /\ current = [o \in Ops |-> {}]
    /\ contents = [s \in Sets |-> {}]
    /\ recorded = [o \in Ops |-> {}]
    /\ sync = [o \in Ops |-> {}]
    /\ handed = [o \in Ops |-> {}]
    /\ holder = [o \in Ops |-> FALSE]
    /\ result = [o \in Ops |-> "value"]
    /\ outcome = [o \in Ops |-> "none"]
    /\ work = [o \in Ops |-> "none"]
    /\ lost = FALSE

-----------------------------------------------------------------------------
(* Command pools: context_runtime.cpp *)

\* enter_submit_scope, or a caller that records by itself.
Enter(o) ==
    /\ Goes(o, "start", "open")
    /\ \E k \in Kinds : kind' = [kind EXCEPT ![o] = k]
    /\ UNCHANGED <<loans, recorded, sync, handed, holder, result, outcome, gpuSide>>

\* Stop was requested: nothing is opened. The token is looked at in three
\* places; whether a request has come by then is open.
StopAtEntry(o) ==
    /\ Goes(o, "start", "complete")
    /\ Owe(o, "stopped")
    /\ UNCHANGED <<kind, loans, recorded, sync, handed, holder, outcome, gpuSide>>

\* The pools that acquire_command_pool may take.
Cached(o) == {p \in cache : family[p] = ScopeFamily[o]}

NewPools == {p \in Pools : family[p] = NoPool}

\* acquire_command_pool: from the cache, or a new one.
AcquirePool(o) ==
    /\ Goes(o, "open", "pool")
    /\ IF Cached(o) # {}
       THEN /\ lease' = [lease EXCEPT ![o] = AnyOf(Cached(o))]
            /\ cache' = cache \ {AnyOf(Cached(o))}
            /\ UNCHANGED family
       ELSE /\ NewPools # {}
            /\ lease' = [lease EXCEPT ![o] = AnyOf(NewPools)]
            /\ family' = [family EXCEPT ![AnyOf(NewPools)] = ScopeFamily[o]]
            /\ UNCHANGED cache
    /\ UNCHANGED <<kind, buffer, borrowed, current, contents, recorded, sync,
                   handed, holder, result, outcome, gpuSide>>

\* No pool: nothing to give back.
AcquirePoolFails(o) ==
    /\ MayFail("create pool") /\ Cached(o) = {}
    /\ Goes(o, "open", "complete")
    /\ Owe(o, "error")
    /\ UNCHANGED <<kind, loans, recorded, sync, handed, holder, outcome, gpuSide>>

\* release_command_pool: reset, then back into the cache; a pool that cannot
\* be reset, or be kept, is destroyed.
ReturnPool(o) ==
    \/ /\ cache' = cache \cup {lease[o]}
       /\ UNCHANGED family
    \/ /\ MayFail("reset pool") \/ MayFail("cache")
       /\ family' = [family EXCEPT ![lease[o]] = NoPool]
       /\ UNCHANGED cache

\* The buffer is allocated, and registered if it is the caller's.
AllocateBuffer(o) ==
    /\ Goes(o, "pool", IF kind[o] = "manual" THEN "recording" ELSE "begin")
    /\ buffer' = [buffer EXCEPT ![o] = TRUE]
    /\ UNCHANGED <<kind, lease, cache, family, borrowed, current, contents,
                   recorded, sync, handed, holder, result, outcome, gpuSide>>

\* vkAllocateCommandBuffers fails, or the buffer cannot be registered.
AllocateBufferFails(o) ==
    /\ MayFail("allocate")
    /\ Goes(o, "pool", "complete")
    /\ ReturnPool(o)
    /\ lease' = [lease EXCEPT ![o] = NoPool]
    /\ Owe(o, "error")
    /\ UNCHANGED <<kind, buffer, borrowed, current, contents, recorded, sync,
                   handed, holder, outcome, gpuSide>>

-----------------------------------------------------------------------------
(* submit_scope.cpp *)

\* open: the recording begins.
BeginRecording(o) ==
    /\ Goes(o, "begin", "recording")
    /\ UNCHANGED <<kind, loans, recorded, sync, handed, holder, result, outcome, gpuSide>>

BeginRecordingFails(o) ==
    /\ MayFail("begin")
    /\ Goes(o, "begin", "complete")
    /\ buffer' = [buffer EXCEPT ![o] = FALSE]
    /\ ReturnPool(o)
    /\ lease' = [lease EXCEPT ![o] = NoPool]
    /\ Owe(o, "error")
    /\ UNCHANGED <<kind, borrowed, current, contents, recorded, sync, handed,
                   holder, outcome, gpuSide>>

FreeSets == Sets \ UNION {borrowed[o] : o \in Ops}

LendSet(o, s, b) ==
    /\ borrowed' = [borrowed EXCEPT ![o] = @ \cup {s}]
    /\ current' = [current EXCEPT ![o] = {s}]
    /\ contents' = [contents EXCEPT ![s] = {b}]
    /\ recorded' = [recorded EXCEPT ![o] = @ \cup {<<s, b>>}]

\* Mutant: the set bound last is written again.
BindSet_Rewrite(o, b) ==
    IF current[o] # {}
    THEN \E s \in current[o] :
            /\ contents' = [contents EXCEPT ![s] = {b}]
            /\ recorded' = [recorded EXCEPT ![o] = @ \cup {<<s, b>>}]
            /\ UNCHANGED <<borrowed, current>>
    ELSE FreeSets # {} /\ LendSet(o, AnyOf(FreeSets), b)

\* bind_or_allocate_set: the set bound last if it says the same, or a new one.
BindSet(o, b) ==
    IF \E s \in current[o] : contents[s] = {b}
    THEN \E s \in current[o] :
            /\ contents[s] = {b}
            /\ recorded' = [recorded EXCEPT ![o] = @ \cup {<<s, b>>}]
            /\ UNCHANGED <<borrowed, current, contents>>
    ELSE FreeSets # {} /\ LendSet(o, AnyOf(FreeSets), b)

\* A dispatch is recorded.
Bind(o, b) ==
    /\ at[o] = "recording" /\ kind[o] # "manual"
    /\ Cardinality(recorded[o]) < MaxBinds
    /\ BindSet(o, b)
    /\ UNCHANGED <<kind, at, lease, buffer, cache, family, sync, handed, holder,
                   result, outcome, gpuSide>>

\* Recording fails: no set is left, or vkEndCommandBuffer fails. The scope is
\* dropped.
RecordFails(o) ==
    /\ \/ MayFail("end")
       \/ kind[o] # "manual" /\ (FreeSets = {} \/ MayFail("set"))
    /\ Goes(o, "recording", "release")
    /\ Owe(o, "error")
    /\ UNCHANGED <<kind, loans, recorded, sync, handed, holder, outcome, gpuSide>>

EndRecording(o) ==
    /\ Goes(o, "recording", "ready")
    /\ UNCHANGED <<kind, loans, recorded, sync, handed, holder, result, outcome, gpuSide>>

\* release, free_command_buffer: the buffer is freed, the pool goes back.
ReleaseScope(o) ==
    /\ Goes(o, "release", "sets")
    /\ ReturnPool(o)
    /\ lease' = [lease EXCEPT ![o] = NoPool]
    /\ buffer' = [buffer EXCEPT ![o] = FALSE]
    /\ UNCHANGED <<kind, borrowed, current, contents, recorded, sync, handed,
                   holder, result, outcome, gpuSide>>

\* descriptor_cleanup::release: then the descriptor sets, each under the lock
\* of its pool, while the command pool may serve others already.
ReleaseSets(o) ==
    /\ Goes(o, "sets", "complete")
    /\ borrowed' = [borrowed EXCEPT ![o] = {}]
    /\ current' = [current EXCEPT ![o] = {}]
    /\ contents' = [s \in Sets |-> IF s \in borrowed[o] THEN {} ELSE contents[s]]
    /\ recorded' = [recorded EXCEPT ![o] = {}]
    /\ UNCHANGED <<kind, lease, buffer, cache, family, sync, handed, holder,
                   result, outcome, gpuSide>>

\* complete_after_reclaim
CompleteScope(o) ==
    /\ Goes(o, "complete", "completed")
    /\ outcome' = [outcome EXCEPT ![o] = result[o]]
    /\ UNCHANGED <<kind, loans, recorded, sync, handed, holder, result, gpuSide>>

-----------------------------------------------------------------------------
(* Submission: submit_scope.hpp and context_runtime.cpp *)

SyncOf(o) == IF kind[o] = "fence" THEN {"semaphore", "fence"} ELSE {"fence"}

\* start: stop was requested before the submission.
StopBeforeSubmit(o) ==
    /\ kind[o] # "manual"
    /\ Goes(o, "ready", "release")
    /\ Owe(o, "stopped")
    /\ UNCHANGED <<kind, loans, recorded, sync, handed, holder, outcome, gpuSide>>

\* submit_async, submit_and_wait: the semaphore and the fence.
CreateSync(o) ==
    /\ Goes(o, "ready", "created")
    /\ sync' = [sync EXCEPT ![o] = SyncOf(o)]
    /\ UNCHANGED <<kind, loans, recorded, handed, holder, result, outcome, gpuSide>>

\* Where a failure before the submission leads: submit_fence reclaims, with
\* null handles, by waiting for the queue.
AfterFailure(o) == IF kind[o] = "fence" THEN "idle" ELSE "release"

CreateSyncFails(o) ==
    /\ MayFail("sync")
    /\ Goes(o, "ready", AfterFailure(o))
    /\ Owe(o, "error")
    /\ UNCHANGED <<kind, loans, recorded, sync, handed, holder, outcome, gpuSide>>

\* submission.cpp: submit, under the queue's lock.
Submit(o) ==
    /\ ~ Busy(ScopeFamily[o])
    /\ Goes(o, "created", "submitted")
    /\ work' = [work EXCEPT ![o] = "queued"]
    /\ UNCHANGED <<kind, loans, recorded, sync, handed, holder, result, outcome,
                   lost>>

\* vkQueueSubmit fails: nothing was submitted, the objects are destroyed.
SubmitFails(o) ==
    /\ MayFail("submit") /\ ~ Busy(ScopeFamily[o])
    /\ Goes(o, "created", AfterFailure(o))
    /\ sync' = [sync EXCEPT ![o] = {}]
    /\ Owe(o, "error")
    /\ UNCHANGED <<kind, loans, recorded, handed, holder, outcome, gpuSide>>

\* submit throws, in its lists or at a queue it has no lock for: the handlers
\* release the scope and not the objects.
SubmitThrows(o) ==
    /\ MayFail("throw")
    /\ Goes(o, "created", "release")
    /\ Owe(o, "exception")
    /\ UNCHANGED <<kind, loans, recorded, sync, handed, holder, outcome, gpuSide>>

\* enqueue_fence_wait: the waiter takes both over.
EnqueueWait(o) ==
    /\ kind[o] = "fence"
    /\ Goes(o, "submitted", "waiting")
    /\ handed' = [handed EXCEPT ![o] = sync[o]]
    /\ sync' = [sync EXCEPT ![o] = {}]
    /\ UNCHANGED <<kind, loans, recorded, holder, result, outcome, gpuSide>>

\* The waiter cannot take the job, or what calls it throws: whoever holds the
\* objects waits for the work and destroys them.
EnqueueWaitFails(o) ==
    /\ MayFail("enqueue") /\ kind[o] = "fence"
    /\ Goes(o, "submitted", "reclaim")
    /\ Owe(o, "error")
    /\ UNCHANGED <<kind, loans, recorded, sync, handed, holder, outcome, gpuSide>>

\* reclaim_submission_sync, with a fence.
Reclaim(o) ==
    /\ WorkOver(o)
    /\ Goes(o, "reclaim", "release")
    /\ sync' = [sync EXCEPT ![o] = {}]
    /\ UNCHANGED <<kind, loans, recorded, handed, holder, result, outcome, gpuSide>>

\* Mutant: the lock stays with the operation.
QueueIdle_KeepLock(o) ==
    /\ \A other \in Ops : ScopeFamily[other] = ScopeFamily[o] => WorkOver(other)
    /\ Goes(o, "idling", "release")
    /\ UNCHANGED <<kind, loans, recorded, sync, handed, holder, result, outcome, gpuSide>>

\* reclaim_submission_sync, without: it holds the queue's lock meanwhile.
LockQueue(o) ==
    /\ ~ Busy(ScopeFamily[o])
    /\ Goes(o, "idle", "idling")
    /\ holder' = [holder EXCEPT ![o] = TRUE]
    /\ UNCHANGED <<kind, loans, recorded, sync, handed, result, outcome, gpuSide>>

QueueIdle(o) ==
    /\ \A other \in Ops : ScopeFamily[other] = ScopeFamily[o] => WorkOver(other)
    /\ Goes(o, "idling", "release")
    /\ holder' = [holder EXCEPT ![o] = FALSE]
    /\ UNCHANGED <<kind, loans, recorded, sync, handed, result, outcome, gpuSide>>

\* What the end of the work may be reported as.
Reports(o) ==
    {"error"} \cup (IF work[o] = "done" THEN {"value"} ELSE {})
              \cup (IF kind[o] = "fence" THEN {"stopped"} ELSE {})

\* submit_and_wait: the fence is signalled, or the wait failed and a second
\* one tells that the work is over.
WaitForFence(o) ==
    /\ kind[o] # "fence" /\ WorkOver(o)
    /\ Goes(o, "submitted", "release")
    /\ sync' = [sync EXCEPT ![o] = {}]
    /\ \E r \in Reports(o) : Owe(o, r)
    /\ UNCHANGED <<kind, loans, recorded, handed, holder, outcome, gpuSide>>

\* The waiter has destroyed the objects and calls back (CompletionContract).
WaiterCalls(o) ==
    /\ WorkOver(o)
    /\ Goes(o, "waiting", "release")
    /\ handed' = [handed EXCEPT ![o] = {}]
    /\ \E r \in Reports(o) : Owe(o, r)
    /\ UNCHANGED <<kind, loans, recorded, sync, holder, outcome, gpuSide>>

-----------------------------------------------------------------------------
(* The environment *)

FinishWork(o) ==
    /\ work[o] = "queued"
    /\ work' = [work EXCEPT ![o] = "done"]
    /\ UNCHANGED <<kind, at, loans, recorded, sync, handed, holder, result,
                   outcome, lost>>

\* Before there is work, a lost device is a submission that fails.
LoseDevice ==
    /\ MayFail("lost") /\ ~ lost
    /\ \E o \in Ops : work[o] = "queued"
    /\ lost' = TRUE
    /\ UNCHANGED <<kind, at, loans, recorded, sync, handed, holder, result,
                   outcome, work>>

OpStep(o) ==
    \/ Enter(o) \/ StopAtEntry(o)
    \/ AcquirePool(o) \/ AcquirePoolFails(o)
    \/ AllocateBuffer(o) \/ AllocateBufferFails(o)
    \/ BeginRecording(o) \/ BeginRecordingFails(o)
    \/ \E b \in Bindings : Bind(o, b)
    \/ RecordFails(o) \/ EndRecording(o)
    \/ StopBeforeSubmit(o) \/ CreateSync(o) \/ CreateSyncFails(o)
    \/ Submit(o) \/ SubmitFails(o) \/ SubmitThrows(o)
    \/ EnqueueWait(o) \/ EnqueueWaitFails(o) \/ Reclaim(o)
    \/ LockQueue(o) \/ QueueIdle(o) \/ WaitForFence(o) \/ WaiterCalls(o)
    \/ ReleaseScope(o) \/ ReleaseSets(o) \/ CompleteScope(o)

ScopeNext ==
    \/ \E o \in Ops : OpStep(o) \/ FinishWork(o)
    \/ LoseDevice

ScopeSpec == ScopeInit /\ [][ScopeNext]_scopeVars

-----------------------------------------------------------------------------
(* Properties *)

Places == {"start", "open", "pool", "begin", "recording", "ready", "created",
           "submitted", "waiting", "reclaim", "idle", "idling", "release",
           "sets", "complete", "completed"}

\* The variables hold what the code's objects can hold.
ScopeTypeOK ==
    /\ kind \in [Ops -> {"none", "fence", "wait", "manual"}]
    /\ at \in [Ops -> Places]
    /\ lease \in [Ops -> Pools \cup {NoPool}]
    /\ buffer \in [Ops -> BOOLEAN]
    /\ cache \in SUBSET Pools
    /\ family \in [Pools -> {ScopeFamily[o] : o \in Ops} \cup {NoPool}]
    /\ borrowed \in [Ops -> SUBSET Sets]
    /\ current \in [Ops -> SUBSET Sets]
    /\ contents \in [Sets -> SUBSET Bindings]
    /\ recorded \in [Ops -> SUBSET (Sets \X Bindings)]
    /\ sync \in [Ops -> SUBSET {"semaphore", "fence"}]
    /\ handed \in [Ops -> SUBSET {"semaphore", "fence"}]
    /\ holder \in [Ops -> BOOLEAN]
    /\ result \in [Ops -> {"value", "error", "exception", "stopped"}]
    /\ outcome \in [Ops -> {"none", "value", "error", "exception", "stopped"}]
    /\ work \in [Ops -> {"none", "queued", "done"}]
    /\ lost \in BOOLEAN

\* "A checked-out pool has exactly one host owner; only returned pools appear
\* here": no two operations lease one pool, none is cached meanwhile, and every
\* pool serves the family it was created for.
PoolsOwnedOnce ==
    /\ \A o \in Ops : lease[o] # NoPool =>
        /\ lease[o] \notin cache
        /\ family[lease[o]] = ScopeFamily[o]
        /\ \A other \in Ops \ {o} : lease[other] # lease[o]
    /\ \A p \in cache : family[p] # NoPool

\* What the GPU may still use is there, whoever fails or stops: the command
\* buffer and its pool, the semaphore and the fence, and every descriptor set
\* that was bound, lent to nobody else and written as it was when bound.
RunningWorkKeepsLoans ==
    \A o \in Ops : work[o] = "queued" /\ ~ lost =>
        /\ buffer[o] /\ lease[o] # NoPool
        /\ sync[o] \cup handed[o] = SyncOf(o)
        /\ \A r \in recorded[o] :
            /\ r[1] \in borrowed[o]
            /\ contents[r[1]] = {r[2]}
            /\ \A other \in Ops \ {o} : r[1] \notin borrowed[other]

\* An operation completes when it holds nothing any more, not even the queue's
\* lock. The semaphore and fence of a submission that threw are the exception:
\* they are never destroyed.
CompletedHoldsNothing ==
    \A o \in Ops : at[o] = "completed" =>
        /\ lease[o] = NoPool /\ ~ buffer[o] /\ borrowed[o] = {}
        /\ handed[o] = {} /\ ~ holder[o]
        /\ sync[o] # {} => work[o] = "none" /\ outcome[o] = "exception"

\* set_value says that the GPU has done the work.
ValueAfterWork ==
    \A o \in Ops : outcome[o] = "value" => work[o] = "done"

\* Whatever failed, somebody can go on until all have completed: a wait for the
\* queue to be idle, which holds the queue's lock, never waits for an operation
\* that waits for that lock.
NobodyStuck ==
    (\E o \in Ops : at[o] # "completed")
        => ENABLED (\E o \in Ops : OpStep(o) \/ FinishWork(o))

\* A loan has one holder, and what the GPU may still use is on loan.
LoansKept == ScopeTypeOK /\ PoolsOwnedOnce /\ RunningWorkKeepsLoans

\* What a completion says is true: everything is returned, and a value means
\* that the work is done.
CompletesClean == CompletedHoldsNothing /\ ValueAfterWork

\* What is lent stays lent while it is used and is returned before completion.
ScopesSafe == LoansKept /\ CompletesClean
=============================================================================
