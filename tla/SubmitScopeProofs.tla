--------------------------- MODULE SubmitScopeProofs ---------------------------
(***************************************************************************)
(* Theorems about SubmitScope, for any operations on any queues, any pools *)
(* and descriptor sets, whichever calls may fail; and about Profiler, for  *)
(* any captures and graphs that share its query pairs; and about           *)
(* ResourceTracker, for any resources, queues and lists of declarations.   *)
(***************************************************************************)
EXTENDS SubmitScope, Profiler, ResourceTracker, SequenceTheorems,
        FiniteSetTheorems, WellFoundedInduction, TLAPS

-----------------------------------------------------------------------------
(* The inductive invariant *)

\* Where an operation leases a pool, and where it also has a buffer of it.
Leasing == {"pool", "begin", "recording", "ready", "created", "submitted",
            "waiting", "reclaim", "idle", "idling", "release"}
Buffering == Leasing \ {"pool"}

\* Where it may have descriptor sets, and where its end is decided.
Borrowing == (Buffering \ {"begin"}) \cup {"sets"}
Ending == {"release", "sets", "complete", "completed"}

\* A pool that exists has one place, and its family is known.
PoolInv ==
    /\ \A o \in Ops : lease[o] # NoPool =>
        /\ lease[o] \notin cache
        /\ family[lease[o]] = ScopeFamily[o]
        /\ \A other \in Ops \ {o} : lease[other] # lease[o]
    /\ \A p \in cache : family[p] # NoPool

\* A set has one borrower, and says what its borrower's commands expect.
SetInv ==
    \A o \in Ops :
        /\ current[o] \subseteq borrowed[o]
        /\ \A r \in recorded[o] : r[1] \in borrowed[o] /\ contents[r[1]] = {r[2]}
        /\ \A other \in Ops \ {o} : borrowed[o] \cap borrowed[other] = {}

\* What an operation has where it is.
LoanInv ==
    \A o \in Ops :
        /\ lease[o] # NoPool <=> at[o] \in Leasing
        /\ buffer[o] <=> at[o] \in Buffering
        /\ borrowed[o] # {} => at[o] \in Borrowing
        /\ holder[o] <=> at[o] = "idling"

\* The semaphore and the fence have one owner while the work is under way; one
\* that is left over is that of a submission that threw.
SyncInv ==
    \A o \in Ops :
        /\ at[o] = "start" => kind[o] = "none"
        /\ at[o] \in {"created", "submitted", "reclaim"} => sync[o] = SyncOf(o)
        /\ at[o] = "waiting" => sync[o] = {} /\ handed[o] = SyncOf(o)
        /\ at[o] # "waiting" => handed[o] = {}
        /\ sync[o] # {} => \/ at[o] \in {"created", "submitted", "reclaim"}
                           \/ at[o] \in Ending /\ work[o] = "none" /\ result[o] = "exception"

\* The work begins with the submission and is over when the end is decided; a
\* value is decided on when it is done.
WorkInv ==
    \A o \in Ops :
        /\ work[o] # "none" => at[o] \in {"submitted", "waiting", "reclaim"} \cup Ending
        /\ at[o] \in Ending => WorkOver(o)
        /\ at[o] \in Ending \cup {"reclaim", "idle", "idling"} /\ result[o] = "value"
                => work[o] = "done"
        /\ outcome[o] = IF at[o] = "completed" THEN result[o] ELSE "none"

PlaceInv == LoanInv /\ SyncInv /\ WorkInv

ScopeIInv == ScopeTypeOK /\ PoolInv /\ SetInv /\ PlaceInv

-----------------------------------------------------------------------------
(* Helpers *)

\* A handle that comes back is one of those that could.
LEMMA AnyOfIsOne == ASSUME NEW S, S # {} PROVE AnyOf(S) \in S
    BY DEF AnyOf

\* acquire_command_pool takes a cached pool of the family, or makes a new one.
LEMMA PoolFound ==
    ASSUME ScopeTypeOK, NEW o \in Ops, AcquirePool(o)
    PROVE  \E p \in Pools :
            /\ lease' = [lease EXCEPT ![o] = p]
            /\ \/ /\ p \in cache /\ family[p] = ScopeFamily[o]
                  /\ cache' = cache \ {p} /\ family' = family
               \/ /\ family[p] = NoPool
                  /\ family' = [family EXCEPT ![p] = ScopeFamily[o]] /\ cache' = cache
<1>1. CASE Cached(o) # {}
    <2>1. AnyOf(Cached(o)) \in Cached(o)
        BY <1>1, AnyOfIsOne
    <2>2. AnyOf(Cached(o)) \in Pools
        BY <2>1 DEF Cached, ScopeTypeOK
    <2> QED BY <1>1, <2>1, <2>2 DEF AcquirePool, Cached
<1>2. CASE Cached(o) = {}
    <2>1. NewPools # {}
        BY <1>2 DEF AcquirePool
    <2>2. AnyOf(NewPools) \in NewPools
        BY <2>1, AnyOfIsOne
    <2> QED BY <1>2, <2>2 DEF AcquirePool, NewPools
<1> QED BY <1>1, <1>2

\* Steps that change nothing but where an operation is, its result and work.
Moves(o) ==
    \/ StopAtEntry(o) \/ AcquirePoolFails(o) \/ BeginRecording(o)
    \/ RecordFails(o) \/ EndRecording(o) \/ StopBeforeSubmit(o) \/ CreateSyncFails(o)
    \/ Submit(o) \/ SubmitThrows(o) \/ EnqueueWaitFails(o)

\* Steps that change who owns the semaphore and the fence.
SyncSteps(o) ==
    \/ CreateSync(o) \/ SubmitFails(o) \/ EnqueueWait(o) \/ Reclaim(o)
    \/ WaitForFence(o) \/ WaiterCalls(o)

\* Steps that give the pool back.
PoolSteps(o) == AllocateBufferFails(o) \/ BeginRecordingFails(o) \/ ReleaseScope(o)

\* The remaining steps of an operation.
OtherSteps(o) ==
    \/ Enter(o) \/ AllocateBuffer(o) \/ LockQueue(o) \/ QueueIdle(o) \/ CompleteScope(o)

\* Every step of the system is one of these.
LEMMA ScopeSteps ==
    ASSUME ScopeNext
    PROVE  \/ LoseDevice
           \/ \E o \in Ops : \/ Moves(o) \/ SyncSteps(o) \/ PoolSteps(o) \/ OtherSteps(o)
                             \/ AcquirePool(o) \/ ReleaseSets(o) \/ FinishWork(o)
                             \/ \E b \in Bindings : Bind(o, b)
    BY DEF ScopeNext, OpStep, Moves, SyncSteps, PoolSteps, OtherSteps

-----------------------------------------------------------------------------
(* Types *)

LEMMA TypeStep ==
    ASSUME ScopeTypeOK, PlaceInv, ScopeNext
    PROVE  ScopeTypeOK'
<1> USE DEF ScopeTypeOK, Goes, Owe, Places, loans, gpuSide
<1>1. ASSUME NEW o \in Ops, Moves(o) PROVE ScopeTypeOK'
    BY <1>1 DEF Moves, StopAtEntry, AcquirePoolFails, BeginRecording, RecordFails,
                EndRecording, StopBeforeSubmit, CreateSyncFails, Submit, SubmitThrows,
                EnqueueWaitFails, AfterFailure
<1>2. ASSUME NEW o \in Ops, SyncSteps(o) PROVE ScopeTypeOK'
    BY <1>2 DEF SyncSteps, CreateSync, SubmitFails, EnqueueWait, Reclaim,
                WaitForFence, WaiterCalls, SyncOf, AfterFailure, Reports
<1>3. ASSUME NEW o \in Ops, PoolSteps(o) PROVE ScopeTypeOK'
    <2>1. lease[o] \in Pools
        BY <1>3 DEF PoolSteps, AllocateBufferFails, BeginRecordingFails, ReleaseScope,
                    PlaceInv, LoanInv, Leasing
    <2> QED
        BY <1>3, <2>1 DEF PoolSteps, AllocateBufferFails, BeginRecordingFails,
                          ReleaseScope, ReturnPool
<1>4. ASSUME NEW o \in Ops, OtherSteps(o) PROVE ScopeTypeOK'
    <2>1. CASE Enter(o)
        BY <2>1, ScopeAssumption DEF Enter
    <2>2. CASE CompleteScope(o)
        <3>1. result[o] \in {"none", "value", "error", "exception", "stopped"}
            OBVIOUS
        <3> QED BY <2>2, <3>1 DEF CompleteScope
    <2>3. CASE AllocateBuffer(o) \/ LockQueue(o) \/ QueueIdle(o)
        BY <2>3 DEF AllocateBuffer, LockQueue, QueueIdle
    <2> QED BY <1>4, <2>1, <2>2, <2>3 DEF OtherSteps
<1>5. ASSUME NEW o \in Ops, AcquirePool(o) PROVE ScopeTypeOK'
    <2>1. PICK p \in Pools :
            /\ lease' = [lease EXCEPT ![o] = p]
            /\ cache' \in {cache, cache \ {p}}
            /\ family' \in {family, [family EXCEPT ![p] = ScopeFamily[o]]}
        BY <1>5, PoolFound
    <2>2. /\ lease' \in [Ops -> Pools \cup {NoPool}]
          /\ cache' \in SUBSET Pools
          /\ family' \in [Pools -> {ScopeFamily[q] : q \in Ops} \cup {NoPool}]
        BY <2>1
    <2> QED BY <1>5, <2>2 DEF AcquirePool
<1>6. ASSUME NEW o \in Ops, NEW b \in Bindings, Bind(o, b) PROVE ScopeTypeOK'
    <2>1. CASE \E s \in current[o] : contents[s] = {b}
        BY <1>6, <2>1 DEF Bind, BindSet
    <2>2. CASE ~ \E s \in current[o] : contents[s] = {b}
        <3>1. PICK s \in FreeSets : LendSet(o, s, b)
            BY <1>6, <2>2, AnyOfIsOne DEF Bind, BindSet
        <3>2. s \in Sets
            BY DEF FreeSets
        <3> QED BY <1>6, <3>1, <3>2 DEF Bind, LendSet
    <2> QED BY <2>1, <2>2
<1>7. ASSUME NEW o \in Ops, ReleaseSets(o) PROVE ScopeTypeOK'
    BY <1>7 DEF ReleaseSets
<1>8. ASSUME NEW o \in Ops, FinishWork(o) PROVE ScopeTypeOK'
    BY <1>8 DEF FinishWork
<1>9. CASE LoseDevice
    BY <1>9 DEF LoseDevice
<1> QED BY ScopeSteps, <1>1, <1>2, <1>3, <1>4, <1>5, <1>6, <1>7, <1>8, <1>9

-----------------------------------------------------------------------------
(* Pools and descriptor sets *)

\* A pool is leased to one, or kept for the next.
LEMMA PoolStep ==
    ASSUME ScopeTypeOK, PoolInv, PlaceInv, ScopeNext
    PROVE  PoolInv'
<1>1. ASSUME UNCHANGED <<lease, cache, family>> PROVE PoolInv'
    BY <1>1 DEF PoolInv
<1>2. ASSUME NEW o \in Ops, Moves(o) \/ SyncSteps(o) \/ OtherSteps(o)
      PROVE  UNCHANGED <<lease, cache, family>>
    BY <1>2 DEF Moves, StopAtEntry, AcquirePoolFails, BeginRecording, RecordFails,
                EndRecording, StopBeforeSubmit, CreateSyncFails, Submit, SubmitThrows,
                EnqueueWaitFails, SyncSteps, CreateSync, SubmitFails, EnqueueWait, Reclaim,
                WaitForFence, WaiterCalls, OtherSteps, Enter, AllocateBuffer, LockQueue,
                QueueIdle, CompleteScope, loans
<1>3. ASSUME NEW o \in Ops, PoolSteps(o) PROVE PoolInv'
    <2>1. /\ ReturnPool(o)
          /\ lease' = [lease EXCEPT ![o] = NoPool]
          /\ lease[o] \in Pools /\ lease[o] # NoPool
        BY <1>3 DEF PoolSteps, AllocateBufferFails, BeginRecordingFails, ReleaseScope,
                    PlaceInv, LoanInv, Leasing, ScopeTypeOK, Goes
    <2>2. \A other \in Ops : lease'[other] # NoPool => other # o /\ lease'[other] = lease[other]
        BY <2>1 DEF ScopeTypeOK
    <2>3. CASE cache' = cache \cup {lease[o]} /\ family' = family
        BY <2>1, <2>2, <2>3, ScopeAssumption DEF PoolInv
    <2>4. CASE cache' = cache /\ family' = [family EXCEPT ![lease[o]] = NoPool]
        BY <2>1, <2>2, <2>4 DEF PoolInv, ScopeTypeOK
    <2> QED
        BY <2>1, <2>3, <2>4 DEF ReturnPool
<1>4. ASSUME NEW o \in Ops, AcquirePool(o) PROVE PoolInv'
    <2>1. PICK p \in Pools :
            /\ lease' = [lease EXCEPT ![o] = p]
            /\ \/ /\ p \in cache /\ family[p] = ScopeFamily[o]
                  /\ cache' = cache \ {p} /\ family' = family
               \/ /\ family[p] = NoPool
                  /\ family' = [family EXCEPT ![p] = ScopeFamily[o]] /\ cache' = cache
        BY <1>4, PoolFound
    <2>2. p # NoPool /\ p \notin cache' /\ family'[p] = ScopeFamily[o]
        BY <2>1, ScopeAssumption DEF PoolInv, ScopeTypeOK
    <2>3. \A other \in Ops : lease[other] # p
        BY <2>1, ScopeAssumption DEF PoolInv
    <2>4. \A q \in Pools : q # p => family'[q] = family[q]
        BY <2>1 DEF ScopeTypeOK
    <2> QED BY <2>1, <2>2, <2>3, <2>4, ScopeAssumption DEF PoolInv, ScopeTypeOK
<1>5. ASSUME NEW o \in Ops, ReleaseSets(o) \/ FinishWork(o) \/ \E b \in Bindings : Bind(o, b)
      PROVE  UNCHANGED <<lease, cache, family>>
    BY <1>5 DEF ReleaseSets, FinishWork, Bind, loans
<1>6. LoseDevice => UNCHANGED <<lease, cache, family>>
    BY DEF LoseDevice, loans
<1> QED BY ScopeSteps, <1>1, <1>2, <1>3, <1>4, <1>5, <1>6

\* A set is lent once and written when it is lent.
LEMMA SetStep ==
    ASSUME ScopeTypeOK, SetInv, ScopeNext
    PROVE  SetInv'
<1>1. ASSUME UNCHANGED <<borrowed, current, contents, recorded>> PROVE SetInv'
    BY <1>1 DEF SetInv
<1>2. ASSUME NEW o \in Ops, \/ Moves(o) \/ SyncSteps(o) \/ OtherSteps(o)
                            \/ PoolSteps(o) \/ AcquirePool(o) \/ FinishWork(o)
      PROVE  UNCHANGED <<borrowed, current, contents, recorded>>
    BY <1>2 DEF Moves, StopAtEntry, AcquirePoolFails, BeginRecording, RecordFails,
                EndRecording, StopBeforeSubmit, CreateSyncFails, Submit, SubmitThrows,
                EnqueueWaitFails, SyncSteps, CreateSync, SubmitFails, EnqueueWait, Reclaim,
                WaitForFence, WaiterCalls, OtherSteps, Enter, AllocateBuffer, LockQueue,
                QueueIdle, CompleteScope, PoolSteps, AllocateBufferFails,
                BeginRecordingFails, ReleaseScope, AcquirePool, FinishWork, loans
<1>3. ASSUME NEW o \in Ops, NEW b \in Bindings, Bind(o, b) PROVE SetInv'
    <2>1. CASE \E s \in current[o] : contents[s] = {b}
        <3>1. PICK s \in current[o] :
                /\ contents[s] = {b}
                /\ recorded' = [recorded EXCEPT ![o] = @ \cup {<<s, b>>}]
                /\ UNCHANGED <<borrowed, current, contents>>
            <4>1. BindSet(o, b)
                BY <1>3 DEF Bind
            <4> QED BY <2>1, <4>1 DEF BindSet
        <3>2. s \in borrowed[o]
            BY DEF SetInv
        <3>3. ASSUME NEW p \in Ops, NEW r \in recorded'[p]
              PROVE  r[1] \in borrowed[p] /\ contents[r[1]] = {r[2]}
            <4>1. CASE r \in recorded[p]
                BY <4>1 DEF SetInv
            <4>2. CASE r \notin recorded[p]
                <5>1. p = o /\ r = <<s, b>>
                    BY <3>1, <3>3, <4>2 DEF ScopeTypeOK
                <5> QED BY <3>1, <3>2, <5>1
            <4> QED BY <4>1, <4>2
        <3> QED BY <3>1, <3>3 DEF SetInv
    <2>2. CASE ~ \E s \in current[o] : contents[s] = {b}
        <3>1. PICK s \in FreeSets : LendSet(o, s, b)
            BY <1>3, <2>2, AnyOfIsOne DEF Bind, BindSet
        <3>2. s \in Sets /\ \A other \in Ops : s \notin borrowed[other]
            BY DEF FreeSets
        <3>3. /\ borrowed' = [borrowed EXCEPT ![o] = @ \cup {s}]
              /\ current' = [current EXCEPT ![o] = {s}]
              /\ contents' = [contents EXCEPT ![s] = {b}]
              /\ recorded' = [recorded EXCEPT ![o] = @ \cup {<<s, b>>}]
            BY <3>1 DEF LendSet
        <3>4. ASSUME NEW p \in Ops, NEW r \in recorded'[p]
              PROVE  r[1] \in borrowed'[p] /\ contents'[r[1]] = {r[2]}
            <4>1. CASE r \in recorded[p]
                BY <3>2, <3>3, <4>1 DEF SetInv, ScopeTypeOK
            <4>2. CASE r \notin recorded[p]
                BY <3>2, <3>3, <4>2 DEF ScopeTypeOK
            <4> QED BY <4>1, <4>2
        <3>5. ASSUME NEW p \in Ops
              PROVE  /\ current'[p] \subseteq borrowed'[p]
                     /\ \A other \in Ops \ {p} : borrowed'[p] \cap borrowed'[other] = {}
            BY <3>2, <3>3 DEF SetInv, ScopeTypeOK
        <3> QED BY <3>4, <3>5 DEF SetInv
    <2> QED BY <2>1, <2>2
<1>4. ASSUME NEW o \in Ops, ReleaseSets(o) PROVE SetInv'
    BY <1>4 DEF ReleaseSets, SetInv, ScopeTypeOK
<1>5. LoseDevice => UNCHANGED <<borrowed, current, contents, recorded>>
    BY DEF LoseDevice, loans
<1> QED BY ScopeSteps, <1>1, <1>2, <1>3, <1>4, <1>5

-----------------------------------------------------------------------------
(* What an operation has where it is *)

\* Loans are taken on the way in and given back on every way out; neither the
\* semaphore nor the fence is lost or destroyed too early; and the end is not
\* decided before the work is over.
LEMMA PlaceStep ==
    ASSUME ScopeTypeOK, PlaceInv, ScopeNext
    PROVE  PlaceInv'
<1>0. \A o \in Ops : AcquirePool(o) => \E p \in Pools : lease' = [lease EXCEPT ![o] = p]
    BY PoolFound
<1> USE DEF PlaceInv, LoanInv, SyncInv, WorkInv, Leasing, Buffering, Borrowing, Ending,
            ScopeTypeOK, Goes, Owe, SyncOf, WorkOver, loans, gpuSide
<1>1. ASSUME NEW o \in Ops, StopAtEntry(o) PROVE PlaceInv'
    BY <1>1 DEF StopAtEntry
<1>2. ASSUME NEW o \in Ops, BeginRecording(o) PROVE PlaceInv'
    BY <1>2 DEF BeginRecording
<1>3. ASSUME NEW o \in Ops, RecordFails(o) PROVE PlaceInv'
    BY <1>3 DEF RecordFails
<1>4. ASSUME NEW o \in Ops, EndRecording(o) PROVE PlaceInv'
    BY <1>4 DEF EndRecording
<1>5. ASSUME NEW o \in Ops, StopBeforeSubmit(o) PROVE PlaceInv'
    BY <1>5 DEF StopBeforeSubmit
<1>6. ASSUME NEW o \in Ops, CreateSync(o) PROVE PlaceInv'
    BY <1>6 DEF CreateSync
<1>7. ASSUME NEW o \in Ops, CreateSyncFails(o) PROVE PlaceInv'
    BY <1>7 DEF CreateSyncFails, AfterFailure
<1>8. ASSUME NEW o \in Ops, Submit(o) PROVE PlaceInv'
    BY <1>8 DEF Submit
<1>9. ASSUME NEW o \in Ops, SubmitFails(o) PROVE PlaceInv'
    BY <1>9 DEF SubmitFails, AfterFailure
<1>10. ASSUME NEW o \in Ops, SubmitThrows(o) PROVE PlaceInv'
    BY <1>10 DEF SubmitThrows
<1>11. ASSUME NEW o \in Ops, EnqueueWait(o) PROVE PlaceInv'
    BY <1>11 DEF EnqueueWait
<1>12. ASSUME NEW o \in Ops, EnqueueWaitFails(o) PROVE PlaceInv'
    BY <1>12 DEF EnqueueWaitFails
<1>13. ASSUME NEW o \in Ops, Reclaim(o) PROVE PlaceInv'
    BY <1>13 DEF Reclaim
<1>14. ASSUME NEW o \in Ops, LockQueue(o) PROVE PlaceInv'
    BY <1>14 DEF LockQueue
<1>15. ASSUME NEW o \in Ops, QueueIdle(o) PROVE PlaceInv'
    BY <1>15 DEF QueueIdle
<1>16. ASSUME NEW o \in Ops, WaitForFence(o) PROVE PlaceInv'
    BY <1>16 DEF WaitForFence, Reports
<1>17. ASSUME NEW o \in Ops, WaiterCalls(o) PROVE PlaceInv'
    BY <1>17 DEF WaiterCalls, Reports
<1>18. ASSUME NEW o \in Ops, Enter(o) PROVE PlaceInv'
    BY <1>18 DEF Enter
<1>19. ASSUME NEW o \in Ops, AllocateBuffer(o) PROVE PlaceInv'
    BY <1>19 DEF AllocateBuffer
<1>20. ASSUME NEW o \in Ops, AllocateBufferFails(o) PROVE PlaceInv'
    BY <1>20 DEF AllocateBufferFails
<1>21. ASSUME NEW o \in Ops, ReleaseScope(o) PROVE PlaceInv'
    BY <1>21 DEF ReleaseScope
<1>22. ASSUME NEW o \in Ops, ReleaseSets(o) PROVE PlaceInv'
    BY <1>22 DEF ReleaseSets
<1>23. ASSUME NEW o \in Ops, CompleteScope(o) PROVE PlaceInv'
    BY <1>23 DEF CompleteScope
<1>24. ASSUME NEW o \in Ops, AcquirePoolFails(o) PROVE PlaceInv'
    <2>1. /\ at[o] = "open" /\ at' = [at EXCEPT ![o] = "complete"]
          /\ result' = [result EXCEPT ![o] = "error"]
          /\ UNCHANGED <<kind, lease, buffer, borrowed, sync, handed, holder, outcome, work, lost>>
        BY <1>24 DEF AcquirePoolFails
    <2> QED BY <2>1
<1>25. ASSUME NEW o \in Ops, BeginRecordingFails(o) PROVE PlaceInv'
    <2>1. /\ at[o] = "begin" /\ at' = [at EXCEPT ![o] = "complete"]
          /\ buffer' = [buffer EXCEPT ![o] = FALSE]
          /\ lease' = [lease EXCEPT ![o] = NoPool]
          /\ result' = [result EXCEPT ![o] = "error"]
          /\ UNCHANGED <<kind, borrowed, sync, handed, holder, outcome, work, lost>>
        BY <1>25 DEF BeginRecordingFails
    <2>2. ASSUME NEW p \in Ops
          PROVE  /\ lease'[p] # NoPool <=> at'[p] \in Leasing
                 /\ buffer'[p] <=> at'[p] \in Buffering
                 /\ borrowed'[p] # {} => at'[p] \in Borrowing
                 /\ holder'[p] <=> at'[p] = "idling"
        <3>1. CASE p = o
            BY <2>1, <3>1
        <3>2. CASE p # o
            BY <2>1, <3>2
        <3> QED BY <3>1, <3>2
    <2>3. LoanInv'
        BY <2>2
    <2>4. SyncInv'
        BY <2>1
    <2>5. WorkInv'
        BY <2>1
    <2> QED BY <2>3, <2>4, <2>5
<1>26. ASSUME NEW o \in Ops, AcquirePool(o) PROVE PlaceInv'
    <2>1. PICK p \in Pools : lease' = [lease EXCEPT ![o] = p]
        BY <1>26, <1>0
    <2>2. p # NoPool
        BY ScopeAssumption
    <2>3. /\ at[o] = "open" /\ at' = [at EXCEPT ![o] = "pool"]
          /\ UNCHANGED <<kind, buffer, borrowed, sync, handed, holder, result, outcome, work, lost>>
        BY <1>26 DEF AcquirePool
    <2>4. LoanInv'
        BY <2>1, <2>2, <2>3
    <2>5. SyncInv'
        BY <2>3
    <2>6. WorkInv'
        BY <2>3
    <2> QED BY <2>4, <2>5, <2>6
<1>27. ASSUME NEW o \in Ops, NEW b \in Bindings, Bind(o, b) PROVE PlaceInv'
    <2>1. \A p \in Ops \ {o} : borrowed'[p] = borrowed[p]
        BY <1>27 DEF Bind, BindSet, LendSet
    <2>2. /\ at[o] = "recording"
          /\ UNCHANGED <<kind, at, lease, buffer, sync, handed, holder, result, outcome, work, lost>>
        BY <1>27 DEF Bind
    <2>3. LoanInv'
        BY <2>1, <2>2
    <2>4. SyncInv' /\ WorkInv'
        BY <2>2
    <2> QED BY <2>3, <2>4
<1>28. ASSUME NEW o \in Ops, FinishWork(o) PROVE PlaceInv'
    BY <1>28 DEF FinishWork
<1>29. CASE LoseDevice
    BY <1>29 DEF LoseDevice
<1> HIDE DEF PlaceInv, LoanInv, SyncInv, WorkInv, Leasing, Buffering, Borrowing, Ending,
             ScopeTypeOK, Goes, Owe, SyncOf, WorkOver, loans, gpuSide
<1> QED
    BY <1>1, <1>2, <1>3, <1>4, <1>5, <1>6, <1>7, <1>8, <1>9, <1>10, <1>11, <1>12, <1>13,
       <1>14, <1>15, <1>16, <1>17, <1>18, <1>19, <1>20, <1>21, <1>22, <1>23, <1>24,
       <1>25, <1>26, <1>27, <1>28, <1>29
    DEF ScopeNext, OpStep

-----------------------------------------------------------------------------
(* Theorems *)

LEMMA ScopeInvariant == ScopeSpec => []ScopeIInv
<1>1. ScopeInit => ScopeIInv
    <2> SUFFICES ASSUME ScopeInit PROVE ScopeIInv
        OBVIOUS
    <2>1. ScopeTypeOK
        BY DEF ScopeInit, ScopeTypeOK, Places
    <2>2. PoolInv /\ SetInv
        BY DEF ScopeInit, PoolInv, SetInv
    <2>3. LoanInv
        BY DEF ScopeInit, LoanInv, Leasing, Buffering, Borrowing
    <2>4. SyncInv
        BY DEF ScopeInit, SyncInv
    <2>5. WorkInv
        BY DEF ScopeInit, WorkInv, Ending
    <2> QED BY <2>1, <2>2, <2>3, <2>4, <2>5 DEF ScopeIInv, PlaceInv
<1>2. ScopeIInv /\ [ScopeNext]_scopeVars => ScopeIInv'
    <2>1. ASSUME ScopeIInv, ScopeNext PROVE ScopeIInv'
        BY <2>1, TypeStep, PoolStep, SetStep, PlaceStep DEF ScopeIInv
    <2>2. ASSUME ScopeIInv, UNCHANGED scopeVars PROVE ScopeIInv'
        BY <2>2 DEF ScopeIInv, PlaceInv, ScopeTypeOK, PoolInv, SetInv, LoanInv, SyncInv, WorkInv,
                    SyncOf, WorkOver, scopeVars, loans, gpuSide
    <2> QED BY <2>1, <2>2
<1> QED BY <1>1, <1>2, PTL DEF ScopeSpec

\* context_runtime.cpp and submit_scope.cpp, whatever fails in between and
\* however many operations there are: a pool is checked out to one operation or
\* cached, and the pool, the buffer, the semaphore, the fence and the descriptor
\* sets of submitted work stay until the work is over.
THEOREM LoansAreKept == ScopeSpec => []LoansKept
<1>1. ScopeIInv => PoolsOwnedOnce
    BY DEF ScopeIInv, PoolInv, PoolsOwnedOnce
<1>2. ScopeIInv => RunningWorkKeepsLoans
    <2> SUFFICES ASSUME ScopeIInv, NEW o \in Ops, work[o] = "queued", ~ lost
                 PROVE  /\ buffer[o] /\ lease[o] # NoPool
                        /\ sync[o] \cup handed[o] = SyncOf(o)
                        /\ \A r \in recorded[o] :
                            /\ r[1] \in borrowed[o]
                            /\ contents[r[1]] = {r[2]}
                            /\ \A other \in Ops \ {o} : r[1] \notin borrowed[other]
        BY DEF RunningWorkKeepsLoans
    <2>1. at[o] \in {"submitted", "waiting", "reclaim"}
        BY DEF ScopeIInv, PlaceInv, WorkInv, WorkOver
    <2>2. buffer[o] /\ lease[o] # NoPool
        BY <2>1 DEF ScopeIInv, PlaceInv, LoanInv, Leasing, Buffering
    <2>3. sync[o] \cup handed[o] = SyncOf(o)
        BY <2>1 DEF ScopeIInv, PlaceInv, SyncInv
    <2> QED BY <2>2, <2>3 DEF ScopeIInv, SetInv
<1> QED BY <1>1, <1>2, ScopeInvariant, PTL DEF LoansKept, ScopeIInv

\* complete_after_reclaim: an operation completes when it has given everything
\* back, whichever way it came; and a value says that the GPU has done the work.
THEOREM CompletionsAreClean == ScopeSpec => []CompletesClean
<1>1. ScopeIInv => CompletesClean
    BY DEF ScopeIInv, PlaceInv, CompletesClean, CompletedHoldsNothing, ValueAfterWork, LoanInv,
           SyncInv, WorkInv, Leasing, Buffering, Borrowing, Ending, ScopeTypeOK
<1> QED BY <1>1, ScopeInvariant, PTL

\* Submission scopes are safe, for any operations, pools, sets and faults.
THEOREM ScopesAreSafe == ScopeSpec => []ScopesSafe
    BY LoansAreKept, CompletionsAreClean, PTL DEF ScopesSafe

-----------------------------------------------------------------------------
(* The profiler: the inductive invariant *)

Free(q) == \E i \in DOMAIN freePairs[q[1]] : freePairs[q[1]][i] = q[2]

Held(q) == \E k \in Recorders : \E i \in DOMAIN held[k] : held[k][i] = q

InUse == {q \in MadePairs : ~ Free(q)}

\* The pools, their free lists and the pairs that recorders hold.
PairTypes ==
    /\ pages \in Seq({RecorderFamily[k] : k \in Recorders})
    /\ 1 .. Len(pages) \subseteq Pages
    /\ freePairs \in [Pages -> Seq(1 .. PairsPerPage)]
    /\ held \in [Recorders -> Seq(Pairs)]
    /\ \A k \in Recorders : Len(held[k]) <= MaxRegions
    /\ \A k \in Recorders : \A i \in DOMAIN held[k] : held[k][i] \in MadePairs
    /\ quarantined \in SUBSET MadePairs

\* Every pair that was made is free, held or quarantined, and no two of these.
QueryPlaces ==
    /\ \A q \in MadePairs : Free(q) \/ Held(q) \/ q \in quarantined
    /\ \A q \in MadePairs : ~ (Free(q) /\ Held(q))
    /\ \A q \in quarantined : ~ Free(q) /\ ~ Held(q)

\* It is free once, or held once.
OnceInv ==
    /\ \A p \in Pages : \A i, j \in DOMAIN freePairs[p] :
            freePairs[p][i] = freePairs[p][j] => i = j
    /\ \A k, l \in Recorders : \A i \in DOMAIN held[k], j \in DOMAIN held[l] :
            held[k][i] = held[l][j] => k = l /\ i = j

LentInv == lent = Cardinality(InUse) /\ lent <= MaxInFlight

PairInv == PairTypes /\ QueryPlaces /\ OnceInv /\ LentInv

-----------------------------------------------------------------------------
(* Query pairs *)

\* There are finitely many pairs, whatever is free.
LEMMA PairsFinite ==
    ASSUME PairTypes
    PROVE  /\ IsFiniteSet(MadePairs)
           /\ IsFiniteSet(InUse)
           /\ Cardinality(InUse) \in Nat
<1>1. Len(pages) \in Nat /\ PairsPerPage \in Nat
    BY ProfilerAssumption DEF PairTypes
<1>2. IsFiniteSet(1 .. Len(pages)) /\ IsFiniteSet(1 .. PairsPerPage)
    BY <1>1, FS_Interval
<1>3. IsFiniteSet(MadePairs)
    BY <1>2, FS_Product DEF MadePairs
<1>4. InUse \in SUBSET MadePairs
    BY DEF InUse
<1>5. IsFiniteSet(InUse)
    BY <1>3, <1>4, FS_Subset
<1> QED
    BY <1>3, <1>5, FS_CardinalityType

\* A page that was made is one of the pages there may be.
LEMMA MadeArePairs == PairTypes => MadePairs \subseteq Pairs
BY DEF PairTypes, MadePairs, Pairs

\* A set of pages has a first one.
LEMMA FirstPage ==
    ASSUME NEW S \in SUBSET Nat, S # {}
    PROVE  \E p \in S : \A other \in S : p <= other
<1>1. \E x \in S : \A y \in S : ~ (<<y, x>> \in OpToRel(<, Nat))
    BY WFMin, NatLessThanWellFounded
<1>2. PICK x \in S : \A y \in S : ~ (<<y, x>> \in OpToRel(<, Nat))
    BY <1>1
<1>3. \A y \in S : ~ (y < x)
    BY <1>2 DEF OpToRel
<1> QED
    BY <1>3

\* What a recorder holds after it was lent a pair, and after it gave one back.
LEMMA HeldAfterLending ==
    ASSUME PairTypes, NEW k \in Recorders, NEW q \in Pairs,
           held' = [held EXCEPT ![k] = Append(@, q)]
    PROVE  /\ held' \in [Recorders -> Seq(Pairs)]
           /\ Len(held'[k]) = Len(held[k]) + 1
           /\ DOMAIN held'[k] = 1 .. Len(held[k]) + 1
           /\ DOMAIN held[k] = 1 .. Len(held[k])
           /\ Len(held[k]) \in Nat
           /\ \A i \in DOMAIN held[k] : held'[k][i] = held[k][i]
           /\ Len(held[k]) + 1 \in DOMAIN held'[k] /\ held'[k][Len(held[k]) + 1] = q
           /\ \A l \in Recorders \ {k} : held'[l] = held[l]
           /\ \A l \in Recorders : \A i \in DOMAIN held[l] :
                i \in DOMAIN held'[l] /\ held'[l][i] = held[l][i]
           /\ \A l \in Recorders : \A i \in DOMAIN held'[l] :
                \/ i \in DOMAIN held[l] /\ held'[l][i] = held[l][i]
                \/ l = k /\ i = Len(held[k]) + 1 /\ held'[l][i] = q
<1>1. held[k] \in Seq(Pairs) /\ held'[k] = Append(held[k], q)
    BY DEF PairTypes
<1>2. held' \in [Recorders -> Seq(Pairs)] /\ \A l \in Recorders \ {k} : held'[l] = held[l]
    BY <1>1, AppendProperties DEF PairTypes
<1>3. /\ Len(held'[k]) = Len(held[k]) + 1
      /\ DOMAIN held'[k] = 1 .. Len(held[k]) + 1
      /\ DOMAIN held[k] = 1 .. Len(held[k])
      /\ Len(held[k]) \in Nat
      /\ \A i \in 1 .. Len(held[k]) : held'[k][i] = held[k][i]
      /\ held'[k][Len(held[k]) + 1] = q
    BY <1>1, <1>2, AppendProperties
<1>4. ASSUME NEW l \in Recorders, NEW i \in DOMAIN held[l]
      PROVE  i \in DOMAIN held'[l] /\ held'[l][i] = held[l][i]
    <2>1. CASE l = k
        BY <1>3, <1>4, <2>1
    <2>2. CASE l # k
        BY <1>2, <1>4, <2>2
    <2> QED BY <2>1, <2>2
<1>5. ASSUME NEW l \in Recorders, NEW i \in DOMAIN held'[l]
      PROVE  \/ i \in DOMAIN held[l] /\ held'[l][i] = held[l][i]
             \/ l = k /\ i = Len(held[k]) + 1 /\ held'[l][i] = q
    <2>1. CASE l = k
        BY <1>3, <1>5, <2>1
    <2>2. CASE l # k
        BY <1>2, <1>5, <2>2
    <2> QED BY <2>1, <2>2
<1> QED
    BY <1>2, <1>3, <1>4, <1>5

\* Nobody else's pairs change.
LEMMA HeldAfterRelease ==
    ASSUME PairTypes, NEW k \in Recorders, held[k] # <<>>,
           held' = [held EXCEPT ![k] = Tail(@)]
    PROVE  /\ held' \in [Recorders -> Seq(Pairs)]
           /\ Len(held'[k]) = Len(held[k]) - 1
           /\ DOMAIN held[k] = 1 .. Len(held[k])
           /\ DOMAIN held'[k] = 1 .. Len(held[k]) - 1
           /\ Len(held[k]) \in Nat \ {0}
           /\ \A i \in DOMAIN held'[k] : held'[k][i] = held[k][i + 1]
           /\ Head(held[k]) = held[k][1] /\ Head(held[k]) \in MadePairs
           /\ \A l \in Recorders \ {k} : held'[l] = held[l]
           /\ \A l \in Recorders : \A i \in DOMAIN held'[l] :
                \E a \in DOMAIN held[l] :
                    held[l][a] = held'[l][i] /\ a = (IF l = k THEN i + 1 ELSE i)
           /\ \A l \in Recorders : \A a \in DOMAIN held[l] :
                \/ l = k /\ a = 1
                \/ \E i \in DOMAIN held'[l] : held'[l][i] = held[l][a]
<1>1. held[k] \in Seq(Pairs) /\ held'[k] = Tail(held[k])
    BY DEF PairTypes
<1>2. Len(held[k]) \in Nat \ {0} /\ DOMAIN held[k] = 1 .. Len(held[k])
    BY <1>1, EmptySeq
<1>3. Head(held[k]) = held[k][1] /\ Head(held[k]) \in MadePairs
    BY <1>1, <1>2 DEF PairTypes
<1>4. held' \in [Recorders -> Seq(Pairs)] /\ \A l \in Recorders \ {k} : held'[l] = held[l]
    BY <1>1, HeadTailProperties DEF PairTypes
<1>5. /\ Len(held'[k]) = Len(held[k]) - 1
      /\ DOMAIN held'[k] = 1 .. Len(held[k]) - 1
      /\ \A i \in DOMAIN held'[k] : held'[k][i] = held[k][i + 1]
    BY <1>1, <1>2, <1>4, HeadTailProperties
<1>6. ASSUME NEW l \in Recorders, NEW i \in DOMAIN held'[l]
      PROVE  \E a \in DOMAIN held[l] :
                held[l][a] = held'[l][i] /\ a = (IF l = k THEN i + 1 ELSE i)
    <2>1. CASE l = k
        <3>1. i + 1 \in DOMAIN held[l] /\ held[l][i + 1] = held'[l][i]
            BY <1>2, <1>5, <1>6, <2>1
        <3> QED BY <2>1, <3>1
    <2>2. CASE l # k
        BY <1>4, <1>6, <2>2
    <2> QED BY <2>1, <2>2
<1>7. ASSUME NEW l \in Recorders, NEW a \in DOMAIN held[l], ~ (l = k /\ a = 1)
      PROVE  \E i \in DOMAIN held'[l] : held'[l][i] = held[l][a]
    <2>1. CASE l = k
        <3>1. a - 1 \in DOMAIN held'[l] /\ held'[l][a - 1] = held[l][a]
            BY <1>2, <1>5, <1>7, <2>1
        <3> QED BY <3>1
    <2>2. CASE l # k
        BY <1>4, <1>7, <2>2
    <2> QED BY <2>1, <2>2
<1> QED
    BY <1>2, <1>3, <1>4, <1>5, <1>6, <1>7

\* A pair that becomes used, or is given back, is the only one that does.
LEMMA OneMoreInUse ==
    ASSUME PairTypes, NEW q, InUse' = InUse \cup {q}, q \notin InUse,
           lent = Cardinality(InUse), lent < MaxInFlight, lent' = lent + 1
    PROVE  LentInv'
<1>1. IsFiniteSet(InUse) /\ Cardinality(InUse) \in Nat
    BY PairsFinite
<1>2. Cardinality(InUse') = Cardinality(InUse) + 1
    BY <1>1, FS_AddElement
<1> QED
    BY <1>1, <1>2, ProfilerAssumption DEF LentInv

\* Freeing a pair takes one out of use.
LEMMA OneLessInUse ==
    ASSUME PairTypes, NEW q, InUse' = InUse \ {q}, q \in InUse,
           LentInv, lent' = lent - 1
    PROVE  LentInv'
<1>1. IsFiniteSet(InUse) /\ Cardinality(InUse) \in Nat
    BY PairsFinite
<1>2. Cardinality(InUse') = Cardinality(InUse) - 1
    BY <1>1, FS_RemoveElement
<1> QED
    BY <1>1, <1>2, ProfilerAssumption DEF LentInv

\* The last of a free list is lent.
LEMMA ListAfterLending ==
    ASSUME NEW list \in Seq(1 .. PairsPerPage), list # <<>>
    PROVE  /\ Len(list) \in Nat \ {0} /\ DOMAIN list = 1 .. Len(list)
           /\ list[Len(list)] \in 1 .. PairsPerPage
           /\ SubSeq(list, 1, Len(list) - 1) \in Seq(1 .. PairsPerPage)
           /\ DOMAIN SubSeq(list, 1, Len(list) - 1) = 1 .. Len(list) - 1
           /\ \A i \in 1 .. Len(list) - 1 :
                SubSeq(list, 1, Len(list) - 1)[i] = list[i]
<1>1. Len(list) \in Nat \ {0} /\ DOMAIN list = 1 .. Len(list)
    BY EmptySeq
<1>2. \A i \in 1 .. Len(list) : list[i] \in 1 .. PairsPerPage
    BY ElementOfSeq
<1>3. PICK m : m = Len(list) - 1
    OBVIOUS
<1>4. m \in Int /\ 1 \in Int /\ \A i \in 1 .. m : list[i] \in 1 .. PairsPerPage
    BY <1>1, <1>2, <1>3
<1>5. /\ SubSeq(list, 1, m) \in Seq(1 .. PairsPerPage)
      /\ Len(SubSeq(list, 1, m)) = IF 1 <= m THEN m - 1 + 1 ELSE 0
      /\ \A i \in 1 .. m - 1 + 1 : SubSeq(list, 1, m)[i] = list[1 + i - 1]
    BY <1>4, SubSeqProperties
<1>6. DOMAIN SubSeq(list, 1, m) = 1 .. m
    BY <1>1, <1>3, <1>5, LenProperties
<1>7. \A i \in 1 .. m : SubSeq(list, 1, m)[i] = list[i]
    BY <1>1, <1>3, <1>5
<1> QED
    BY <1>1, <1>2, <1>3, <1>5, <1>6, <1>7

\* A free list from which a page can lend: that of a page which was there, or
\* of a new one, with all its pairs.
Lendable(p, list) ==
    /\ list \in Seq(1 .. PairsPerPage) /\ list # <<>>
    /\ \A i, j \in DOMAIN list : list[i] = list[j] => i = j
    /\ p \in 1 .. Len(pages') /\ 1 .. Len(pages') \subseteq Pages
    /\ pages' \in Seq({RecorderFamily[l] : l \in Recorders})
    /\ MadePairs \subseteq MadePairs'
    /\ \A r \in MadePairs' : r \notin MadePairs =>
            r[1] = p /\ \E i \in DOMAIN list : list[i] = r[2]
    /\ \A r \in MadePairs : r[1] = p => list = freePairs[p]

\* The pair on top of such a list is lent.
LEMMA LendKeeps ==
    ASSUME PairInv, NEW k \in Recorders, NEW p, NEW list, Lendable(p, list),
           LendPair(k, p, list), UNCHANGED quarantined,
           lent < MaxInFlight, Len(held[k]) < MaxRegions
    PROVE  PairInv'
<1> USE DEF PairInv, Lendable
<1>1. PICK q : q = <<p, list[Len(list)]>>
    OBVIOUS
<1>2. /\ Len(list) \in Nat \ {0} /\ DOMAIN list = 1 .. Len(list)
      /\ list[Len(list)] \in 1 .. PairsPerPage
      /\ SubSeq(list, 1, Len(list) - 1) \in Seq(1 .. PairsPerPage)
      /\ DOMAIN SubSeq(list, 1, Len(list) - 1) = 1 .. Len(list) - 1
      /\ \A i \in 1 .. Len(list) - 1 : SubSeq(list, 1, Len(list) - 1)[i] = list[i]
    BY ListAfterLending
<1>3. p \in Pages /\ q \in MadePairs' /\ q \in Pairs
    BY <1>1, <1>2 DEF MadePairs, Pairs
<1>4. /\ freePairs' = [freePairs EXCEPT ![p] = SubSeq(list, 1, Len(list) - 1)]
      /\ lent' = lent + 1
      /\ held' = [held EXCEPT ![k] = Append(@, q)]
    BY <1>1 DEF LendPair
<1>5. /\ held' \in [Recorders -> Seq(Pairs)]
      /\ Len(held'[k]) = Len(held[k]) + 1
      /\ DOMAIN held'[k] = 1 .. Len(held[k]) + 1
      /\ DOMAIN held[k] = 1 .. Len(held[k])
      /\ Len(held[k]) \in Nat
      /\ \A i \in DOMAIN held[k] : held'[k][i] = held[k][i]
      /\ Len(held[k]) + 1 \in DOMAIN held'[k] /\ held'[k][Len(held[k]) + 1] = q
      /\ \A l \in Recorders \ {k} : held'[l] = held[l]
      /\ \A l \in Recorders : \A i \in DOMAIN held[l] :
            i \in DOMAIN held'[l] /\ held'[l][i] = held[l][i]
      /\ \A l \in Recorders : \A i \in DOMAIN held'[l] :
            \/ i \in DOMAIN held[l] /\ held'[l][i] = held[l][i]
            \/ l = k /\ i = Len(held[k]) + 1 /\ held'[l][i] = q
    BY <1>3, <1>4, HeldAfterLending
<1>6. freePairs \in [Pages -> Seq(1 .. PairsPerPage)]
    BY DEF PairTypes
<1>7. \A r : Held(r)' <=> Held(r) \/ r = q
    <2>1. ASSUME NEW r, Held(r)' PROVE Held(r) \/ r = q
        <3>1. PICK l \in Recorders : \E i \in DOMAIN held'[l] : held'[l][i] = r
            BY <2>1 DEF Held
        <3>2. PICK i \in DOMAIN held'[l] : held'[l][i] = r
            BY <3>1
        <3>3. r = q \/ (i \in DOMAIN held[l] /\ held[l][i] = r)
            BY <1>5, <3>2
        <3> QED
            BY <3>3 DEF Held
    <2>2. ASSUME NEW r, Held(r) PROVE Held(r)'
        BY <1>5, <2>2 DEF Held
    <2>3. Held(q)'
        BY <1>5 DEF Held
    <2> QED
        BY <2>1, <2>2, <2>3
<1>8. \A r \in MadePairs : r \in Pairs /\ r[1] \in Pages
    BY MadeArePairs DEF Pairs
<1>9. \A r \in MadePairs' : r = <<r[1], r[2]>>
    BY DEF MadePairs
<1>10. \A r \in MadePairs' : Free(r)' <=>
            /\ r # q
            /\ Free(r) \/ r \notin MadePairs
    <2>1. ASSUME NEW r \in MadePairs', r[1] = p
          PROVE  Free(r)' <=> r # q /\ \E i \in DOMAIN list : list[i] = r[2]
        <3>1. freePairs'[p] = SubSeq(list, 1, Len(list) - 1)
            BY <1>3, <1>4, <1>6
        <3>2. Free(r)' <=> \E i \in 1 .. Len(list) - 1 : list[i] = r[2]
            <4>1. Free(r)' <=> \E i \in DOMAIN freePairs'[p] : freePairs'[p][i] = r[2]
                BY <2>1 DEF Free
            <4>2. PICK rest : rest = SubSeq(list, 1, Len(list) - 1)
                OBVIOUS
            <4>3. /\ DOMAIN rest = 1 .. Len(list) - 1
                  /\ \A i \in 1 .. Len(list) - 1 : rest[i] = list[i]
                BY <1>2, <4>2
            <4>4. freePairs'[p] = rest
                BY <3>1, <4>2
            <4> QED
                BY <4>1, <4>3, <4>4, Zenon
        <3>3. r = q <=> r[2] = list[Len(list)]
            BY <1>1, <1>9, <2>1
        <3>4. ASSUME NEW i \in 1 .. Len(list)
              PROVE  /\ i = Len(list) <=> i \notin 1 .. Len(list) - 1
                     /\ list[i] = list[Len(list)] <=> i = Len(list)
            <4>1. i \in DOMAIN list /\ Len(list) \in DOMAIN list
                BY <1>2
            <4>2. list[i] = list[Len(list)] => i = Len(list)
                BY <4>1 DEF Lendable
            <4>3. i = Len(list) <=> i \notin 1 .. Len(list) - 1
                <5>1. PICK n : n = Len(list)
                    OBVIOUS
                <5>2. n \in Nat \ {0} /\ i \in 1 .. n
                    BY <1>2, <5>1
                <5>3. i = n <=> i \notin 1 .. n - 1
                    BY <5>2
                <5> QED
                    BY <5>1, <5>3
            <4> QED
                BY <4>2, <4>3
        <3>5. 1 .. Len(list) - 1 \subseteq 1 .. Len(list)
            BY <1>2
        <3> QED
            BY <1>2, <3>2, <3>3, <3>4, <3>5
    <2>2. ASSUME NEW r \in MadePairs', r[1] # p
          PROVE  r \in MadePairs /\ r # q /\ (Free(r)' <=> Free(r))
        BY <1>1, <1>3, <1>4, <1>6, <1>8, <2>2 DEF Free
    <2>3. ASSUME NEW r \in MadePairs, r[1] = p
          PROVE  Free(r) <=> \E i \in DOMAIN list : list[i] = r[2]
        BY <2>3 DEF Free
    <2> QED
        BY <2>1, <2>2, <2>3
<1>11. /\ q \notin quarantined /\ ~ Held(q)
       /\ q \in MadePairs => Free(q)
    <2>1. q \in MadePairs => Free(q)
        <3>1. ASSUME q \in MadePairs PROVE Free(q)
            <4>1. q[1] = p /\ q[2] = list[Len(list)] /\ list = freePairs[p]
                BY <1>1, <3>1
            <4>2. Len(list) \in DOMAIN list
                BY <1>2
            <4> QED
                BY <4>1, <4>2 DEF Free
        <3> QED
            BY <3>1
    <2>2. q \notin MadePairs => ~ Held(q) /\ q \notin quarantined
        BY DEF PairTypes, Held
    <2> QED
        BY <2>1, <2>2 DEF QueryPlaces
<1>12. PairTypes'
    <2>1. freePairs' \in [Pages -> Seq(1 .. PairsPerPage)]
        BY <1>2, <1>3, <1>4, <1>6
    <2>2. \A l \in Recorders : Len(held'[l]) <= MaxRegions
        <3>1. Len(held'[k]) <= MaxRegions
            BY <1>5, ProfilerAssumption
        <3>2. \A l \in Recorders \ {k} : Len(held'[l]) <= MaxRegions
            BY <1>5 DEF PairTypes
        <3> QED
            BY <3>1, <3>2
    <2>3. \A l \in Recorders : \A i \in DOMAIN held'[l] : held'[l][i] \in MadePairs'
        BY <1>3, <1>5 DEF PairTypes
    <2>4. quarantined' \in SUBSET MadePairs'
        BY DEF PairTypes
    <2> QED
        BY <1>5, <2>1, <2>2, <2>3, <2>4 DEF PairTypes
<1>13. QueryPlaces'
    <2>1. ASSUME NEW r \in MadePairs' PROVE Free(r)' \/ Held(r)' \/ r \in quarantined'
        BY <1>7, <1>10 DEF QueryPlaces
    <2>2. ASSUME NEW r \in MadePairs' PROVE ~ (Free(r)' /\ Held(r)')
        <3>1. r \notin MadePairs => ~ Held(r)
            BY DEF PairTypes, Held
        <3> QED
            BY <1>7, <1>10, <3>1 DEF QueryPlaces
    <2>3. ASSUME NEW r \in quarantined' PROVE ~ Free(r)' /\ ~ Held(r)'
        <3>1. r \in MadePairs /\ r # q
            BY <1>11 DEF PairTypes
        <3> QED
            BY <1>7, <1>10, <3>1 DEF QueryPlaces
    <2> QED
        BY <2>1, <2>2, <2>3 DEF QueryPlaces
<1>14. OnceInv'
    <2>1. ASSUME NEW m \in Pages, NEW i \in DOMAIN freePairs'[m],
                 NEW j \in DOMAIN freePairs'[m], freePairs'[m][i] = freePairs'[m][j]
          PROVE  i = j
        <3>1. CASE m = p
            BY <1>2, <1>3, <1>4, <1>6, <2>1, <3>1
        <3>2. CASE m # p
            BY <1>4, <1>6, <2>1, <3>2 DEF OnceInv
        <3> QED
            BY <3>1, <3>2
    <2>2. ASSUME NEW l \in Recorders, NEW m \in Recorders,
                 NEW i \in DOMAIN held'[l], NEW j \in DOMAIN held'[m],
                 held'[l][i] = held'[m][j]
          PROVE  l = m /\ i = j
        <3>1. \A n \in Recorders : \A t \in DOMAIN held[n] : held[n][t] # q
            BY <1>11 DEF Held
        <3>2. \A n \in Recorders : \A t \in DOMAIN held'[n] :
                \/ t \in DOMAIN held[n] /\ held'[n][t] = held[n][t]
                \/ n = k /\ t = Len(held[k]) + 1 /\ held'[n][t] = q
            BY <1>5
        <3> QED
            BY <2>2, <3>1, <3>2 DEF OnceInv
    <2> QED
        BY <2>1, <2>2 DEF OnceInv
<1>15. LentInv'
    <2>1. InUse' = InUse \cup {q}
        BY <1>3, <1>10, <1>11 DEF InUse
    <2>2. q \notin InUse
        BY <1>11 DEF InUse
    <2> QED
        BY <1>4, <2>1, <2>2, OneMoreInUse DEF LentInv
<1> QED
    BY <1>12, <1>13, <1>14, <1>15

\* reserve keeps every pair in one place.
LEMMA ReserveKeeps ==
    ASSUME PairInv, NEW k \in Recorders, Reserve(k), Len(held[k]) < MaxRegions,
           UNCHANGED quarantined
    PROVE  PairInv'
<1> USE DEF PairInv
<1>0. PairsPerPage \in Nat \ {0}
    BY ProfilerAssumption
<1>1. CASE Usable(k) # {}
    <2>1. Usable(k) \in SUBSET Nat
        <3>1. DOMAIN pages = 1 .. Len(pages) /\ Len(pages) \in Nat
            BY DEF PairTypes
        <3> QED
            BY <3>1 DEF Usable
    <2>2. \E p \in Usable(k) : \A other \in Usable(k) : p <= other
        BY <1>1, <2>1, FirstPage
    <2>3. PICK p \in Usable(k) : LendPair(k, p, freePairs[p])
        BY <1>1, <2>2 DEF Reserve
    <2>4. /\ p \in 1 .. Len(pages) /\ p \in Pages /\ freePairs[p] # <<>>
          /\ freePairs[p] \in Seq(1 .. PairsPerPage)
          /\ UNCHANGED pages /\ lent < MaxInFlight
        BY <1>1, <2>3 DEF Usable, Reserve, PairTypes
    <2>5. MadePairs' = MadePairs
        BY <2>4 DEF MadePairs
    <2>6. \A i, j \in DOMAIN freePairs[p] : freePairs[p][i] = freePairs[p][j] => i = j
        BY <2>4 DEF OnceInv
    <2>7. pages \in Seq({RecorderFamily[l] : l \in Recorders}) /\ 1 .. Len(pages) \subseteq Pages
        BY DEF PairTypes
    <2>8. Lendable(p, freePairs[p])
        BY <2>4, <2>5, <2>6, <2>7 DEF Lendable
    <2> QED
        BY <2>3, <2>4, <2>8, LendKeeps
<1>2. CASE Usable(k) = {}
    <2>1. PICK p : p = Len(pages) + 1
        OBVIOUS
    <2>2. PICK list : list = [i \in 1 .. PairsPerPage |-> i]
        OBVIOUS
    <2>3. /\ p \in Pages /\ pages' = Append(pages, RecorderFamily[k])
          /\ LendPair(k, p, list) /\ lent < MaxInFlight
        BY <1>2, <2>1, <2>2 DEF Reserve
    <2>4. Len(pages) \in Nat /\ Len(pages') = Len(pages) + 1
              /\ pages' \in Seq({RecorderFamily[l] : l \in Recorders})
        BY <2>3 DEF PairTypes
    <2>5. p \in 1 .. Len(pages') /\ 1 .. Len(pages') \subseteq Pages
        BY <2>1, <2>3, <2>4 DEF PairTypes
    <2>6. /\ list \in Seq(1 .. PairsPerPage) /\ list # <<>>
          /\ DOMAIN list = 1 .. PairsPerPage
          /\ \A i \in DOMAIN list : list[i] = i
        BY <1>0, <2>2
    <2>7. MadePairs \subseteq MadePairs'
        BY <2>4 DEF MadePairs
    <2>8. \A r \in MadePairs' : r \notin MadePairs => r[1] = p
        BY <2>1, <2>4 DEF MadePairs
    <2>9. \A r \in MadePairs : r[1] # p
        BY <2>1, <2>4 DEF MadePairs
    <2>10. \A r \in MadePairs' : r \notin MadePairs => \E i \in DOMAIN list : list[i] = r[2]
        BY <2>6 DEF MadePairs
    <2>11. \A i, j \in DOMAIN list : list[i] = list[j] => i = j
        BY <2>6
    <2>12. \A r \in MadePairs : r[1] = p => list = freePairs[p]
        BY <2>9
    <2>13. Lendable(p, list)
        BY <2>4, <2>5, <2>6, <2>7, <2>8, <2>10, <2>11, <2>12 DEF Lendable
    <2> QED
        BY <2>3, <2>13, LendKeeps
<1> QED
    BY <1>1, <1>2

\* Nobody else's pairs change.
LEMMA ReserveTouches ==
    ASSUME PairInv, NEW k \in Recorders, Reserve(k)
    PROVE  /\ \A l \in Recorders \ {k} : held'[l] = held[l]
           /\ Len(held'[k]) = Len(held[k]) + 1
<1>1. PICK q : held' = [held EXCEPT ![k] = Append(@, q)]
    BY DEF Reserve, LendPair
<1>2. held \in [Recorders -> Seq(Pairs)]
    BY DEF PairInv, PairTypes
<1>3. held'[k] = Append(held[k], q) /\ \A l \in Recorders \ {k} : held'[l] = held[l]
    BY <1>1, <1>2
<1>4. Len(Append(held[k], q)) = Len(held[k]) + 1
    <2>1. held[k] \in Seq(Pairs \cup {q})
        BY <1>2, SeqMonotonic
    <2> QED
        BY <2>1, AppendProperties
<1> QED
    BY <1>3, <1>4

\* release_slot puts a pair back where it was.
LEMMA ReleaseKeeps ==
    ASSUME PairInv, NEW k \in Recorders, held[k] # <<>>, ReleaseSlot(k),
           UNCHANGED quarantined
    PROVE  PairInv'
<1> USE DEF PairInv
<1>1. PICK q : q = Head(held[k])
    OBVIOUS
<1>2. /\ freePairs' = [freePairs EXCEPT ![q[1]] = Append(@, q[2])]
      /\ lent' = lent - 1
      /\ held' = [held EXCEPT ![k] = Tail(@)]
      /\ UNCHANGED pages
    BY <1>1 DEF ReleaseSlot
<1>3. /\ held' \in [Recorders -> Seq(Pairs)]
      /\ Len(held'[k]) = Len(held[k]) - 1
      /\ DOMAIN held[k] = 1 .. Len(held[k])
      /\ DOMAIN held'[k] = 1 .. Len(held[k]) - 1
      /\ Len(held[k]) \in Nat \ {0}
      /\ \A i \in DOMAIN held'[k] : held'[k][i] = held[k][i + 1]
      /\ q = held[k][1] /\ q \in MadePairs
      /\ \A l \in Recorders \ {k} : held'[l] = held[l]
      /\ \A l \in Recorders : \A i \in DOMAIN held'[l] :
            \E a \in DOMAIN held[l] :
                held[l][a] = held'[l][i] /\ a = (IF l = k THEN i + 1 ELSE i)
      /\ \A l \in Recorders : \A a \in DOMAIN held[l] :
            \/ l = k /\ a = 1
            \/ \E i \in DOMAIN held'[l] : held'[l][i] = held[l][a]
    BY <1>1, <1>2, HeldAfterRelease
<1>4. MadePairs' = MadePairs /\ q \in Pairs /\ q[1] \in Pages
          /\ q[2] \in 1 .. PairsPerPage /\ q = <<q[1], q[2]>>
    BY <1>2, <1>3, MadeArePairs DEF MadePairs, Pairs
<1>5. freePairs \in [Pages -> Seq(1 .. PairsPerPage)]
    BY DEF PairTypes
<1>6. PICK list : list = freePairs[q[1]]
    OBVIOUS
<1>7. /\ list \in Seq(1 .. PairsPerPage) /\ Len(list) \in Nat
      /\ DOMAIN list = 1 .. Len(list)
      /\ freePairs'[q[1]] = Append(list, q[2])
      /\ Append(list, q[2]) \in Seq(1 .. PairsPerPage)
      /\ DOMAIN Append(list, q[2]) = 1 .. Len(list) + 1
      /\ \A i \in 1 .. Len(list) : Append(list, q[2])[i] = list[i]
      /\ Append(list, q[2])[Len(list) + 1] = q[2]
    BY <1>2, <1>4, <1>5, <1>6, AppendProperties
<1>8. Held(q) /\ ~ Free(q) /\ q \notin quarantined
    <2>1. Held(q)
        BY <1>3 DEF Held
    <2> QED
        BY <1>3, <2>1 DEF QueryPlaces
<1>9. \A r \in MadePairs : Free(r)' <=> Free(r) \/ r = q
    <2>1. ASSUME NEW r \in MadePairs, r[1] = q[1]
          PROVE  Free(r)' <=> Free(r) \/ r = q
        <3>1. r = <<r[1], r[2]>>
            BY DEF MadePairs
        <3>2. Free(r) <=> \E i \in 1 .. Len(list) : list[i] = r[2]
            BY <1>6, <1>7, <2>1 DEF Free
        <3>3. Free(r)' <=> \E i \in 1 .. Len(list) + 1 : Append(list, q[2])[i] = r[2]
            BY <1>7, <2>1 DEF Free
        <3> QED
            BY <1>4, <1>7, <2>1, <3>1, <3>2, <3>3
    <2>2. ASSUME NEW r \in MadePairs, r[1] # q[1]
          PROVE  r # q /\ (Free(r)' <=> Free(r))
        <3>1. r[1] \in Pages
            BY MadeArePairs DEF Pairs
        <3> QED
            BY <1>2, <1>5, <2>2, <3>1 DEF Free
    <2> QED
        BY <2>1, <2>2
<1>10. \A r : Held(r)' <=> Held(r) /\ r # q
    <2>1. ASSUME NEW r, Held(r)' PROVE Held(r) /\ r # q
        <3>0. PICK l \in Recorders : \E i \in DOMAIN held'[l] : held'[l][i] = r
            BY <2>1 DEF Held
        <3>1. PICK i \in DOMAIN held'[l] : held'[l][i] = r
            BY <3>0
        <3>2. PICK a \in DOMAIN held[l] :
                held[l][a] = r /\ a = (IF l = k THEN i + 1 ELSE i)
            BY <1>3, <3>1
        <3>3. l = k => a # 1
            BY <1>3, <3>1, <3>2
        <3>4. 1 \in DOMAIN held[k]
            BY <1>3
        <3> QED
            BY <1>3, <3>2, <3>3, <3>4 DEF Held, OnceInv
    <2>2. ASSUME NEW r, Held(r), r # q PROVE Held(r)'
        BY <1>3, <2>2 DEF Held
    <2> QED
        BY <2>1, <2>2
<1>11. PairTypes'
    <2>1. freePairs' \in [Pages -> Seq(1 .. PairsPerPage)]
        BY <1>2, <1>4, <1>5, <1>7
    <2>2. \A l \in Recorders : Len(held'[l]) <= MaxRegions
        <3>1. Len(held'[k]) <= MaxRegions
            BY <1>3, ProfilerAssumption DEF PairTypes
        <3>2. \A l \in Recorders \ {k} : Len(held'[l]) <= MaxRegions
            BY <1>3 DEF PairTypes
        <3> QED
            BY <3>1, <3>2
    <2>3. \A l \in Recorders : \A i \in DOMAIN held'[l] : held'[l][i] \in MadePairs
        BY <1>3 DEF PairTypes
    <2> QED
        BY <1>2, <1>3, <1>4, <2>1, <2>2, <2>3 DEF PairTypes
<1>12. QueryPlaces'
    <2>1. quarantined \subseteq MadePairs
        BY DEF PairTypes
    <2> QED
        BY <1>4, <1>8, <1>9, <1>10, <2>1 DEF QueryPlaces
<1>13. OnceInv'
    <2>1. ASSUME NEW m \in Pages, NEW i \in DOMAIN freePairs'[m],
                 NEW j \in DOMAIN freePairs'[m], freePairs'[m][i] = freePairs'[m][j]
          PROVE  i = j
        <3>1. CASE m = q[1]
            <4>1. \A n \in 1 .. Len(list) : list[n] # q[2]
                BY <1>6, <1>7, <1>8 DEF Free
            <4>2. \A n, t \in 1 .. Len(list) : list[n] = list[t] => n = t
                BY <1>4, <1>6, <1>7 DEF OnceInv
            <4>3. DOMAIN freePairs'[m] = 1 .. Len(list) + 1 /\ freePairs'[m] = Append(list, q[2])
                BY <1>7, <3>1
            <4>4. \A n \in 1 .. Len(list) + 1 : n \in 1 .. Len(list) \/ n = Len(list) + 1
                BY <1>7
            <4>5. PICK app : app = Append(list, q[2])
                OBVIOUS
            <4>6. /\ \A n \in 1 .. Len(list) : app[n] = list[n]
                  /\ app[Len(list) + 1] = q[2]
                BY <1>7, <4>5
            <4>7. i \in 1 .. Len(list) + 1 /\ j \in 1 .. Len(list) + 1 /\ app[i] = app[j]
                BY <2>1, <4>3, <4>5
            <4> QED
                BY <4>1, <4>2, <4>4, <4>6, <4>7
        <3>2. CASE m # q[1]
            BY <1>2, <1>5, <2>1, <3>2 DEF OnceInv
        <3> QED
            BY <3>1, <3>2
    <2>2. ASSUME NEW l \in Recorders, NEW m \in Recorders,
                 NEW i \in DOMAIN held'[l], NEW j \in DOMAIN held'[m],
                 held'[l][i] = held'[m][j]
          PROVE  l = m /\ i = j
        <3>1. PICK a \in DOMAIN held[l] :
                held[l][a] = held'[l][i] /\ a = (IF l = k THEN i + 1 ELSE i)
            BY <1>3
        <3>2. PICK b \in DOMAIN held[m] :
                held[m][b] = held'[m][j] /\ b = (IF m = k THEN j + 1 ELSE j)
            BY <1>3
        <3>3. l = m /\ a = b
            BY <2>2, <3>1, <3>2 DEF OnceInv
        <3>4. CASE l = k
            BY <1>3, <3>1, <3>2, <3>3, <3>4
        <3>5. CASE l # k
            BY <3>1, <3>2, <3>3, <3>5
        <3> QED
            BY <3>3, <3>4, <3>5
    <2> QED
        BY <2>1, <2>2 DEF OnceInv
<1>14. LentInv'
    <2>1. InUse' = InUse \ {q}
        BY <1>4, <1>9 DEF InUse
    <2>2. q \in InUse
        BY <1>3, <1>8 DEF InUse
    <2> QED
        BY <1>2, <2>1, <2>2, OneLessInUse
<1> QED
    BY <1>11, <1>12, <1>13, <1>14

\* A lost device keeps the pairs of a capture from ever being lent again.
LEMMA QuarantineKeeps ==
    ASSUME PairInv, NEW k \in Recorders, quarantined' = quarantined \cup HeldBy(k),
           held' = [held EXCEPT ![k] = <<>>], UNCHANGED pageVars
    PROVE  PairInv'
<1> USE DEF PairInv, pageVars
<1>1. /\ held' \in [Recorders -> Seq(Pairs)] /\ held'[k] = <<>>
      /\ DOMAIN held'[k] = {} /\ Len(held'[k]) = 0
      /\ \A l \in Recorders \ {k} : held'[l] = held[l]
    <2>1. <<>> \in Seq(Pairs) /\ DOMAIN <<>> = {} /\ Len(<<>>) = 0
        OBVIOUS
    <2>2. held'[k] = <<>>
        BY DEF PairTypes
    <2> QED
        BY <2>1, <2>2 DEF PairTypes
<1>2. MadePairs' = MadePairs /\ \A r : Free(r)' <=> Free(r)
    BY DEF MadePairs, Free
<1>3. \A l \in Recorders : \A i \in DOMAIN held'[l] : l # k /\ i \in DOMAIN held[l] /\ held'[l][i] = held[l][i]
    BY <1>1
<1>4. \A r : r \in HeldBy(k) => Held(r) /\ r \in MadePairs
    BY DEF HeldBy, Held, PairTypes
<1>5. \A r : Held(r)' <=> Held(r) /\ r \notin HeldBy(k)
    <2>1. ASSUME NEW r, Held(r)' PROVE Held(r) /\ r \notin HeldBy(k)
        BY <1>3, <2>1 DEF Held, HeldBy, OnceInv
    <2>2. ASSUME NEW r, Held(r), r \notin HeldBy(k) PROVE Held(r)'
        BY <1>1, <2>2 DEF Held, HeldBy
    <2> QED
        BY <2>1, <2>2
<1>6. PairTypes'
    <2>1. \A l \in Recorders : Len(held'[l]) <= MaxRegions
        BY <1>1, ProfilerAssumption DEF PairTypes
    <2>2. \A l \in Recorders : \A i \in DOMAIN held'[l] : held'[l][i] \in MadePairs'
        BY <1>2, <1>3 DEF PairTypes
    <2>3. quarantined' \in SUBSET MadePairs'
        BY <1>2, <1>4 DEF PairTypes
    <2> QED
        BY <1>1, <2>1, <2>2, <2>3 DEF PairTypes
<1>7. QueryPlaces'
    BY <1>2, <1>4, <1>5 DEF QueryPlaces
<1>8. OnceInv'
    BY <1>3 DEF OnceInv
<1>9. LentInv'
    BY <1>2 DEF LentInv, InUse
<1> QED
    BY <1>6, <1>7, <1>8, <1>9

\* Nothing else changes who has a pair.
LEMMA PairsStutter ==
    ASSUME PairInv, UNCHANGED <<pageVars, held, quarantined>>
    PROVE  PairInv'
<1>1. MadePairs' = MadePairs
    BY DEF MadePairs, pageVars
<1>2. (\A r : Free(r)' <=> Free(r)) /\ (\A r : Held(r)' <=> Held(r))
    BY DEF Free, Held, pageVars
<1>3. InUse' = InUse
    BY <1>1, <1>2 DEF InUse
<1>4. PairTypes'
    BY <1>1 DEF PairInv, PairTypes, pageVars
<1>5. QueryPlaces'
    BY <1>1, <1>2 DEF PairInv, QueryPlaces
<1>6. OnceInv' /\ LentInv'
    BY <1>3 DEF PairInv, OnceInv, LentInv, pageVars
<1> QED
    BY <1>4, <1>5, <1>6 DEF PairInv

-----------------------------------------------------------------------------
(* Timestamps and events *)

Events == [region : Regions, stamp : Regions \cup {Nobody}]

HolderTypes ==
    /\ life \in [Recorders -> {"new", "recording", "submitted", "executed", "lost",
                               "resolving", "committing", "releasing", "gone"}]
    /\ resolved \in [Recorders -> 0 .. MaxRegions]
    /\ ready \in [Graphs -> Seq(Events)]
    /\ stamped \in [Pairs -> Regions \cup {Nobody}]
    /\ lostDevice \in BOOLEAN
    /\ delivered \in Nat /\ dropped \in Nat
    /\ events \in Seq(Events)

\* A graph has one region; its event is ready between the two halves of
\* complete.
GraphOf(g) ==
    /\ life[g] = "new" => held[g] = <<>>
    /\ life[g] \in {"recording", "submitted", "executed"} => Len(held[g]) = 1
    /\ life[g] # "gone" => resolved[g] = 0
    /\ life[g] # "resolving"
    /\ life[g] = "committing" =>
          /\ Len(ready[g]) = 1 /\ ready[g][1].region = <<g, 1>>
          /\ ready[g][1].stamp \in {Nobody, <<g, 1>>}

GraphInv == \A g \in Graphs : GraphOf(g)

\* From the execution of a recorder until its regions are resolved their pairs
\* have its timestamps.
StampInv ==
    \A k \in Recorders : life[k] \in {"executed", "resolving"} =>
        \A i \in DOMAIN held[k] : stamped[held[k][i]] = <<k, i>>

\* Waiting events are of resolved regions.
EventInv ==
    /\ \A i \in DOMAIN events : events[i].region[2] <= resolved[events[i].region[1]]
    /\ EventsAccounted
    /\ OwnTimestamps

ProfilerIInv == PairInv /\ HolderTypes /\ GraphInv /\ StampInv /\ EventInv

\* No event yet, and every region ahead.
LEMMA ProfilerInitial == ProfilerInit => ProfilerIInv
<1> SUFFICES ASSUME ProfilerInit PROVE ProfilerIInv
    OBVIOUS
<1> USE DEF ProfilerInit
<1>0. /\ \A S : <<>> \in Seq(S)
      /\ Len(<<>>) = 0 /\ DOMAIN <<>> = {} /\ 1 .. 0 = {}
    OBVIOUS
<1>1. MadePairs = {} /\ InUse = {}
    BY <1>0 DEF MadePairs, InUse
<1>2. PairTypes
    BY <1>0, <1>1, ProfilerAssumption DEF PairTypes
<1>3. QueryPlaces /\ OnceInv
    BY <1>0, <1>1 DEF QueryPlaces, OnceInv
<1>4. LentInv
    BY <1>1, FS_EmptySet, ProfilerAssumption DEF LentInv
<1>5. HolderTypes
    <2>1. ready \in [Graphs -> Seq(Events)] /\ events \in Seq(Events)
        BY <1>0
    <2>2. resolved \in [Recorders -> 0 .. MaxRegions]
        BY ProfilerAssumption
    <2> QED
        BY <2>1, <2>2 DEF HolderTypes
<1>6. GraphInv
    BY DEF GraphInv, GraphOf, Recorders
<1>7. StampInv
    BY DEF StampInv
<1>8. Resolved = {}
    BY DEF Resolved, Regions
<1>9. EventInv
    BY <1>0, <1>8, FS_EmptySet, ProfilerAssumption
    DEF EventInv, EventsAccounted, OwnTimestamps
<1> QED
    BY <1>2, <1>3, <1>4, <1>5, <1>6, <1>7, <1>9 DEF ProfilerIInv, PairInv

\* What is read from the queries of a region that was executed.
LEMMA SampleIsOwn ==
    ASSUME ProfilerIInv, NEW k \in Recorders, life[k] \in {"executed", "resolving"},
           NEW i \in DOMAIN held[k]
    PROVE  /\ Sample(k, i) \in Events
           /\ Sample(k, i).region = <<k, i>>
           /\ Sample(k, i).stamp \in {Nobody, <<k, i>>}
<1>1. i \in 1 .. MaxRegions
    <2>1. held[k] \in Seq(Pairs) /\ Len(held[k]) <= MaxRegions
        BY DEF ProfilerIInv, PairInv, PairTypes
    <2> QED
        BY <2>1, ProfilerAssumption
<1>2. <<k, i>> \in Regions
    BY <1>1 DEF Regions
<1>3. stamped[held[k][i]] = <<k, i>>
    BY DEF ProfilerIInv, StampInv
<1> QED
    BY <1>2, <1>3 DEF Sample, Events

\* There are finitely many regions.
LEMMA RegionsFinite == IsFiniteSet(Resolved) /\ Cardinality(Resolved) \in Nat
<1>1. IsFiniteSet(1 .. MaxRegions)
    BY ProfilerAssumption, FS_Interval
<1>2. IsFiniteSet(Regions)
    BY <1>1, ProfilerAssumption, FS_Product DEF Regions
<1>3. Resolved \in SUBSET Regions
    BY DEF Resolved
<1> QED
    BY <1>2, <1>3, FS_Subset, FS_CardinalityType

\* An event is published, or counted as dropped, for the next region of k.
LEMMA PublishKeeps ==
    ASSUME ProfilerIInv, NEW k \in Recorders, resolved[k] < MaxRegions,
           NEW event \in Events, event.region = <<k, resolved[k] + 1>>,
           event.stamp \in {Nobody, event.region},
           Published(event), resolved' = [resolved EXCEPT ![k] = @ + 1],
           UNCHANGED delivered
    PROVE  /\ EventInv' /\ events' \in Seq(Events) /\ dropped' \in Nat
           /\ resolved' \in [Recorders -> 0 .. MaxRegions]
<1>0. /\ resolved \in [Recorders -> 0 .. MaxRegions] /\ events \in Seq(Events)
      /\ dropped \in Nat /\ delivered \in Nat
    BY DEF ProfilerIInv, HolderTypes
<1>1. resolved[k] \in Nat /\ resolved[k] + 1 \in 1 .. MaxRegions
    BY <1>0, ProfilerAssumption
<1>2. /\ resolved' \in [Recorders -> 0 .. MaxRegions]
      /\ resolved'[k] = resolved[k] + 1
      /\ \A l \in Recorders \ {k} : resolved'[l] = resolved[l]
    BY <1>0, <1>1, ProfilerAssumption
<1>3. <<k, resolved[k] + 1>> \in Regions
    BY <1>1 DEF Regions
<1>4. Resolved' = Resolved \cup {<<k, resolved[k] + 1>>}
    <2>1. ASSUME NEW r \in Regions
          PROVE  r[2] <= resolved'[r[1]] <=> r[2] <= resolved[r[1]] \/ r = <<k, resolved[k] + 1>>
        <3>1. r = <<r[1], r[2]>> /\ r[1] \in Recorders /\ r[2] \in Nat
            BY DEF Regions
        <3>2. CASE r[1] = k
            BY <1>1, <1>2, <3>1, <3>2
        <3>3. CASE r[1] # k
            BY <1>2, <3>1, <3>3
        <3> QED
            BY <3>2, <3>3
    <2> QED
        BY <1>3, <2>1 DEF Resolved
<1>5. <<k, resolved[k] + 1>> \notin Resolved
    BY <1>1 DEF Resolved
<1>6. Cardinality(Resolved') = Cardinality(Resolved) + 1 /\ Cardinality(Resolved) \in Nat
    BY <1>4, <1>5, RegionsFinite, FS_AddElement
<1>7. /\ Len(events) \in Nat /\ DOMAIN events = 1 .. Len(events)
      /\ \A i \in DOMAIN events : events[i] \in Events
    BY <1>0, ElementOfSeq
<1>8. /\ \A i \in DOMAIN events : events[i].region[2] <= resolved[events[i].region[1]]
      /\ delivered + Len(events) + dropped = Cardinality(Resolved)
      /\ Len(events) <= MaxCompleted
      /\ \A i, j \in DOMAIN events : i # j => events[i].region # events[j].region
      /\ \A i \in DOMAIN events : events[i].stamp \in {Nobody, events[i].region}
    BY DEF ProfilerIInv, EventInv, EventsAccounted, OwnTimestamps
<1>9. \A i \in DOMAIN events :
        /\ events[i].region[2] <= resolved'[events[i].region[1]]
        /\ events[i].region # event.region
    <2> SUFFICES ASSUME NEW i \in DOMAIN events
                 PROVE  /\ events[i].region[2] <= resolved'[events[i].region[1]]
                        /\ events[i].region # event.region
        OBVIOUS
    <2>1. events[i].region \in Regions
        BY <1>7 DEF Events
    <2>2. PICK r : r = events[i].region
        OBVIOUS
    <2>3. r[1] \in Recorders /\ r[2] \in Nat /\ r[2] <= resolved[r[1]]
        BY <1>8, <2>1, <2>2 DEF Regions
    <2>4. resolved[r[1]] \in Nat /\ resolved'[r[1]] \in Nat /\ resolved[r[1]] <= resolved'[r[1]]
        BY <1>0, <1>1, <1>2, <2>3
    <2>5. r # <<k, resolved[k] + 1>>
        BY <1>1, <2>3
    <2> QED
        BY <2>2, <2>3, <2>4, <2>5
<1>10. CASE IsFull
    <2>1. dropped' = dropped + 1 /\ events' = events
        BY <1>10 DEF Published
    <2>2. EventsAccounted'
        BY <1>0, <1>6, <1>7, <1>8, <2>1 DEF EventsAccounted
    <2>3. OwnTimestamps'
        BY <1>8, <2>1 DEF OwnTimestamps
    <2> QED
        BY <1>0, <1>2, <1>9, <2>1, <2>2, <2>3 DEF EventInv
<1>11. CASE ~ IsFull
    <2>1. events' = Append(events, event) /\ dropped' = dropped /\ Len(events) < MaxCompleted
        BY <1>7, <1>11, ProfilerAssumption DEF Published, IsFull
    <2>2. /\ events' \in Seq(Events) /\ Len(events') = Len(events) + 1
          /\ DOMAIN events' = 1 .. Len(events) + 1
          /\ \A i \in 1 .. Len(events) : events'[i] = events[i]
          /\ events'[Len(events) + 1] = event
        BY <1>0, <2>1, AppendProperties
    <2>3. \A i \in DOMAIN events' :
            \/ i \in DOMAIN events /\ events'[i] = events[i]
            \/ i = Len(events) + 1 /\ i \notin DOMAIN events /\ events'[i] = event
        BY <1>7, <2>2
    <2>4. event.region[2] <= resolved'[event.region[1]]
        BY <1>1, <1>2
    <2>5. \A i \in DOMAIN events' : events'[i].region[2] <= resolved'[events'[i].region[1]]
        BY <1>9, <2>3, <2>4
    <2>6. \A i, j \in DOMAIN events' : i # j => events'[i].region # events'[j].region
        BY <1>8, <1>9, <2>3
    <2>7. \A i \in DOMAIN events' : events'[i].stamp \in {Nobody, events'[i].region}
        BY <1>8, <2>3
    <2>8. delivered + Len(events') + dropped' = Cardinality(Resolved') /\ Len(events') <= MaxCompleted
        BY <1>0, <1>6, <1>7, <1>8, <2>1, <2>2, ProfilerAssumption
    <2>9. EventsAccounted' /\ OwnTimestamps'
        BY <2>6, <2>7, <2>8 DEF EventsAccounted, OwnTimestamps
    <2> QED
        BY <1>0, <1>2, <2>1, <2>2, <2>5, <2>9 DEF EventInv
<1> QED
    BY <1>10, <1>11

\* Nothing else makes an event.
LEMMA EventsStutter ==
    ASSUME EventInv, UNCHANGED <<eventVars, resolved>>
    PROVE  EventInv'
BY DEF EventInv, EventsAccounted, OwnTimestamps, Resolved, eventVars

\* A recorder goes on, and nothing that it holds changes.
LEMMA LifeKeeps ==
    ASSUME ProfilerIInv, NEW k \in Recorders,
           NEW to \in {"new", "recording", "submitted", "executed", "lost",
                       "resolving", "committing", "releasing", "gone"},
           life' = [life EXCEPT ![k] = to],
           UNCHANGED <<pageVars, eventVars, held, resolved, ready, stamped, quarantined, lostDevice>>,
           to = "executed" \/ to = "resolving" => life[k] = "executed",
           k \in Graphs => \/ to = "submitted" /\ life[k] = "recording"
                           \/ to \in {"lost", "releasing"} /\ life[k] # "gone"
                           \/ to = "gone"
    PROVE  ProfilerIInv'
<1>1. PairInv' /\ EventInv'
    BY PairsStutter, EventsStutter DEF ProfilerIInv
<1>2. HolderTypes'
    BY DEF ProfilerIInv, HolderTypes, eventVars
<1>3. \A l \in Recorders : life'[l] = IF l = k THEN to ELSE life[l]
    BY DEF ProfilerIInv, HolderTypes
<1>4. GraphInv'
    <2> SUFFICES ASSUME NEW g \in Graphs PROVE GraphOf(g)'
        BY DEF GraphInv
    <2>1. g \in Recorders
        BY DEF Recorders
    <2> QED
        BY <1>3, <2>1 DEF ProfilerIInv, GraphInv, GraphOf
<1>5. StampInv'
    BY <1>3 DEF ProfilerIInv, StampInv
<1> QED
    BY <1>1, <1>2, <1>4, <1>5 DEF ProfilerIInv

\* A step of k that leaves the others as they are, and neither executes nor
\* resolves k.
LEMMA OthersKeep ==
    ASSUME ProfilerIInv, NEW k \in Recorders,
           stamped' = stamped,
           \A l \in Recorders \ {k} : life'[l] = life[l] /\ held'[l] = held[l] /\ resolved'[l] = resolved[l],
           \A g \in Graphs \ {k} : ready'[g] = ready[g],
           \/ life'[k] \notin {"executed", "resolving"}
           \/ life[k] = "resolving" /\ held'[k] = held[k],
           k \in Graphs => GraphOf(k)'
    PROVE  GraphInv' /\ StampInv'
<1>1. ASSUME NEW g \in Graphs, g # k PROVE GraphOf(g)'
    <2>1. g \in Recorders
        BY DEF Recorders
    <2> QED
        BY <1>1, <2>1 DEF ProfilerIInv, GraphInv, GraphOf
<1>2. GraphInv'
    BY <1>1 DEF GraphInv
<1>3. ASSUME NEW l \in Recorders, life'[l] \in {"executed", "resolving"},
             NEW i \in DOMAIN held'[l]
      PROVE  stamped'[held'[l][i]] = <<l, i>>
    <2>1. life[l] \in {"executed", "resolving"} /\ held'[l] = held[l]
        BY <1>3
    <2> QED
        BY <1>3, <2>1 DEF ProfilerIInv, StampInv
<1> QED
    BY <1>2, <1>3 DEF StampInv

\* scoped_region takes a pair for a recording capture.
LEMMA OpenRegionKeeps ==
    ASSUME ProfilerIInv, NEW c \in Captures, OpenRegion(c)
    PROVE  ProfilerIInv'
<1>0. c \in Recorders /\ c \notin Graphs
    BY ProfilerAssumption DEF Recorders
<1>1. PairInv'
    BY <1>0, ReserveKeeps DEF ProfilerIInv, OpenRegion
<1>2. \A l \in Recorders \ {c} : held'[l] = held[l]
    BY <1>0, ReserveTouches DEF ProfilerIInv, OpenRegion
<1>3. HolderTypes' /\ EventInv'
    BY EventsStutter DEF ProfilerIInv, HolderTypes, OpenRegion, eventVars
<1>4. GraphInv' /\ StampInv'
    BY <1>0, <1>2, OthersKeep DEF OpenRegion
<1> QED
    BY <1>1, <1>3, <1>4 DEF ProfilerIInv

\* record takes one for a new graph.
LEMMA RecordGraphKeeps ==
    ASSUME ProfilerIInv, NEW g \in Graphs, RecordGraph(g)
    PROVE  ProfilerIInv'
<1>0. g \in Recorders /\ life[g] = "new" /\ held[g] = <<>> /\ resolved[g] = 0
    BY DEF Recorders, RecordGraph, LifeGoes, ProfilerIInv, GraphInv, GraphOf
<1>1. Len(held[g]) = 0 /\ Len(held[g]) < MaxRegions
    BY <1>0, ProfilerAssumption
<1>2. PairInv'
    BY <1>0, <1>1, ReserveKeeps DEF ProfilerIInv, RecordGraph
<1>3. /\ \A l \in Recorders \ {g} : held'[l] = held[l]
      /\ Len(held'[g]) = 1
    <2>1. PairInv /\ Reserve(g)
        BY DEF ProfilerIInv, RecordGraph
    <2>2. /\ \A l \in Recorders \ {g} : held'[l] = held[l]
          /\ Len(held'[g]) = Len(held[g]) + 1
        BY <1>0, <2>1, ReserveTouches
    <2> QED
        BY <1>1, <2>2
<1>4. HolderTypes' /\ EventInv'
    BY EventsStutter DEF ProfilerIInv, HolderTypes, RecordGraph, LifeGoes, eventVars
<1>5. /\ life'[g] \in {"recording", "releasing"}
      /\ \A l \in Recorders \ {g} : life'[l] = life[l]
    BY <1>0 DEF ProfilerIInv, HolderTypes, RecordGraph, LifeGoes
<1>6. GraphOf(g)'
    BY <1>0, <1>3, <1>5 DEF GraphOf, RecordGraph
<1>7. GraphInv' /\ StampInv'
    BY <1>0, <1>3, <1>5, <1>6, OthersKeep DEF RecordGraph
<1> QED
    BY <1>2, <1>4, <1>7 DEF ProfilerIInv

\* A recorder that ends gives back its pairs one by one.
LEMMA ReleaseCaptureKeeps ==
    ASSUME ProfilerIInv, NEW k \in Recorders, ReleaseCapture(k)
    PROVE  ProfilerIInv'
<1>1. CASE held[k] # <<>>
    <2>0. ReleaseSlot(k) /\ UNCHANGED <<life, eventVars, resolved, ready, stamped, quarantined, lostDevice>>
        BY <1>1 DEF ReleaseCapture
    <2>1. PairInv'
        BY <1>1, <2>0, ReleaseKeeps DEF ProfilerIInv
    <2>2. \A l \in Recorders \ {k} : held'[l] = held[l]
        BY <1>1, <2>0, HeldAfterRelease DEF ProfilerIInv, PairInv, ReleaseSlot
    <2>3. HolderTypes' /\ EventInv'
        BY <2>0, EventsStutter DEF ProfilerIInv, HolderTypes, eventVars
    <2>4. life[k] = "releasing"
        BY DEF ReleaseCapture
    <2>5. k \in Graphs => GraphOf(k)'
        BY <2>0, <2>4 DEF ProfilerIInv, GraphInv, GraphOf
    <2>6. GraphInv' /\ StampInv'
        BY <2>0, <2>2, <2>4, <2>5, OthersKeep
    <2> QED
        BY <2>1, <2>3, <2>6 DEF ProfilerIInv
<1>2. CASE held[k] = <<>>
    BY <1>2, LifeKeeps DEF ReleaseCapture
<1> QED
    BY <1>1, <1>2

\* A lost capture ends without giving back its pairs.
LEMMA QuarantineCaptureKeeps ==
    ASSUME ProfilerIInv, NEW c \in Captures, QuarantineCapture(c)
    PROVE  ProfilerIInv'
<1>0. c \in Recorders /\ c \notin Graphs
    BY ProfilerAssumption DEF Recorders
<1>1. PairInv'
    BY <1>0, QuarantineKeeps DEF ProfilerIInv, QuarantineCapture
<1>2. /\ \A l \in Recorders \ {c} : held'[l] = held[l] /\ life'[l] = life[l]
      /\ life'[c] = "gone"
    BY <1>0 DEF ProfilerIInv, PairInv, PairTypes, HolderTypes, QuarantineCapture, LifeGoes
<1>3. HolderTypes' /\ EventInv'
    BY EventsStutter DEF ProfilerIInv, HolderTypes, QuarantineCapture, LifeGoes, eventVars
<1>4. GraphInv' /\ StampInv'
    BY <1>0, <1>2, OthersKeep DEF QuarantineCapture
<1> QED
    BY <1>1, <1>3, <1>4 DEF ProfilerIInv

\* The next region of a resolving capture is published.
LEMMA PublishRegionKeeps ==
    ASSUME ProfilerIInv, NEW c \in Captures, PublishRegion(c)
    PROVE  ProfilerIInv'
<1>0. c \in Recorders /\ c \notin Graphs /\ life[c] = "resolving"
    BY ProfilerAssumption DEF Recorders, PublishRegion
<1>1. /\ held[c] \in Seq(Pairs) /\ Len(held[c]) <= MaxRegions /\ Len(held[c]) \in Nat
      /\ resolved[c] \in Nat /\ resolved[c] < Len(held[c])
    BY <1>0, ProfilerAssumption
    DEF ProfilerIInv, PairInv, PairTypes, HolderTypes, PublishRegion
<1>2. resolved[c] + 1 \in DOMAIN held[c] /\ resolved[c] < MaxRegions
    BY <1>1, ProfilerAssumption
<1>3. PICK event : event = Sample(c, resolved[c] + 1)
    OBVIOUS
<1>4. /\ event \in Events /\ event.region = <<c, resolved[c] + 1>>
      /\ event.stamp \in {Nobody, event.region}
    BY <1>0, <1>2, <1>3, SampleIsOwn
<1>5. /\ EventInv' /\ events' \in Seq(Events) /\ dropped' \in Nat
      /\ resolved' \in [Recorders -> 0 .. MaxRegions]
    BY <1>0, <1>2, <1>3, <1>4, PublishKeeps DEF PublishRegion
<1>6. PairInv'
    BY PairsStutter DEF ProfilerIInv, PublishRegion
<1>7. HolderTypes'
    BY <1>5 DEF ProfilerIInv, HolderTypes, PublishRegion
<1>8. \A l \in Recorders \ {c} : resolved'[l] = resolved[l]
    BY DEF ProfilerIInv, HolderTypes, PublishRegion
<1>9. GraphInv' /\ StampInv'
    BY <1>0, <1>8, OthersKeep DEF PublishRegion
<1> QED
    BY <1>5, <1>6, <1>7, <1>9 DEF ProfilerIInv

\* after_gpu resolves the region of a graph and gives back its pair.
LEMMA AfterGpuKeeps ==
    ASSUME ProfilerIInv, NEW g \in Graphs, AfterGpu(g)
    PROVE  ProfilerIInv'
<1>0. g \in Recorders /\ life[g] = "executed" /\ Len(held[g]) = 1 /\ resolved[g] = 0
    BY DEF Recorders, AfterGpu, LifeGoes, ProfilerIInv, GraphInv, GraphOf
<1>1. held[g] \in Seq(Pairs) /\ held[g] # <<>> /\ 1 \in DOMAIN held[g]
    <2>1. held[g] \in Seq(Pairs)
        BY <1>0 DEF ProfilerIInv, PairInv, PairTypes
    <2> QED
        BY <1>0, <2>1, EmptySeq, LenProperties
<1>2. PICK event : event = Sample(g, 1)
    OBVIOUS
<1>3. /\ event \in Events /\ event.region = <<g, 1>> /\ event.stamp \in {Nobody, <<g, 1>>}
    BY <1>0, <1>1, <1>2, SampleIsOwn
<1>4. PairInv'
    BY <1>0, <1>1, ReleaseKeeps DEF ProfilerIInv, AfterGpu
<1>5. \A l \in Recorders \ {g} : held'[l] = held[l]
    BY <1>0, <1>1, HeldAfterRelease DEF ProfilerIInv, PairInv, AfterGpu, ReleaseSlot
<1>6. /\ ready' = [ready EXCEPT ![g] = <<event>>]
      /\ life' = [life EXCEPT ![g] = "committing"]
      /\ UNCHANGED <<eventVars, resolved, stamped, lostDevice>>
    BY <1>2 DEF AfterGpu, LifeGoes
<1>7. /\ ready' \in [Graphs -> Seq(Events)] /\ ready'[g] = <<event>>
      /\ Len(ready'[g]) = 1 /\ ready'[g][1] = event
      /\ \A h \in Graphs \ {g} : ready'[h] = ready[h]
    <2>1. <<event>> \in Seq(Events) /\ Len(<<event>>) = 1 /\ <<event>>[1] = event
        BY <1>3
    <2> QED
        BY <1>6, <2>1 DEF ProfilerIInv, HolderTypes
<1>8. /\ life'[g] = "committing"
      /\ \A l \in Recorders \ {g} : life'[l] = life[l]
    BY <1>0, <1>6 DEF ProfilerIInv, HolderTypes
<1>9. HolderTypes' /\ EventInv'
    BY <1>6, <1>7, EventsStutter DEF ProfilerIInv, HolderTypes, eventVars
<1>10. GraphOf(g)'
    BY <1>0, <1>3, <1>6, <1>7, <1>8 DEF GraphOf
<1>11. GraphInv' /\ StampInv'
    BY <1>0, <1>5, <1>6, <1>7, <1>8, <1>10, OthersKeep
<1> QED
    BY <1>4, <1>9, <1>11 DEF ProfilerIInv

\* commit_after_gpu publishes its event, or is never reached.
LEMMA CommitAfterGpuKeeps ==
    ASSUME ProfilerIInv, NEW g \in Graphs, CommitAfterGpu(g)
    PROVE  ProfilerIInv'
<1>0. /\ g \in Recorders /\ life[g] = "committing" /\ resolved[g] = 0
      /\ Len(ready[g]) = 1 /\ ready[g] \in Seq(Events) /\ ready[g][1].region = <<g, 1>>
      /\ ready[g][1].stamp \in {Nobody, <<g, 1>>}
    BY DEF Recorders, CommitAfterGpu, LifeGoes, ProfilerIInv, GraphInv, GraphOf, HolderTypes
<1>1. PICK event : event = ready[g][1]
    OBVIOUS
<1>2. event \in Events /\ event.region = <<g, resolved[g] + 1>> /\ event.stamp \in {Nobody, event.region}
    BY <1>0, <1>1, ElementOfSeq
<1>3. /\ EventInv' /\ events' \in Seq(Events) /\ dropped' \in Nat
      /\ resolved' \in [Recorders -> 0 .. MaxRegions]
      /\ \A l \in Recorders \ {g} : resolved'[l] = resolved[l]
    <2>1. CASE Published(event) /\ resolved' = [resolved EXCEPT ![g] = 1]
        <3>1. resolved' = [resolved EXCEPT ![g] = @ + 1] /\ resolved[g] < MaxRegions
            BY <1>0, <2>1, ProfilerAssumption DEF ProfilerIInv, HolderTypes
        <3> QED
            BY <1>0, <1>2, <2>1, <3>1, PublishKeeps
            DEF CommitAfterGpu, ProfilerIInv, HolderTypes
    <2>2. CASE UNCHANGED <<events, dropped, resolved>>
        BY <2>2, EventsStutter DEF CommitAfterGpu, ProfilerIInv, HolderTypes, eventVars
    <2> QED
        BY <1>1, <2>1, <2>2 DEF CommitAfterGpu
<1>4. PairInv'
    BY PairsStutter DEF ProfilerIInv, CommitAfterGpu
<1>5. /\ life'[g] = "gone" /\ \A l \in Recorders \ {g} : life'[l] = life[l]
      /\ \A h \in Graphs \ {g} : ready'[h] = ready[h]
    BY <1>0 DEF ProfilerIInv, HolderTypes, CommitAfterGpu, LifeGoes
<1>6. HolderTypes'
    <2>1. <<>> \in Seq(Events)
        OBVIOUS
    <2> QED
        BY <1>3, <2>1 DEF ProfilerIInv, HolderTypes, CommitAfterGpu, LifeGoes
<1>7. GraphOf(g)'
    BY <1>5 DEF GraphOf
<1>8. GraphInv' /\ StampInv'
    BY <1>0, <1>3, <1>5, <1>7, OthersKeep DEF CommitAfterGpu
<1> QED
    BY <1>3, <1>4, <1>6, <1>8 DEF ProfilerIInv

\* The GPU stamps the pairs of one recorder, which are nobody else's.
LEMMA ExecuteRegionsKeeps ==
    ASSUME ProfilerIInv, NEW k \in Recorders, ExecuteRegions(k)
    PROVE  ProfilerIInv'
<1>0. /\ held[k] \in Seq(Pairs) /\ Len(held[k]) <= MaxRegions
      /\ \A i \in DOMAIN held[k] : <<k, i>> \in Regions
    <2>1. held[k] \in Seq(Pairs) /\ Len(held[k]) <= MaxRegions
        BY DEF ProfilerIInv, PairInv, PairTypes
    <2> QED
        BY <2>1, ProfilerAssumption DEF Regions
<1>1. PairInv' /\ EventInv'
    BY PairsStutter, EventsStutter DEF ProfilerIInv, ExecuteRegions
<1>2. /\ life[k] = "submitted" /\ life'[k] = "executed"
      /\ \A l \in Recorders \ {k} : life'[l] = life[l]
    BY DEF ProfilerIInv, HolderTypes, ExecuteRegions, LifeGoes
<1>3. \A q \in Pairs :
        (~ \E i \in DOMAIN held[k] : held[k][i] = q) => stamped'[q] = stamped[q]
    BY DEF ExecuteRegions
<1>4. \A i \in DOMAIN held[k] : held[k][i] \in Pairs /\ stamped'[held[k][i]] = <<k, i>>
    <2> SUFFICES ASSUME NEW i \in DOMAIN held[k]
                 PROVE  held[k][i] \in Pairs /\ stamped'[held[k][i]] = <<k, i>>
        OBVIOUS
    <2>1. PICK q : q = held[k][i]
        OBVIOUS
    <2>2. q \in Pairs
        BY <1>0, <2>1
    <2>3. PICK j : j = CHOOSE n \in DOMAIN held[k] : held[k][n] = q
        OBVIOUS
    <2>4. j \in DOMAIN held[k] /\ held[k][j] = q
        BY <2>1, <2>3
    <2>5. stamped'[q] = <<k, j>>
        BY <2>1, <2>2, <2>3 DEF ExecuteRegions
    <2>6. j = i
        BY <2>1, <2>4 DEF ProfilerIInv, PairInv, OnceInv
    <2> QED
        BY <2>1, <2>2, <2>5, <2>6
<1>5. stamped' \in [Pairs -> Regions \cup {Nobody}]
    <2>1. ASSUME NEW q \in Pairs PROVE stamped'[q] \in Regions \cup {Nobody}
        <3>1. CASE \E i \in DOMAIN held[k] : held[k][i] = q
            BY <1>0, <1>4, <3>1
        <3>2. CASE ~ \E i \in DOMAIN held[k] : held[k][i] = q
            BY <1>3, <3>2 DEF ProfilerIInv, HolderTypes
        <3> QED
            BY <3>1, <3>2
    <2>2. stamped' = [q \in Pairs |-> stamped'[q]]
        BY DEF ExecuteRegions
    <2> QED
        BY <2>1, <2>2
<1>6. HolderTypes'
    BY <1>5 DEF ProfilerIInv, HolderTypes, ExecuteRegions, LifeGoes, eventVars
<1>7. GraphInv'
    <2> SUFFICES ASSUME NEW g \in Graphs PROVE GraphOf(g)'
        BY DEF GraphInv
    <2>1. g \in Recorders
        BY DEF Recorders
    <2> QED
        BY <1>2, <2>1 DEF ProfilerIInv, GraphInv, GraphOf, ExecuteRegions
<1>8. StampInv'
    <2> SUFFICES ASSUME NEW l \in Recorders, life'[l] \in {"executed", "resolving"},
                        NEW i \in DOMAIN held'[l]
                 PROVE  stamped'[held'[l][i]] = <<l, i>>
        BY DEF StampInv
    <2>0. held' = held
        BY DEF ExecuteRegions
    <2>1. CASE l = k
        BY <1>4, <2>0, <2>1
    <2>2. CASE l # k
        <3>1. held[l][i] \in Pairs
            <4>1. held[l] \in Seq(Pairs) /\ i \in DOMAIN held[l]
                BY <2>0 DEF ProfilerIInv, PairInv, PairTypes
            <4> QED
                BY <4>1
        <3>2. ~ \E n \in DOMAIN held[k] : held[k][n] = held[l][i]
            BY <2>0, <2>2 DEF ProfilerIInv, PairInv, OnceInv
        <3>3. stamped[held[l][i]] = <<l, i>>
            BY <1>2, <2>0, <2>2 DEF ProfilerIInv, StampInv
        <3> QED
            BY <1>3, <2>0, <3>1, <3>2, <3>3
    <2> QED
        BY <2>1, <2>2
<1> QED
    BY <1>1, <1>6, <1>7, <1>8 DEF ProfilerIInv

\* The waiting events are given out.
LEMMA TakeCompletedKeeps ==
    ASSUME ProfilerIInv, TakeCompleted
    PROVE  ProfilerIInv'
<1>1. PairInv' /\ GraphInv' /\ StampInv'
    BY PairsStutter DEF ProfilerIInv, GraphInv, GraphOf, StampInv, TakeCompleted, holderVars
<1>2. /\ events' = <<>> /\ Len(events') = 0 /\ DOMAIN events' = {} /\ events' \in Seq(Events)
      /\ delivered' = delivered + Len(events)
      /\ UNCHANGED <<dropped, resolved, life, ready, stamped, lostDevice>>
    <2>1. <<>> \in Seq(Events) /\ Len(<<>>) = 0 /\ DOMAIN <<>> = {}
        OBVIOUS
    <2> QED
        BY <2>1 DEF TakeCompleted, holderVars
<1>3. events \in Seq(Events) /\ Len(events) \in Nat /\ delivered \in Nat /\ dropped \in Nat
    BY LenProperties DEF ProfilerIInv, HolderTypes
<1>4. HolderTypes'
    BY <1>2, <1>3 DEF ProfilerIInv, HolderTypes
<1>5. Resolved' = Resolved
    BY <1>2 DEF Resolved
<1>6. EventsAccounted'
    BY <1>2, <1>3, <1>5, ProfilerAssumption DEF ProfilerIInv, EventInv, EventsAccounted
<1>7. EventInv'
    BY <1>2, <1>6 DEF EventInv, OwnTimestamps
<1> QED
    BY <1>1, <1>4, <1>7 DEF ProfilerIInv

\* A step that only opens or closes a region, or loses the device.
LEMMA ProfilerStutters ==
    ASSUME ProfilerIInv, lostDevice' \in BOOLEAN,
           UNCHANGED <<pageVars, eventVars, held, life, resolved, ready, stamped, quarantined>>
    PROVE  ProfilerIInv'
<1>1. PairInv' /\ EventInv'
    BY PairsStutter, EventsStutter DEF ProfilerIInv
<1>2. HolderTypes' /\ GraphInv' /\ StampInv'
    BY DEF ProfilerIInv, HolderTypes, GraphInv, GraphOf, StampInv, eventVars
<1> QED
    BY <1>1, <1>2 DEF ProfilerIInv

\* Every step keeps the invariant.
LEMMA ProfilerStep == ProfilerIInv /\ [ProfilerNext]_profilerVars => ProfilerIInv'
<1> SUFFICES ASSUME ProfilerIInv, [ProfilerNext]_profilerVars PROVE ProfilerIInv'
    OBVIOUS
<1>1. ASSUME NEW c \in Captures, CaptureStep(c) PROVE ProfilerIInv'
    <2>0. c \in Recorders /\ c \notin Graphs
        BY ProfilerAssumption DEF Recorders
    <2>1. CASE CreateCapture(c) \/ MarkSubmitted(c) \/ ResolveCapture(c) \/ EndResolve(c)
        BY <2>0, <2>1, LifeKeeps
        DEF CreateCapture, MarkSubmitted, ResolveCapture, EndResolve, LifeGoes, IsDone
    <2>2. CASE CloseRegion(c)
        BY <2>2, ProfilerStutters DEF CloseRegion, ProfilerIInv, HolderTypes
    <2> QED
        BY <1>1, <2>1, <2>2, OpenRegionKeeps, PublishRegionKeeps, QuarantineCaptureKeeps
        DEF CaptureStep
<1>2. ASSUME NEW g \in Graphs, GraphStep(g) PROVE ProfilerIInv'
    <2>0. g \in Recorders
        BY DEF Recorders
    <2>1. CASE SubmitGraph(g) \/ DropLostGraph(g)
        BY <2>0, <2>1, LifeKeeps DEF SubmitGraph, DropLostGraph, LifeGoes
    <2> QED
        BY <1>2, <2>1, RecordGraphKeeps, AfterGpuKeeps, CommitAfterGpuKeeps DEF GraphStep
<1>3. ASSUME NEW k \in Recorders, FenceLost(k) PROVE ProfilerIInv'
    BY <1>3, LifeKeeps DEF FenceLost, LifeGoes
<1>4. CASE LoseQueries
    BY <1>4, ProfilerStutters DEF LoseQueries, holderVars
<1>5. CASE UNCHANGED profilerVars
    BY <1>5, ProfilerStutters DEF profilerVars, holderVars, ProfilerIInv, HolderTypes
<1> QED
    BY <1>1, <1>2, <1>3, <1>4, <1>5, TakeCompletedKeeps, ReleaseCaptureKeeps, ExecuteRegionsKeeps
    DEF ProfilerNext

\* A pair is counted once in the place where it is.
LEMMA PairsAreInOnePlace ==
    ASSUME PairInv
    PROVE  PairsInOnePlace
<1>0. \A q : (FreeAt(q) = {}) <=> ~ Free(q)
    BY DEF FreeAt, Free
<1>1. ASSUME NEW q \in MadePairs, Free(q)
      PROVE  Cardinality(FreeAt(q)) = 1
    <2>1. q[1] \in Pages
        BY MadeArePairs DEF PairInv, Pairs
    <2>2. PICK i \in DOMAIN freePairs[q[1]] : freePairs[q[1]][i] = q[2]
        BY <1>1 DEF Free
    <2>3. FreeAt(q) = {i}
        BY <2>1, <2>2 DEF FreeAt, PairInv, OnceInv
    <2> QED
        BY <2>3, FS_Singleton
<1>2. ASSUME NEW q \in MadePairs, Held(q)
      PROVE  Cardinality(HeldAt(q)) = 1
    <2>1. PICK k \in Recorders : \E i \in DOMAIN held[k] : held[k][i] = q
        BY <1>2 DEF Held
    <2>2. PICK i \in DOMAIN held[k] : held[k][i] = q
        BY <2>1
    <2>3. <<k, i>> \in Regions
        <3>1. held[k] \in Seq(Pairs) /\ Len(held[k]) <= MaxRegions
            BY DEF PairInv, PairTypes
        <3> QED
            BY <3>1, ProfilerAssumption DEF Regions
    <2>4. \A r \in Regions : r \in HeldAt(q) => r = <<k, i>>
        BY <2>2 DEF HeldAt, PairInv, OnceInv, Regions
    <2>5. <<k, i>> \in HeldAt(q)
        BY <2>2, <2>3 DEF HeldAt
    <2>6. HeldAt(q) = {<<k, i>>}
        BY <2>4, <2>5 DEF HeldAt
    <2> QED
        BY <2>6, FS_Singleton
<1>3. ASSUME NEW q, ~ Held(q)
      PROVE  Cardinality(HeldAt(q)) = 0
    <2>1. HeldAt(q) = {}
        BY <1>3 DEF HeldAt, Held, Regions
    <2> QED
        BY <2>1, FS_EmptySet
<1>4. ASSUME NEW q, ~ Free(q)
      PROVE  Cardinality(FreeAt(q)) = 0
    BY <1>0, <1>4, FS_EmptySet
<1>5. ASSUME NEW q \in MadePairs
      PROVE  Cardinality(FreeAt(q)) + Cardinality(HeldAt(q)) + (IF q \in quarantined THEN 1 ELSE 0) = 1
    <2>1. CASE Free(q)
        BY <1>1, <1>3, <2>1 DEF PairInv, QueryPlaces
    <2>2. CASE Held(q)
        BY <1>2, <1>4, <2>2 DEF PairInv, QueryPlaces
    <2>3. CASE q \in quarantined
        BY <1>3, <1>4, <2>3 DEF PairInv, QueryPlaces
    <2> QED
        BY <2>1, <2>2, <2>3 DEF PairInv, QueryPlaces
<1>6. {q \in MadePairs : FreeAt(q) = {}} = InUse
    BY <1>0 DEF InUse
<1> QED
    BY <1>5, <1>6 DEF PairsInOnePlace, PairInv, LentInv

\* However captures and graphs interleave, and whenever the device is lost:
\* every query pair that was made is free once, lent to one region or out of
\* use for good, and in_flight_ counts those; an event has the timestamps of
\* its own region; and every resolved region is delivered, waits, or is counted
\* as dropped, and never twice.
THEOREM QueriesAreAccounted == ProfilerSpec => []QueriesAccounted
<1>1. ProfilerIInv => QueriesAccounted
    BY PairsAreInOnePlace DEF QueriesAccounted, ProfilerIInv, EventInv
<1> QED
    BY <1>1, ProfilerInitial, ProfilerStep, PTL DEF ProfilerSpec

LEMMA FirstNumber ==
    ASSUME NEW S \in SUBSET Nat, S # {}
    PROVE  \E n \in S : \A m \in S : n <= m
<1>1. \E n \in S : \A m \in S : ~ (<<m, n>> \in OpToRel(<, Nat))
    BY WFMin, NatLessThanWellFounded
<1>2. PICK n \in S : \A m \in S : ~ (<<m, n>> \in OpToRel(<, Nat))
    BY <1>1
<1>3. \A m \in S : ~ (m < n)
    BY <1>2 DEF OpToRel
<1> QED
    BY <1>3

LEMMA AllNumbers ==
    ASSUME NEW S, \A n \in Nat : (\A m \in 0 .. n - 1 : m \in S) => n \in S
    PROVE  \A n \in Nat : n \in S
<1> SUFFICES ASSUME NEW k \in Nat, k \notin S
             PROVE  FALSE
    OBVIOUS
<1>1. Nat \ S # {}
    OBVIOUS
<1>2. PICK n \in Nat \ S : \A m \in Nat \ S : n <= m
    BY <1>1, FirstNumber
<1>3. \A m \in 0 .. n - 1 : m \in S
    BY <1>2
<1> QED
    BY <1>2, <1>3

-----------------------------------------------------------------------------
(* Lists and finite sets *)

IsList(s) == \E S : s \in Seq(S)

LEMMA EmptyIsList == IsList(<<>>)
BY DEF IsList

LEMMA AppendedIsList ==
    ASSUME NEW s, IsList(s), NEW x
    PROVE  /\ IsList(Append(s, x)) /\ Len(s) \in Nat /\ Len(Append(s, x)) = Len(s) + 1
           /\ \A i \in 1 .. Len(s) : Append(s, x)[i] = s[i]
           /\ Append(s, x)[Len(s) + 1] = x
<1>1. PICK S : s \in Seq(S)
    BY DEF IsList
<1>2. PICK T : T = S \cup {x}
    OBVIOUS
<1>3. s \in Seq(T) /\ x \in T
    BY <1>1, <1>2
<1>4. Append(s, x) \in Seq(T)
    BY <1>3
<1> QED
    BY <1>3, <1>4 DEF IsList

LEMMA JoinedIsList ==
    ASSUME NEW s, IsList(s), NEW t, IsList(t)
    PROVE  IsList(s \o t)
<1>1. PICK S : s \in Seq(S)
    BY DEF IsList
<1>2. PICK T : t \in Seq(T)
    BY DEF IsList
<1>3. PICK W : W = S \cup T
    OBVIOUS
<1>4. s \in Seq(W) /\ t \in Seq(W)
    BY <1>1, <1>2, <1>3
<1> QED
    BY <1>4 DEF IsList

\* A list continues another one, and what is cut off again gives that.
Continues(s, start) ==
    /\ IsList(s) /\ IsList(start) /\ Len(start) <= Len(s)
    /\ \A i \in 1 .. Len(start) : s[i] = start[i]

LEMMA ContinuesItself == ASSUME NEW s, IsList(s) PROVE Continues(s, s)
<1>1. Len(s) \in Nat
    BY AppendedIsList
<1> QED
    BY <1>1 DEF Continues

LEMMA ContinuesOn ==
    ASSUME NEW s, NEW start, Continues(s, start), NEW x
    PROVE  Continues(Append(s, x), start)
<1>1. Len(start) \in Nat /\ Len(s) \in Nat
    BY AppendedIsList DEF Continues
<1>2. /\ IsList(Append(s, x)) /\ Len(Append(s, x)) = Len(s) + 1
      /\ \A i \in 1 .. Len(s) : Append(s, x)[i] = s[i]
    BY AppendedIsList DEF Continues
<1> QED
    BY <1>1, <1>2 DEF Continues

LEMMA CutGivesStart ==
    ASSUME NEW s, NEW start, Continues(s, start)
    PROVE  SubSeq(s, 1, Len(start)) = start
<1>1. PICK S : s \in Seq(S)
    BY DEF Continues, IsList
<1>2. PICK T : start \in Seq(T)
    BY DEF Continues, IsList
<1>3. Len(start) \in Nat /\ Len(s) \in Nat
    BY <1>1, <1>2
<1>4. PICK W : W = S \cup T
    OBVIOUS
<1>5. s \in Seq(W) /\ start \in Seq(W)
    BY <1>1, <1>2, <1>4
<1>6. PICK n \in Nat : n = Len(start)
    BY <1>3
<1>7. PICK c : c = SubSeq(s, 1, n)
    OBVIOUS
<1>8. c \in Seq(W) /\ Len(c) = n /\ \A i \in 1 .. n : c[i] = s[i]
    BY <1>3, <1>5, <1>6, <1>7, SubSeqProperties DEF Continues
<1>9. \A i \in 1 .. n : c[i] = start[i]
    BY <1>6, <1>8 DEF Continues
<1> QED
    BY <1>5, <1>6, <1>7, <1>8, <1>9, SeqEqual

LEMMA ImageIsFinite ==
    ASSUME NEW S, IsFiniteSet(S), NEW f, DOMAIN f = S, NEW T, T = {f[x] : x \in S}
    PROVE  IsFiniteSet(T)
<1>1. PICK h : h = [x \in S |-> f[x]]
    OBVIOUS
<1>2. h \in Surjection(S, T)
    <2>1. h \in [S -> T]
        BY <1>1
    <2>2. \A t \in T : \E x \in S : h[x] = t
        BY <1>1
    <2> QED
        BY <2>1, <2>2 DEF Surjection
<1> QED
    BY <1>2, FS_Surjection

\* Listed, as its elements are put on the list.
IsListing(set, m, g) ==
    g = [n \in 0 .. m |-> IF n = 0 THEN <<>> ELSE Lengthened(g[n - 1], set)]

LEMMA ListingExists ==
    ASSUME NEW set
    PROVE  \A m \in Nat : \E g : IsListing(set, m, g)
<1> DEFINE Good == {m \in Nat : \E g : IsListing(set, m, g)}
<1>1. ASSUME NEW m \in Nat, \A k \in 0 .. m - 1 : k \in Good
      PROVE  m \in Good
    <2>1. CASE m = 0
        <3>1. PICK g : g = [n \in 0 .. 0 |-> <<>>]
            OBVIOUS
        <3>2. IsListing(set, 0, g)
            BY <3>1 DEF IsListing
        <3> QED
            BY <2>1, <3>2
    <2>2. CASE m # 0
        <3>1. m - 1 \in Good
            BY <1>1, <2>2
        <3>2. PICK h : h = [n \in 0 .. m - 1 |-> IF n = 0 THEN <<>>
                                                 ELSE Lengthened(h[n - 1], set)]
            BY <3>1 DEF IsListing
        <3>x. PICK x : x = Lengthened(h[m - 1], set)
            OBVIOUS
        <3>3. PICK g : g = [n \in 0 .. m |-> IF n = m THEN x ELSE h[n]]
            OBVIOUS
        <3>4. ASSUME NEW n \in 0 .. m
              PROVE  g[n] = IF n = 0 THEN <<>> ELSE Lengthened(g[n - 1], set)
            <4>1. CASE n = 0
                BY <2>2, <3>2, <3>3, <4>1
            <4>2. CASE n # 0
                <5>1. n - 1 \in 0 .. m - 1 /\ n - 1 \in 0 .. m /\ n - 1 # m
                    BY <4>2
                <5>2. g[n - 1] = h[n - 1]
                    BY <3>3, <5>1
                <5>3. CASE n = m
                    <6>1. g[n] = x
                        BY <3>3, <5>3
                    <6> QED
                        BY <3>x, <4>2, <5>2, <5>3, <6>1
                <5>4. CASE n # m
                    <6>1. n \in 0 .. m - 1 /\ g[n] = h[n]
                        BY <3>3, <5>4
                    <6>2. h[n] = Lengthened(h[n - 1], set)
                        BY <3>2, <4>2, <6>1
                    <6> QED
                        BY <4>2, <5>2, <6>1, <6>2
                <5> QED
                    BY <5>3, <5>4
            <4> QED
                BY <4>1, <4>2
        <3>5. g = [n \in 0 .. m |-> IF n = 0 THEN <<>> ELSE Lengthened(g[n - 1], set)]
            BY <3>3, <3>4
        <3>6. IsListing(set, m, g)
            BY <3>5 DEF IsListing
        <3> QED
            BY <3>6
    <2> QED
        BY <2>1, <2>2
<1> HIDE DEF Good
<1>2. \A m \in Nat : m \in Good
    BY <1>1, AllNumbers
<1> QED
    BY <1>2 DEF Good

LEMMA ListingSteps ==
    ASSUME NEW set, NEW m \in Nat, NEW g, IsListing(set, m, g)
    PROVE  g[0] = <<>> /\ \A n \in 1 .. m : g[n] = Lengthened(g[n - 1], set)
<1>2. \A n \in 0 .. m : g[n] = IF n = 0 THEN <<>> ELSE Lengthened(g[n - 1], set)
    BY DEF IsListing
<1>3. 0 \in 0 .. m /\ \A n \in 1 .. m : n \in 0 .. m /\ n # 0
    OBVIOUS
<1> QED
    BY <1>2, <1>3

\* Uncovered, region by region.
IsGaps(box, list, m, g) ==
    g = [n \in 0 .. m |-> IF n = 0 THEN {box} ELSE Without(g[n - 1], list[n])]

LEMMA GapsExists ==
    ASSUME NEW box, NEW list
    PROVE  \A m \in Nat : \E g : IsGaps(box, list, m, g)
<1> DEFINE Good == {m \in Nat : \E g : IsGaps(box, list, m, g)}
<1>1. ASSUME NEW m \in Nat, \A k \in 0 .. m - 1 : k \in Good
      PROVE  m \in Good
    <2>1. CASE m = 0
        <3>1. PICK g : g = [n \in 0 .. 0 |-> {box}]
            OBVIOUS
        <3>2. IsGaps(box, list, 0, g)
            BY <3>1 DEF IsGaps
        <3> QED
            BY <2>1, <3>2
    <2>2. CASE m # 0
        <3>1. m - 1 \in Good
            BY <1>1, <2>2
        <3>2. PICK h : h = [n \in 0 .. m - 1 |-> IF n = 0 THEN {box}
                                                 ELSE Without(h[n - 1], list[n])]
            BY <3>1 DEF IsGaps
        <3>x. PICK x : x = Without(h[m - 1], list[m])
            OBVIOUS
        <3>3. PICK g : g = [n \in 0 .. m |-> IF n = m THEN x ELSE h[n]]
            OBVIOUS
        <3>4. ASSUME NEW n \in 0 .. m
              PROVE  g[n] = IF n = 0 THEN {box} ELSE Without(g[n - 1], list[n])
            <4>1. CASE n = 0
                BY <2>2, <3>2, <3>3, <4>1
            <4>2. CASE n # 0
                <5>1. n - 1 \in 0 .. m - 1 /\ n - 1 \in 0 .. m /\ n - 1 # m
                    BY <4>2
                <5>2. g[n - 1] = h[n - 1]
                    BY <3>3, <5>1
                <5>3. CASE n = m
                    <6>1. g[n] = x
                        BY <3>3, <5>3
                    <6> QED
                        BY <3>x, <4>2, <5>2, <5>3, <6>1
                <5>4. CASE n # m
                    <6>1. n \in 0 .. m - 1 /\ g[n] = h[n]
                        BY <3>3, <5>4
                    <6>2. h[n] = Without(h[n - 1], list[n])
                        BY <3>2, <4>2, <6>1
                    <6> QED
                        BY <4>2, <5>2, <6>1, <6>2
                <5> QED
                    BY <5>3, <5>4
            <4> QED
                BY <4>1, <4>2
        <3>5. g = [n \in 0 .. m |-> IF n = 0 THEN {box} ELSE Without(g[n - 1], list[n])]
            BY <3>3, <3>4
        <3>6. IsGaps(box, list, m, g)
            BY <3>5 DEF IsGaps
        <3> QED
            BY <3>6
    <2> QED
        BY <2>1, <2>2
<1> HIDE DEF Good
<1>2. \A m \in Nat : m \in Good
    BY <1>1, AllNumbers
<1> QED
    BY <1>2 DEF Good

LEMMA GapsSteps ==
    ASSUME NEW box, NEW list, NEW m \in Nat, NEW g, IsGaps(box, list, m, g)
    PROVE  g[0] = {box} /\ \A n \in 1 .. m : g[n] = Without(g[n - 1], list[n])
<1>2. \A n \in 0 .. m : g[n] = IF n = 0 THEN {box} ELSE Without(g[n - 1], list[n])
    BY DEF IsGaps
<1>3. 0 \in 0 .. m /\ \A n \in 1 .. m : n \in 0 .. m /\ n # 0
    OBVIOUS
<1> QED
    BY <1>2, <1>3

\* Merge, pair by pair.
IsMerging(regions, m, g) ==
    g = [n \in 0 .. m |-> IF n = 0 THEN regions ELSE MergeTwo(g[n - 1])]

LEMMA MergingExists ==
    ASSUME NEW regions
    PROVE  \A m \in Nat : \E g : IsMerging(regions, m, g)
<1> DEFINE Good == {m \in Nat : \E g : IsMerging(regions, m, g)}
<1>1. ASSUME NEW m \in Nat, \A k \in 0 .. m - 1 : k \in Good
      PROVE  m \in Good
    <2>1. CASE m = 0
        <3>1. PICK g : g = [n \in 0 .. 0 |-> regions]
            OBVIOUS
        <3>2. IsMerging(regions, 0, g)
            BY <3>1 DEF IsMerging
        <3> QED
            BY <2>1, <3>2
    <2>2. CASE m # 0
        <3>1. m - 1 \in Good
            BY <1>1, <2>2
        <3>2. PICK h : h = [n \in 0 .. m - 1 |-> IF n = 0 THEN regions
                                                 ELSE MergeTwo(h[n - 1])]
            BY <3>1 DEF IsMerging
        <3>x. PICK x : x = MergeTwo(h[m - 1])
            OBVIOUS
        <3>3. PICK g : g = [n \in 0 .. m |-> IF n = m THEN x ELSE h[n]]
            OBVIOUS
        <3>4. ASSUME NEW n \in 0 .. m
              PROVE  g[n] = IF n = 0 THEN regions ELSE MergeTwo(g[n - 1])
            <4>1. CASE n = 0
                BY <2>2, <3>2, <3>3, <4>1
            <4>2. CASE n # 0
                <5>1. n - 1 \in 0 .. m - 1 /\ n - 1 \in 0 .. m /\ n - 1 # m
                    BY <4>2
                <5>2. g[n - 1] = h[n - 1]
                    BY <3>3, <5>1
                <5>3. CASE n = m
                    <6>1. g[n] = x
                        BY <3>3, <5>3
                    <6> QED
                        BY <3>x, <4>2, <5>2, <5>3, <6>1
                <5>4. CASE n # m
                    <6>1. n \in 0 .. m - 1 /\ g[n] = h[n]
                        BY <3>3, <5>4
                    <6>2. h[n] = MergeTwo(h[n - 1])
                        BY <3>2, <4>2, <6>1
                    <6> QED
                        BY <4>2, <5>2, <6>1, <6>2
                <5> QED
                    BY <5>3, <5>4
            <4> QED
                BY <4>1, <4>2
        <3>5. g = [n \in 0 .. m |-> IF n = 0 THEN regions ELSE MergeTwo(g[n - 1])]
            BY <3>3, <3>4
        <3>6. IsMerging(regions, m, g)
            BY <3>5 DEF IsMerging
        <3> QED
            BY <3>6
    <2> QED
        BY <2>1, <2>2
<1> HIDE DEF Good
<1>2. \A m \in Nat : m \in Good
    BY <1>1, AllNumbers
<1> QED
    BY <1>2 DEF Good

LEMMA MergingSteps ==
    ASSUME NEW regions, NEW m \in Nat, NEW g, IsMerging(regions, m, g)
    PROVE  g[0] = regions /\ \A n \in 1 .. m : g[n] = MergeTwo(g[n - 1])
<1>2. \A n \in 0 .. m : g[n] = IF n = 0 THEN regions ELSE MergeTwo(g[n - 1])
    BY DEF IsMerging
<1>3. 0 \in 0 .. m /\ \A n \in 1 .. m : n \in 0 .. m /\ n # 0
    OBVIOUS
<1> QED
    BY <1>2, <1>3

\* EmissionsOf, piece by piece.
IsEmission(u, list, m, g) ==
    g = [n \in 0 .. m |-> IF n = 0 THEN <<>> ELSE g[n - 1] \o Emitted(u, list[n])]

LEMMA EmissionExists ==
    ASSUME NEW u, NEW list
    PROVE  \A m \in Nat : \E g : IsEmission(u, list, m, g)
<1> DEFINE Good == {m \in Nat : \E g : IsEmission(u, list, m, g)}
<1>1. ASSUME NEW m \in Nat, \A k \in 0 .. m - 1 : k \in Good
      PROVE  m \in Good
    <2>1. CASE m = 0
        <3>1. PICK g : g = [n \in 0 .. 0 |-> <<>>]
            OBVIOUS
        <3>2. IsEmission(u, list, 0, g)
            BY <3>1 DEF IsEmission
        <3> QED
            BY <2>1, <3>2
    <2>2. CASE m # 0
        <3>1. m - 1 \in Good
            BY <1>1, <2>2
        <3>2. PICK h : h = [n \in 0 .. m - 1 |-> IF n = 0 THEN <<>>
                                                 ELSE h[n - 1] \o Emitted(u, list[n])]
            BY <3>1 DEF IsEmission
        <3>x. PICK x : x = h[m - 1] \o Emitted(u, list[m])
            OBVIOUS
        <3>3. PICK g : g = [n \in 0 .. m |-> IF n = m THEN x ELSE h[n]]
            OBVIOUS
        <3>4. ASSUME NEW n \in 0 .. m
              PROVE  g[n] = IF n = 0 THEN <<>> ELSE g[n - 1] \o Emitted(u, list[n])
            <4>1. CASE n = 0
                BY <2>2, <3>2, <3>3, <4>1
            <4>2. CASE n # 0
                <5>1. n - 1 \in 0 .. m - 1 /\ n - 1 \in 0 .. m /\ n - 1 # m
                    BY <4>2
                <5>2. g[n - 1] = h[n - 1]
                    BY <3>3, <5>1
                <5>3. CASE n = m
                    <6>1. g[n] = x
                        BY <3>3, <5>3
                    <6> QED
                        BY <3>x, <4>2, <5>2, <5>3, <6>1
                <5>4. CASE n # m
                    <6>1. n \in 0 .. m - 1 /\ g[n] = h[n]
                        BY <3>3, <5>4
                    <6>2. h[n] = h[n - 1] \o Emitted(u, list[n])
                        BY <3>2, <4>2, <6>1
                    <6> QED
                        BY <4>2, <5>2, <6>1, <6>2
                <5> QED
                    BY <5>3, <5>4
            <4> QED
                BY <4>1, <4>2
        <3>5. g = [n \in 0 .. m |-> IF n = 0 THEN <<>> ELSE g[n - 1] \o Emitted(u, list[n])]
            BY <3>3, <3>4
        <3>6. IsEmission(u, list, m, g)
            BY <3>5 DEF IsEmission
        <3> QED
            BY <3>6
    <2> QED
        BY <2>1, <2>2
<1> HIDE DEF Good
<1>2. \A m \in Nat : m \in Good
    BY <1>1, AllNumbers
<1> QED
    BY <1>2 DEF Good

\* Written, emission by emission.
IsWriting(first, list, m, g) ==
    g = [n \in 0 .. m |-> IF n = 0 THEN first ELSE Emit(g[n - 1], list[n])]

LEMMA WritingExists ==
    ASSUME NEW first, NEW list
    PROVE  \A m \in Nat : \E g : IsWriting(first, list, m, g)
<1> DEFINE Good == {m \in Nat : \E g : IsWriting(first, list, m, g)}
<1>1. ASSUME NEW m \in Nat, \A k \in 0 .. m - 1 : k \in Good
      PROVE  m \in Good
    <2>1. CASE m = 0
        <3>1. PICK g : g = [n \in 0 .. 0 |-> first]
            OBVIOUS
        <3>2. IsWriting(first, list, 0, g)
            BY <3>1 DEF IsWriting
        <3> QED
            BY <2>1, <3>2
    <2>2. CASE m # 0
        <3>1. m - 1 \in Good
            BY <1>1, <2>2
        <3>2. PICK h : h = [n \in 0 .. m - 1 |-> IF n = 0 THEN first
                                                 ELSE Emit(h[n - 1], list[n])]
            BY <3>1 DEF IsWriting
        <3>x. PICK x : x = Emit(h[m - 1], list[m])
            OBVIOUS
        <3>3. PICK g : g = [n \in 0 .. m |-> IF n = m THEN x ELSE h[n]]
            OBVIOUS
        <3>4. ASSUME NEW n \in 0 .. m
              PROVE  g[n] = IF n = 0 THEN first ELSE Emit(g[n - 1], list[n])
            <4>1. CASE n = 0
                BY <2>2, <3>2, <3>3, <4>1
            <4>2. CASE n # 0
                <5>1. n - 1 \in 0 .. m - 1 /\ n - 1 \in 0 .. m /\ n - 1 # m
                    BY <4>2
                <5>2. g[n - 1] = h[n - 1]
                    BY <3>3, <5>1
                <5>3. CASE n = m
                    <6>1. g[n] = x
                        BY <3>3, <5>3
                    <6> QED
                        BY <3>x, <4>2, <5>2, <5>3, <6>1
                <5>4. CASE n # m
                    <6>1. n \in 0 .. m - 1 /\ g[n] = h[n]
                        BY <3>3, <5>4
                    <6>2. h[n] = Emit(h[n - 1], list[n])
                        BY <3>2, <4>2, <6>1
                    <6> QED
                        BY <4>2, <5>2, <6>1, <6>2
                <5> QED
                    BY <5>3, <5>4
            <4> QED
                BY <4>1, <4>2
        <3>5. g = [n \in 0 .. m |-> IF n = 0 THEN first ELSE Emit(g[n - 1], list[n])]
            BY <3>3, <3>4
        <3>6. IsWriting(first, list, m, g)
            BY <3>5 DEF IsWriting
        <3> QED
            BY <3>6
    <2> QED
        BY <2>1, <2>2
<1> HIDE DEF Good
<1>2. \A m \in Nat : m \in Good
    BY <1>1, AllNumbers
<1> QED
    BY <1>2 DEF Good

-----------------------------------------------------------------------------
(* Every element of a finite set is listed, once *)

LEMMA SomethingIsLeft ==
    ASSUME NEW S, IsFiniteSet(S), NEW s \in Seq(S), Len(s) < Cardinality(S),
           NEW x, x = Chosen(S \ Range(s))
    PROVE  x \in S /\ x \notin Range(s)
<1>1. PICK m \in Nat : m = Len(s)
    BY LenProperties
<1>2. PICK R : R = Range(s)
    OBVIOUS
<1>3. s \in [1 .. m -> S] /\ R = {s[i] : i \in 1 .. m}
    BY <1>1, <1>2, LenProperties DEF Range
<1>4. IsFiniteSet(1 .. m) /\ Cardinality(1 .. m) = m
    BY FS_Interval
<1>5. s \in Surjection(1 .. m, R)
    BY <1>3 DEF Surjection
<1>6. Cardinality(R) <= m
    BY <1>4, <1>5, FS_Surjection
<1>7. S # R
    BY <1>1, <1>6, FS_CardinalityType
<1>8. R \subseteq S
    BY <1>3
<1>9. S \ R # {}
    BY <1>7, <1>8
<1> QED
    BY <1>2, <1>9 DEF Chosen

\* The list has n elements, no two of them the same.
Distinct(s, S, n) ==
    /\ s \in Seq(S) /\ Len(s) = n
    /\ \A i, j \in 1 .. n : s[i] = s[j] => i = j

LEMMA OneMoreDistinct ==
    ASSUME NEW S, IsFiniteSet(S), NEW n \in Nat, n < Cardinality(S), NEW s, Distinct(s, S, n)
    PROVE  Distinct(Lengthened(s, S), S, n + 1)
<1>1. PICK x : x = Chosen(S \ Range(s))
    OBVIOUS
<1>2. s \in Seq(S) /\ Len(s) = n /\ \A i, j \in 1 .. n : s[i] = s[j] => i = j
    BY DEF Distinct
<1>3. x \in S /\ x \notin Range(s)
    BY <1>1, <1>2, SomethingIsLeft
<1>4. \A i \in 1 .. n : s[i] # x
    BY <1>2, <1>3 DEF Range
<1>5. PICK t : t = Append(s, x)
    OBVIOUS
<1>6. /\ t \in Seq(S) /\ Len(t) = n + 1 /\ t[n + 1] = x
      /\ \A i \in 1 .. n : t[i] = s[i]
    BY <1>2, <1>3, <1>5, AppendProperties
<1>7. ASSUME NEW i \in 1 .. n + 1, NEW j \in 1 .. n + 1, t[i] = t[j]
      PROVE  i = j
    <2>1. \A k \in 1 .. n + 1 : k \in 1 .. n \/ k = n + 1
        OBVIOUS
    <2> QED
        BY <1>2, <1>4, <1>6, <1>7, <2>1
<1>8. t = Lengthened(s, S)
    BY <1>1, <1>5 DEF Lengthened
<1> QED
    BY <1>6, <1>7, <1>8 DEF Distinct

LEMMA ListedIs ==
    ASSUME NEW S, IsFiniteSet(S)
    PROVE  /\ Listed(S) \in Seq(S) /\ Len(Listed(S)) = Cardinality(S)
           /\ \A x \in S : \E i \in 1 .. Len(Listed(S)) : Listed(S)[i] = x
           /\ \A i \in 1 .. Len(Listed(S)) : Listed(S)[i] \in S
<1>1. PICK m \in Nat : m = Cardinality(S)
    BY FS_CardinalityType
<1>2. PICK g : g = CHOOSE a : IsListing(S, m, a)
    OBVIOUS
<1>g. IsListing(S, m, g)
    <2>1. \E a : IsListing(S, m, a)
        BY ListingExists
    <2> QED
        BY <1>2, <2>1
<1>3. g[0] = <<>> /\ \A n \in 1 .. m : g[n] = Lengthened(g[n - 1], S)
    BY <1>g, ListingSteps
<1>4. Listed(S) = g[m]
    BY <1>1, <1>2 DEF Listed, IsListing
<1> DEFINE Good == {n \in Nat : n <= m => Distinct(g[n], S, n)}
<1>5. ASSUME NEW n \in Nat, \A k \in 0 .. n - 1 : k \in Good
      PROVE  n \in Good
    <2>1. CASE n = 0
        <3>1. Distinct(<<>>, S, 0)
            BY DEF Distinct
        <3> QED
            BY <1>3, <2>1, <3>1
    <2>2. CASE n # 0 /\ n <= m
        <3>1. n - 1 \in Nat /\ n - 1 \in 0 .. n - 1 /\ n \in 1 .. m /\ n - 1 < m /\ (n - 1) + 1 = n
            BY <2>2
        <3>2. Distinct(g[n - 1], S, n - 1)
            BY <1>5, <2>2, <3>1
        <3>3. Distinct(Lengthened(g[n - 1], S), S, n)
            BY <1>1, <3>1, <3>2, OneMoreDistinct
        <3> QED
            BY <1>3, <3>1, <3>3
    <2> QED
        BY <2>1, <2>2
<1> HIDE DEF Good
<1>6. m \in Good
    BY <1>5, AllNumbers
<1>7. PICK s : s = g[m]
    OBVIOUS
<1>8. s \in Seq(S) /\ Len(s) = m /\ \A i, j \in 1 .. m : s[i] = s[j] => i = j
    BY <1>6, <1>7 DEF Good, Distinct
<1>9. s \in [1 .. m -> S]
    BY <1>8, LenProperties
<1>10. s \in Injection(1 .. m, S)
    BY <1>8, <1>9 DEF Injection, IsInjective
<1>11. IsFiniteSet(1 .. m) /\ Cardinality(1 .. m) = m
    BY FS_Interval
<1>12. s \in Surjection(1 .. m, S)
    BY <1>1, <1>10, <1>11, FS_Injection
<1> QED
    BY <1>1, <1>4, <1>7, <1>8, <1>9, <1>12 DEF Surjection

-----------------------------------------------------------------------------
(* Regions: there are finitely many, each with a frontier *)

RegionGiven(r) ==
    /\ r = [box |-> r.box, layout |-> r.layout, family |-> r.family, accesses |-> r.accesses]
    /\ r.accesses = [anchor |-> r.accesses.anchor, readers |-> r.accesses.readers]
    /\ IsFiniteSet(r.accesses.anchor) /\ IsList(r.accesses.readers)

RegionsGiven(regions) == IsFiniteSet(regions) /\ \A r \in regions : RegionGiven(r)

LEMMA BoxChanged ==
    ASSUME NEW r, RegionGiven(r), NEW b
    PROVE  RegionGiven([r EXCEPT !.box = b])
<1>1. PICK s : s = [r EXCEPT !.box = b]
    OBVIOUS
<1>2. s = [box |-> b, layout |-> r.layout, family |-> r.family, accesses |-> r.accesses]
    BY <1>1 DEF RegionGiven
<1> QED
    BY <1>1, <1>2 DEF RegionGiven

LEMMA NothingIsGiven ==
    /\ RegionsGiven({})
    /\ \A b : RegionGiven(Untouched(b))
BY FS_EmptySet, EmptyIsList DEF RegionsGiven, RegionGiven, Untouched, NoFrontier

LEMMA PiecesAreFinite ==
    ASSUME NEW box, NEW removed
    PROVE  IsFiniteSet(Subtract(box, removed))
<1>1. PICK x : x = Intersection(box, removed)
    OBVIOUS
<1>p. PICK a, b, c, d, e :
        /\ a = [aspects |-> box.aspects \ x.aspects, mips |-> box.mips, layers |-> box.layers]
        /\ b = [aspects |-> x.aspects, mips |-> Before(box.mips, x.mips), layers |-> box.layers]
        /\ c = [aspects |-> x.aspects, mips |-> After(box.mips, x.mips), layers |-> box.layers]
        /\ d = [aspects |-> x.aspects, mips |-> x.mips, layers |-> Before(box.layers, x.layers)]
        /\ e = [aspects |-> x.aspects, mips |-> x.mips, layers |-> After(box.layers, x.layers)]
    OBVIOUS
<1>s. Subtract(box, removed) =
        IF ~ Overlaps(box, removed) THEN {box} ELSE {p \in {a, b, c, d, e} : Cells(p) # {}}
    BY <1>1, <1>p, Zenon DEF Subtract
<1>t. Subtract(box, removed) \subseteq {box, a, b, c, d, e}
    BY <1>s
<1>2. IsFiniteSet({box, a, b, c, d, e})
    <2>1. IsFiniteSet({box})
        BY FS_Singleton
    <2>2. {box, a, b, c, d, e} = (((({box} \cup {a}) \cup {b}) \cup {c}) \cup {d}) \cup {e}
        OBVIOUS
    <2>3. IsFiniteSet({box} \cup {a})
        BY <2>1, FS_AddElement
    <2>4. IsFiniteSet(({box} \cup {a}) \cup {b})
        BY <2>3, FS_AddElement
    <2>5. IsFiniteSet((({box} \cup {a}) \cup {b}) \cup {c})
        BY <2>4, FS_AddElement
    <2>6. IsFiniteSet(((({box} \cup {a}) \cup {b}) \cup {c}) \cup {d})
        BY <2>5, FS_AddElement
    <2>7. IsFiniteSet((((({box} \cup {a}) \cup {b}) \cup {c}) \cup {d}) \cup {e})
        BY <2>6, FS_AddElement
    <2> QED
        BY <2>2, <2>7
<1> QED
    BY <1>t, <1>2, FS_Subset

LEMMA GapsAreFinite ==
    ASSUME NEW gaps, IsFiniteSet(gaps), NEW region
    PROVE  IsFiniteSet(Without(gaps, region))
<1>1. PICK f : f = [g \in gaps |-> Subtract(g, region.box)]
    OBVIOUS
<1>2. PICK T : T = {f[g] : g \in gaps}
    OBVIOUS
<1>3. IsFiniteSet(T)
    BY <1>1, <1>2, ImageIsFinite
<1>4. \A t \in T : IsFiniteSet(t)
    BY <1>1, <1>2, PiecesAreFinite
<1>5. IsFiniteSet(UNION T)
    BY <1>3, <1>4, FS_UNION
<1>6. T = {Subtract(g, region.box) : g \in gaps}
    BY <1>1, <1>2
<1> QED
    BY <1>5, <1>6 DEF Without

LEMMA UncoveredIsFinite ==
    ASSUME NEW box, NEW regions, IsFiniteSet(regions)
    PROVE  IsFiniteSet(Uncovered(box, regions))
<1>1. PICK list : list = Listed(regions)
    OBVIOUS
<1>2. PICK m \in Nat : m = Len(list)
    BY <1>1, ListedIs, FS_CardinalityType
<1>3. PICK g : g = CHOOSE a : IsGaps(box, list, m, a)
    OBVIOUS
<1>g. IsGaps(box, list, m, g)
    <2>1. \E a : IsGaps(box, list, m, a)
        BY GapsExists
    <2> QED
        BY <1>3, <2>1
<1>4. g[0] = {box} /\ \A n \in 1 .. m : g[n] = Without(g[n - 1], list[n])
    BY <1>g, GapsSteps
<1>5. Uncovered(box, regions) = g[m]
    BY <1>1, <1>2, <1>3 DEF Uncovered, IsGaps
<1> DEFINE Good == {n \in Nat : n <= m => IsFiniteSet(g[n])}
<1>6. ASSUME NEW n \in Nat, \A k \in 0 .. n - 1 : k \in Good
      PROVE  n \in Good
    <2>1. CASE n = 0
        BY <1>4, <2>1, FS_Singleton
    <2>2. CASE n # 0 /\ n <= m
        <3>1. n - 1 \in 0 .. n - 1 /\ n \in 1 .. m /\ n - 1 <= m
            BY <2>2
        <3>2. IsFiniteSet(g[n - 1])
            BY <1>6, <3>1
        <3> QED
            BY <1>4, <3>1, <3>2, GapsAreFinite
    <2> QED
        BY <2>1, <2>2
<1> HIDE DEF Good
<1>7. m \in Good
    BY <1>6, AllNumbers
<1> QED
    BY <1>5, <1>7 DEF Good

LEMMA PartitionGiven ==
    ASSUME NEW regions, RegionsGiven(regions), NEW box
    PROVE  RegionsGiven(Partition(regions, box))
<1>1. PICK f : f = [r \in regions |-> PiecesOf(r, box)]
    OBVIOUS
<1>2. PICK T : T = {f[r] : r \in regions}
    OBVIOUS
<1>3. PICK u : u = [b \in Uncovered(box, regions) |-> Untouched(b)]
    OBVIOUS
<1>4. PICK U : U = {u[b] : b \in Uncovered(box, regions)}
    OBVIOUS
<1>5. T = {PiecesOf(r, box) : r \in regions}
    BY <1>1, <1>2
<1>6. U = {Untouched(b) : b \in Uncovered(box, regions)}
    BY <1>3, <1>4
<1>7. Partition(regions, box) = (UNION T) \cup U
    BY <1>5, <1>6, Zenon DEF Partition
<1>8. ASSUME NEW r \in regions
      PROVE  IsFiniteSet(f[r]) /\ \A p \in f[r] : RegionGiven(p)
    <2>1. RegionGiven(r)
        BY DEF RegionsGiven
    <2>2. CASE Overlaps(r.box, box)
        <3>1. PICK B : B = Subtract(r.box, box) \cup {Intersection(r.box, box)}
            OBVIOUS
        <3>2. PICK h : h = [b \in B |-> [r EXCEPT !.box = b]]
            OBVIOUS
        <3>3. IsFiniteSet(B)
            BY <3>1, PiecesAreFinite, FS_AddElement
        <3>4. IsFiniteSet({h[b] : b \in B})
            BY <3>2, <3>3, ImageIsFinite
        <3>5. f[r] = {h[b] : b \in B}
            BY <1>1, <2>2, <3>1, <3>2 DEF PiecesOf
        <3>6. \A p \in f[r] : \E b : p = [r EXCEPT !.box = b]
            BY <3>2, <3>5
        <3> QED
            BY <2>1, <3>4, <3>5, <3>6, BoxChanged
    <2>3. CASE ~ Overlaps(r.box, box)
        <3>1. f[r] = {r}
            BY <1>1, <2>3 DEF PiecesOf
        <3> QED
            BY <2>1, <3>1, FS_Singleton
    <2> QED
        BY <2>2, <2>3
<1>9. IsFiniteSet(UNION T)
    <2>1. IsFiniteSet(T)
        <3>1. DOMAIN f = regions /\ IsFiniteSet(regions)
            BY <1>1 DEF RegionsGiven
        <3> QED
            BY <1>2, <3>1, ImageIsFinite
    <2> QED
        BY <1>2, <1>8, <2>1, FS_UNION
<1>10. IsFiniteSet(U)
    BY <1>3, <1>4, UncoveredIsFinite, ImageIsFinite DEF RegionsGiven
<1>11. \A p \in U : RegionGiven(p)
    BY <1>3, <1>4, NothingIsGiven
<1>12. IsFiniteSet((UNION T) \cup U)
    BY <1>9, <1>10, FS_Union
<1> QED
    BY <1>2, <1>7, <1>8, <1>11, <1>12 DEF RegionsGiven

LEMMA MergeTwoGiven ==
    ASSUME NEW regions, RegionsGiven(regions)
    PROVE  RegionsGiven(MergeTwo(regions))
<1>1. PICK pairs : pairs = {p \in regions \X regions :
                            /\ p[1] # p[2] /\ Alike(p[1], p[2])
                            /\ MergeCompatible(p[1].box, p[2].box)}
    OBVIOUS
<1>2. CASE pairs = {}
    <2>1. MergeTwo(regions) = regions
        BY <1>1, <1>2 DEF MergeTwo
    <2> QED
        BY <2>1
<1>3. CASE pairs # {}
    <2>1. PICK p : p = Chosen(pairs)
        OBVIOUS
    <2>2. p \in pairs
        BY <1>3, <2>1 DEF Chosen
    <2>3. p[1] \in regions
        BY <1>1, <2>2
    <2>4. PICK b : [p[1] EXCEPT !.box = Union(@, p[2].box)] = [p[1] EXCEPT !.box = b]
        OBVIOUS
    <2>5. PICK q : q = [p[1] EXCEPT !.box = b]
        OBVIOUS
    <2>6. MergeTwo(regions) = (regions \ {p[1], p[2]}) \cup {q}
        BY <1>1, <1>3, <2>1, <2>4, <2>5 DEF MergeTwo
    <2>7. RegionGiven(q)
        BY <2>3, <2>5, BoxChanged DEF RegionsGiven
    <2>8. IsFiniteSet(regions \ {p[1], p[2]})
        BY FS_Subset DEF RegionsGiven
    <2>9. IsFiniteSet((regions \ {p[1], p[2]}) \cup {q})
        BY <2>8, FS_AddElement
    <2> QED
        BY <2>6, <2>7, <2>9 DEF RegionsGiven
<1> QED
    BY <1>2, <1>3

LEMMA MergeGiven ==
    ASSUME NEW regions, RegionsGiven(regions)
    PROVE  RegionsGiven(Merge(regions))
<1>1. PICK m \in Nat : m = Cardinality(regions)
    BY FS_CardinalityType DEF RegionsGiven
<1>2. PICK g : g = CHOOSE a : IsMerging(regions, m, a)
    OBVIOUS
<1>g. IsMerging(regions, m, g)
    <2>1. \E a : IsMerging(regions, m, a)
        BY MergingExists
    <2> QED
        BY <1>2, <2>1
<1>3. g[0] = regions /\ \A n \in 1 .. m : g[n] = MergeTwo(g[n - 1])
    BY <1>g, MergingSteps
<1>4. Merge(regions) = g[m]
    BY <1>1, <1>2 DEF Merge, IsMerging
<1> DEFINE Good == {n \in Nat : n <= m => RegionsGiven(g[n])}
<1>5. ASSUME NEW n \in Nat, \A k \in 0 .. n - 1 : k \in Good
      PROVE  n \in Good
    <2>1. CASE n = 0
        BY <1>3, <2>1
    <2>2. CASE n # 0 /\ n <= m
        <3>1. n - 1 \in 0 .. n - 1 /\ n \in 1 .. m /\ n - 1 <= m
            BY <2>2
        <3>2. RegionsGiven(g[n - 1])
            BY <1>5, <3>1
        <3> QED
            BY <1>3, <3>1, <3>2, MergeTwoGiven
    <2> QED
        BY <2>1, <2>2
<1> HIDE DEF Good
<1>6. m \in Good
    BY <1>5, AllNumbers
<1> QED
    BY <1>4, <1>6 DEF Good

-----------------------------------------------------------------------------
(* What a use emits is a list, and the regions after it are given *)

LEMMA EdgesAreListed ==
    ASSUME NEW accesses, IsFiniteSet(accesses), NEW t
    PROVE  IsList(EdgesFrom(accesses, t))
<1>1. PICK f : f = [a \in accesses |-> Edge(a.step, t)]
    OBVIOUS
<1>2. PICK T : T = {f[a] : a \in accesses}
    OBVIOUS
<1>3. IsFiniteSet(T)
    BY <1>1, <1>2, ImageIsFinite
<1>4. T = {Edge(a.step, t) : a \in accesses}
    BY <1>1, <1>2
<1>5. EdgesFrom(accesses, t) = Listed(T)
    BY <1>4, Zenon DEF EdgesFrom
<1> QED
    BY <1>3, <1>5, ListedIs DEF IsList

LEMMA RangeIsFinite ==
    ASSUME NEW s, IsList(s)
    PROVE  IsFiniteSet(Range(s))
<1>1. PICK S : s \in Seq(S)
    BY DEF IsList
<1>2. PICK m \in Nat : m = Len(s)
    BY <1>1
<1>3. DOMAIN s = 1 .. m
    BY <1>1, <1>2, LenProperties
<1>4. IsFiniteSet(1 .. m)
    BY FS_Interval
<1>5. PICK T : T = {s[i] : i \in 1 .. m}
    OBVIOUS
<1>6. IsFiniteSet(T)
    BY <1>3, <1>4, <1>5, ImageIsFinite
<1> QED
    BY <1>3, <1>5, <1>6 DEF Range

LEMMA PairIsList ==
    ASSUME NEW x, NEW y
    PROVE  IsList(<<>>) /\ IsList(<<x>>) /\ IsList(<<x, y>>)
<1>1. <<>> \in Seq({x, y}) /\ <<x>> \in Seq({x, y}) /\ <<x, y>> \in Seq({x, y})
    OBVIOUS
<1> QED
    BY <1>1 DEF IsList

LEMMA EmittedIsList ==
    ASSUME NEW r, RegionGiven(r), NEW u
    PROVE  IsList(Emitted(u, r))
<1>1. /\ IsFiniteSet(r.accesses.anchor) /\ IsList(r.accesses.readers)
      /\ IsFiniteSet(Range(r.accesses.readers)) /\ IsFiniteSet(Accesses(r.accesses))
    BY RangeIsFinite DEF RegionGiven, Accesses
<1>2. IsList(EmitFirst(u, r))
    BY PairIsList DEF EmitFirst
<1>3. IsList(EmitReader(u, r))
    <2>1. PICK e : e = EdgesFrom(r.accesses.anchor, step)
        OBVIOUS
    <2>2. PICK b : b = IF \E a \in r.accesses.anchor : a.access # "read"
                       THEN <<BarrierBefore(step,
                                Barrier(u, r, r.layout, u.layout,
                                        SourceScope(r.accesses.anchor, queueOf[step]), {u.stage},
                                        "ignored", "ignored"))>>
                       ELSE <<>>
        OBVIOUS
    <2>3. IsList(e) /\ IsList(b)
        BY <1>1, <2>1, <2>2, EdgesAreListed, PairIsList
    <2>4. EmitReader(u, r) = e \o b
        BY <2>1, <2>2 DEF EmitReader
    <2> QED
        BY <2>3, <2>4, JoinedIsList
<1>4. ASSUME NEW new
      PROVE  IsList(EmitTransfer(u, r, new))
    <2>1. PICK e : e = EdgesFrom(Range(r.accesses.readers), Handoff(r.accesses).step)
        OBVIOUS
    <2>2. PICK x, y : EmitTransfer(u, r, new) = e \o <<x, y>>
        BY <2>1 DEF EmitTransfer
    <2>3. IsList(e) /\ IsList(<<x, y>>)
        BY <1>1, <2>1, EdgesAreListed, PairIsList
    <2> QED
        BY <2>2, <2>3, JoinedIsList
<1>5. IsList(EmitAdvance(u, r))
    <2>1. PICK e : e = EdgesFrom(Accesses(r.accesses), step)
        OBVIOUS
    <2>2. PICK new : new = IF u.pass THEN r.layout ELSE u.layout
        OBVIOUS
    <2>3. PICK x : EmitAdvance(u, r) = e \o IF Transfers(u, r) THEN EmitTransfer(u, r, new) ELSE <<x>>
        BY <2>1, <2>2 DEF EmitAdvance
    <2>4. PICK b : b = IF Transfers(u, r) THEN EmitTransfer(u, r, new) ELSE <<x>>
        OBVIOUS
    <2>5. IsList(e) /\ IsList(b)
        BY <1>1, <1>4, <2>1, <2>4, EdgesAreListed, PairIsList
    <2> QED
        BY <2>3, <2>4, <2>5, JoinedIsList
<1> QED
    BY <1>2, <1>3, <1>5 DEF Emitted

LEMMA AdvancedGiven ==
    ASSUME NEW r, RegionGiven(r), NEW u
    PROVE  RegionGiven(Advanced(u, r))
<1>1. ASSUME NEW s, NEW a, NEW q, IsFiniteSet(a), IsList(q),
             NEW b, NEW l, NEW f,
             s = [box |-> b, layout |-> l, family |-> f, accesses |-> [anchor |-> a, readers |-> q]]
      PROVE  RegionGiven(s)
    BY <1>1 DEF RegionGiven
<1>2. PICK x : x = Access(u)
    OBVIOUS
<1>3. /\ IsFiniteSet({}) /\ IsFiniteSet({x}) /\ IsList(<<>>) /\ IsList(<<x>>)
      /\ IsFiniteSet(r.accesses.anchor) /\ IsList(r.accesses.readers)
      /\ IsList(Append(r.accesses.readers, x))
    BY FS_EmptySet, FS_Singleton, PairIsList, AppendedIsList DEF RegionGiven
<1>r. r = [box |-> r.box, layout |-> r.layout, family |-> r.family,
           accesses |-> [anchor |-> r.accesses.anchor, readers |-> r.accesses.readers]]
    BY DEF RegionGiven
<1>4. RegionGiven(AfterFirst(u, r))
    <2>1. PICK c : c = (/\ u.access = "read" /\ ~ u.pass
                        /\ u.initial = u.layout /\ LayoutAfter(u) = u.layout)
        OBVIOUS
    <2>2. PICK n : n = IF c THEN [anchor |-> {}, readers |-> <<x>>]
                       ELSE [anchor |-> {x}, readers |-> <<>>]
        OBVIOUS
    <2>3. AfterFirst(u, r) = [box |-> r.box, layout |-> LayoutAfter(u), family |-> Family,
                              accesses |-> n]
        <3>1. PICK l, f : l = LayoutAfter(u) /\ f = Family
            OBVIOUS
        <3>2. AfterFirst(u, r) = [r EXCEPT !.layout = l, !.family = f, !.accesses = n]
            BY <1>2, <2>1, <2>2, <3>1 DEF AfterFirst
        <3> QED
            BY <1>r, <3>1, <3>2
    <2> QED
        BY <1>1, <1>3, <2>2, <2>3
<1>5. RegionGiven(AfterReader(u, r))
    <2>1. PICK n : n = IF x \in Range(r.accesses.readers) THEN r.accesses.readers
                       ELSE Append(r.accesses.readers, x)
        OBVIOUS
    <2>2. AfterReader(u, r) = [box |-> r.box, layout |-> r.layout, family |-> r.family,
                               accesses |-> [anchor |-> r.accesses.anchor, readers |-> n]]
        BY <1>r, <1>2, <2>1 DEF AfterReader
    <2> QED
        BY <1>1, <1>3, <2>1, <2>2
<1>6. RegionGiven(AfterAdvance(u, r))
    <2>1. PICK n : n = IF u.res \in Images /\ u.access = "read" THEN <<x>> ELSE <<>>
        OBVIOUS
    <2>2. AfterAdvance(u, r) = [box |-> r.box, layout |-> LayoutAfter(u), family |-> Family,
                                accesses |-> [anchor |-> {x}, readers |-> n]]
        <3>1. PICK l, f : l = LayoutAfter(u) /\ f = Family
            OBVIOUS
        <3>2. PICK a : a = [anchor |-> {x}, readers |-> n]
            OBVIOUS
        <3>3. AfterAdvance(u, r) = [r EXCEPT !.layout = l, !.family = f, !.accesses = a]
            BY <1>2, <2>1, <3>1, <3>2 DEF AfterAdvance
        <3> QED
            BY <1>r, <3>1, <3>2, <3>3
    <2> QED
        BY <1>1, <1>3, <2>1, <2>2
<1> QED
    BY <1>4, <1>5, <1>6 DEF Advanced

LEMMA RegionsAfterGiven ==
    ASSUME NEW u, RegionsGiven(tracked[u.res].regions)
    PROVE  RegionsGiven(RegionsAfter(u))
<1>1. PICK P : P = Partition(tracked[u.res].regions, u.box)
    OBVIOUS
<1>2. RegionsGiven(P)
    BY <1>1, PartitionGiven
<1>3. PICK f : f = [r \in P |-> IF Overlaps(r.box, u.box) THEN Advanced(u, r) ELSE r]
    OBVIOUS
<1>4. PICK N : N = {f[r] : r \in P}
    OBVIOUS
<1>5. IsFiniteSet(N)
    BY <1>2, <1>3, <1>4, ImageIsFinite DEF RegionsGiven
<1>6. RegionsGiven(N)
    BY <1>2, <1>3, <1>4, <1>5, AdvancedGiven DEF RegionsGiven
<1>7. N = {IF Overlaps(r.box, u.box) THEN Advanced(u, r) ELSE r : r \in P}
    BY <1>3, <1>4
<1>8. RegionsAfter(u) = Merge(N)
    BY <1>1, <1>7, Zenon DEF RegionsAfter
<1> QED
    BY <1>6, <1>8, MergeGiven

LEMMA EmissionsAreListed ==
    ASSUME NEW u, RegionsGiven(tracked[u.res].regions)
    PROVE  IsList(EmissionsOf(u))
<1>1. PICK P : P = {r \in Partition(tracked[u.res].regions, u.box) : Overlaps(r.box, u.box)}
    OBVIOUS
<1>2. IsFiniteSet(P) /\ \A r \in P : RegionGiven(r)
    <2>1. RegionsGiven(Partition(tracked[u.res].regions, u.box))
        BY PartitionGiven
    <2> QED
        BY <1>1, <2>1, FS_Subset DEF RegionsGiven
<1>3. PICK list : list = Listed(P)
    OBVIOUS
<1>4. PICK m \in Nat : m = Len(list)
    BY <1>2, <1>3, ListedIs, FS_CardinalityType
<1>5. \A i \in 1 .. m : RegionGiven(list[i])
    BY <1>2, <1>3, <1>4, ListedIs
<1>6. PICK g : g = CHOOSE a : IsEmission(u, list, m, a)
    OBVIOUS
<1>7. IsEmission(u, list, m, g)
    <2>1. \E a : IsEmission(u, list, m, a)
        BY EmissionExists
    <2> QED
        BY <1>6, <2>1
<1>8. g[0] = <<>> /\ \A n \in 1 .. m : g[n] = g[n - 1] \o Emitted(u, list[n])
    <2>1. \A n \in 0 .. m : g[n] = IF n = 0 THEN <<>> ELSE g[n - 1] \o Emitted(u, list[n])
        BY <1>7 DEF IsEmission
    <2>2. 0 \in 0 .. m /\ \A n \in 1 .. m : n \in 0 .. m /\ n # 0
        OBVIOUS
    <2> QED
        BY <2>1, <2>2
<1>9. EmissionsOf(u) = g[m]
    BY <1>1, <1>3, <1>4, <1>6 DEF EmissionsOf, IsEmission
<1> DEFINE Good == {n \in Nat : n <= m => IsList(g[n])}
<1>10. ASSUME NEW n \in Nat, \A k \in 0 .. n - 1 : k \in Good
       PROVE  n \in Good
    <2>1. CASE n = 0
        BY <1>8, <2>1, EmptyIsList
    <2>2. CASE n # 0 /\ n <= m
        <3>1. n - 1 \in 0 .. n - 1 /\ n \in 1 .. m /\ n - 1 <= m
            BY <2>2
        <3>2. IsList(g[n - 1])
            BY <1>10, <3>1
        <3>3. IsList(Emitted(u, list[n]))
            BY <1>5, <3>1, EmittedIsList
        <3> QED
            BY <1>8, <3>1, <3>2, <3>3, JoinedIsList
    <2> QED
        BY <2>1, <2>2
<1> HIDE DEF Good
<1>11. m \in Good
    BY <1>10, AllNumbers
<1> QED
    BY <1>9, <1>11 DEF Good

-----------------------------------------------------------------------------
(* The journal: what it takes to go back *)

\* A plan is three lists, or families of them.
PlanGiven(p) ==
    /\ p = [edges |-> p.edges, before |-> p.before, after |-> p.after]
    /\ p.before = [t \in Steps |-> p.before[t]] /\ p.after = [t \in Steps |-> p.after[t]]
    /\ IsList(p.edges)
    /\ \A t \in Steps : IsList(p.before[t]) /\ IsList(p.after[t])

\* The lists of a step continue what they were when the journal was opened, and
\* it remembers how long they were unless they are the same.
StepKept(j, p, old, t) ==
    IF t \in DOMAIN j.lengths
    THEN /\ j.lengths[t].before = Len(old.before[t]) /\ j.lengths[t].after = Len(old.after[t])
         /\ Continues(p.before[t], old.before[t]) /\ Continues(p.after[t], old.after[t])
    ELSE p.before[t] = old.before[t] /\ p.after[t] = old.after[t]

WorkKept(w, old) ==
    /\ w = [plan |-> w.plan, journal |-> w.journal]
    /\ w.journal = [open |-> TRUE, known |-> w.journal.known, prior |-> w.journal.prior,
                    edges |-> w.journal.edges, lengths |-> w.journal.lengths]
    /\ PlanGiven(w.plan)
    /\ w.journal.edges = Len(old.edges) /\ Continues(w.plan.edges, old.edges)
    /\ \A t \in Steps : StepKept(w.journal, w.plan, old, t)

\* What was known of a resource is in the journal if it has changed.
PriorKept(j, now, old) ==
    /\ j.known = {r \in Resources : old[r].known}
    /\ DOMAIN j.prior \subseteq j.known
    /\ \A r \in DOMAIN j.prior : j.prior[r] = old[r]
    /\ \A r \in j.known \ DOMAIN j.prior : now[r] = old[r]

LEMMA EdgeKept ==
    ASSUME NEW old, PlanGiven(old), NEW w, WorkKept(w, old), NEW x
    PROVE  WorkKept([w EXCEPT !.plan = [w.plan EXCEPT !.edges = Append(@, x)]], old)
<1>1. PICK p : p = w.plan
    OBVIOUS
<1>2. PICK j : j = w.journal
    OBVIOUS
<1>3. PICK e : e = Append(p.edges, x)
    OBVIOUS
<1>4. PICK n : n = [edges |-> e, before |-> p.before, after |-> p.after]
    OBVIOUS
<1>5. /\ w = [plan |-> p, journal |-> j] /\ PlanGiven(p)
      /\ p = [edges |-> p.edges, before |-> p.before, after |-> p.after]
    BY <1>1, <1>2 DEF WorkKept, PlanGiven
<1>6. [w EXCEPT !.plan = [w.plan EXCEPT !.edges = Append(@, x)]] = [plan |-> n, journal |-> j]
    <2>1. PICK a, b, c : p = [edges |-> a, before |-> b, after |-> c]
        BY <1>5
    <2>2. p.edges = a /\ p.before = b /\ p.after = c
        BY <2>1
    <2>3. [p EXCEPT !.edges = Append(@, x)] = [edges |-> Append(a, x), before |-> b, after |-> c]
        BY <2>1
    <2>4. [p EXCEPT !.edges = Append(@, x)] = n
        BY <1>3, <1>4, <2>2, <2>3
    <2>5. [w EXCEPT !.plan = n] = [plan |-> n, journal |-> j]
        BY <1>5
    <2> QED
        BY <1>1, <2>4, <2>5
<1>7. Continues(e, old.edges) /\ IsList(e)
    <2>1. Continues(p.edges, old.edges)
        BY <1>1 DEF WorkKept
    <2>2. Continues(e, old.edges)
        BY <1>3, <2>1, ContinuesOn
    <2> QED
        BY <2>2 DEF Continues
<1>8. PlanGiven(n)
    BY <1>4, <1>5, <1>7 DEF PlanGiven
<1>9. \A t \in Steps : StepKept(j, n, old, t)
    BY <1>1, <1>2, <1>4 DEF WorkKept, StepKept
<1>10. PICK v : v = [plan |-> n, journal |-> j]
    OBVIOUS
<1>11. v.plan = n /\ v.journal = j /\ v = [plan |-> v.plan, journal |-> v.journal]
    BY <1>10
<1>12. n.edges = e
    BY <1>4
<1>13. WorkKept(v, old)
    BY <1>2, <1>7, <1>8, <1>9, <1>11, <1>12 DEF WorkKept
<1> QED
    BY <1>6, <1>10, <1>13

LEMMA RememberedIs ==
    ASSUME NEW j, NEW p, NEW st,
           j = [open |-> TRUE, known |-> j.known, prior |-> j.prior, edges |-> j.edges,
                lengths |-> j.lengths],
           NEW k, k = Remember(j, p, st)
    PROVE  /\ k = [open |-> TRUE, known |-> j.known, prior |-> j.prior, edges |-> j.edges,
                   lengths |-> k.lengths]
           /\ st \in DOMAIN k.lengths
           /\ \A t : t # st \/ st \in DOMAIN j.lengths =>
                /\ t \in DOMAIN k.lengths <=> t \in DOMAIN j.lengths
                /\ t \in DOMAIN j.lengths => k.lengths[t] = j.lengths[t]
           /\ st \notin DOMAIN j.lengths =>
                /\ k.lengths[st].before = Len(p.before[st])
                /\ k.lengths[st].after = Len(p.after[st])
<1>1. CASE st \in DOMAIN j.lengths
    <2>1. k = j
        BY <1>1 DEF Remember
    <2> QED
        BY <1>1, <2>1
<1>2. CASE st \notin DOMAIN j.lengths
    <2>1. PICK v : v = [before |-> Len(p.before[st]), after |-> Len(p.after[st])]
        OBVIOUS
    <2>2. PICK f : f = WithKey(j.lengths, st, v)
        OBVIOUS
    <2>3. k = [j EXCEPT !.lengths = f]
        BY <1>2, <2>1, <2>2 DEF Remember
    <2>4. /\ DOMAIN f = DOMAIN j.lengths \cup {st}
          /\ \A t \in DOMAIN f : f[t] = IF t \in DOMAIN j.lengths THEN j.lengths[t] ELSE v
        BY <2>2 DEF WithKey
    <2>5. k = [open |-> TRUE, known |-> j.known, prior |-> j.prior, edges |-> j.edges,
               lengths |-> f]
        <3>1. PICK a, b, c, d, e : j = [open |-> a, known |-> b, prior |-> c, edges |-> d,
                                        lengths |-> e]
            OBVIOUS
        <3>2. a = TRUE /\ b = j.known /\ c = j.prior /\ d = j.edges
            BY <3>1
        <3>3. k = [open |-> a, known |-> b, prior |-> c, edges |-> d, lengths |-> f]
            BY <2>3, <3>1
        <3> QED
            BY <3>2, <3>3
    <2>6. k.lengths = f
        BY <2>5
    <2>7. f[st] = v /\ v.before = Len(p.before[st]) /\ v.after = Len(p.after[st])
        BY <1>2, <2>1, <2>4
    <2> QED
        BY <1>2, <2>4, <2>5, <2>6, <2>7
<1> QED
    BY <1>1, <1>2

LEMMA BarrierKept ==
    ASSUME NEW old, PlanGiven(old), NEW w, WorkKept(w, old), NEW st, NEW x, NEW n, NEW v,
           \/ n = [w.plan EXCEPT !.before[st] = Append(@, x)]
           \/ n = [w.plan EXCEPT !.after[st] = Append(@, x)],
           v = [plan |-> n, journal |-> Remember(w.journal, w.plan, st)]
    PROVE  WorkKept(v, old)
<1>1. PICK p, j : p = w.plan /\ j = w.journal
    OBVIOUS
<1>2. PICK k : k = Remember(j, p, st)
    OBVIOUS
<1>3. /\ p = [edges |-> p.edges, before |-> p.before, after |-> p.after] /\ PlanGiven(p)
      /\ p.before = [t \in Steps |-> p.before[t]] /\ p.after = [t \in Steps |-> p.after[t]]
      /\ j = [open |-> TRUE, known |-> j.known, prior |-> j.prior, edges |-> j.edges,
              lengths |-> j.lengths]
    BY <1>1 DEF WorkKept, PlanGiven
<1>4. /\ k = [open |-> TRUE, known |-> j.known, prior |-> j.prior, edges |-> j.edges,
              lengths |-> k.lengths]
      /\ st \in DOMAIN k.lengths
      /\ \A t : t # st \/ st \in DOMAIN j.lengths =>
            /\ t \in DOMAIN k.lengths <=> t \in DOMAIN j.lengths
            /\ t \in DOMAIN j.lengths => k.lengths[t] = j.lengths[t]
      /\ st \notin DOMAIN j.lengths =>
            /\ k.lengths[st].before = Len(p.before[st])
            /\ k.lengths[st].after = Len(p.after[st])
    BY <1>2, <1>3, RememberedIs
<1>5. /\ n = [edges |-> p.edges, before |-> n.before, after |-> n.after]
      /\ n.before = [t \in Steps |-> n.before[t]] /\ n.after = [t \in Steps |-> n.after[t]]
      /\ \A t \in Steps :
            /\ n.before[t] = p.before[t] \/ (t = st /\ n.before[t] = Append(p.before[t], x))
            /\ n.after[t] = p.after[t] \/ (t = st /\ n.after[t] = Append(p.after[t], x))
    <2>1. CASE n = [w.plan EXCEPT !.before[st] = Append(@, x)]
        <3>1. PICK f : f = [p.before EXCEPT ![st] = Append(@, x)]
            OBVIOUS
        <3>2. n = [edges |-> p.edges, before |-> f, after |-> p.after]
            BY <1>1, <1>3, <2>1, <3>1
        <3>3. f = [t \in Steps |-> IF t = st THEN Append(p.before[t], x) ELSE p.before[t]]
            BY <1>3, <3>1
        <3>4. n.edges = p.edges /\ n.before = f /\ n.after = p.after
            BY <3>2
        <3>5. f = [t \in Steps |-> f[t]]
            BY <3>3
        <3>6. \A t \in Steps : f[t] = p.before[t] \/ (t = st /\ f[t] = Append(p.before[t], x))
            BY <3>3
        <3> QED
            BY <1>3, <3>2, <3>4, <3>5, <3>6
    <2>2. CASE n = [w.plan EXCEPT !.after[st] = Append(@, x)]
        <3>1. PICK f : f = [p.after EXCEPT ![st] = Append(@, x)]
            OBVIOUS
        <3>2. n = [edges |-> p.edges, before |-> p.before, after |-> f]
            BY <1>1, <1>3, <2>2, <3>1
        <3>3. f = [t \in Steps |-> IF t = st THEN Append(p.after[t], x) ELSE p.after[t]]
            BY <1>3, <3>1
        <3>4. n.edges = p.edges /\ n.after = f /\ n.before = p.before
            BY <3>2
        <3>5. f = [t \in Steps |-> f[t]]
            BY <3>3
        <3>6. \A t \in Steps : f[t] = p.after[t] \/ (t = st /\ f[t] = Append(p.after[t], x))
            BY <3>3
        <3> QED
            BY <1>3, <3>2, <3>4, <3>5, <3>6
    <2> QED
        BY <2>1, <2>2
<1>6. PlanGiven(n)
    <2>1. \A t \in Steps : IsList(n.before[t]) /\ IsList(n.after[t])
        <3> SUFFICES ASSUME NEW t \in Steps
                     PROVE  IsList(n.before[t]) /\ IsList(n.after[t])
            OBVIOUS
        <3>1. IsList(p.before[t]) /\ IsList(p.after[t])
            BY <1>3 DEF PlanGiven
        <3>2. IsList(Append(p.before[t], x)) /\ IsList(Append(p.after[t], x))
            BY <3>1, AppendedIsList
        <3>3. /\ n.before[t] = p.before[t] \/ n.before[t] = Append(p.before[t], x)
              /\ n.after[t] = p.after[t] \/ n.after[t] = Append(p.after[t], x)
            BY <1>5
        <3> QED
            BY <3>1, <3>2, <3>3
    <2>2. IsList(n.edges)
        BY <1>3, <1>5 DEF PlanGiven
    <2> QED
        BY <1>5, <2>1, <2>2 DEF PlanGiven
<1>7. ASSUME NEW t \in Steps
      PROVE  StepKept(k, n, old, t)
    <2>1. StepKept(j, p, old, t)
        BY <1>1 DEF WorkKept
    <2>2. IsList(old.before[t]) /\ IsList(old.after[t])
        BY DEF PlanGiven
    <2>3. CASE t # st
        <3>1. n.before[t] = p.before[t] /\ n.after[t] = p.after[t]
            BY <1>5, <2>3
        <3> QED
            BY <1>4, <2>1, <2>3, <3>1 DEF StepKept
    <2>4. CASE t = st
        <3>1. /\ t \in DOMAIN k.lengths
              /\ k.lengths[t].before = Len(old.before[t])
              /\ k.lengths[t].after = Len(old.after[t])
            BY <1>4, <2>1, <2>4 DEF StepKept
        <3>2. Continues(p.before[t], old.before[t]) /\ Continues(p.after[t], old.after[t])
            BY <2>1, <2>2, ContinuesItself DEF StepKept
        <3>3. Continues(n.before[t], old.before[t]) /\ Continues(n.after[t], old.after[t])
            <4>1. /\ Continues(Append(p.before[t], x), old.before[t])
                  /\ Continues(Append(p.after[t], x), old.after[t])
                BY <3>2, ContinuesOn
            <4>2. /\ n.before[t] = p.before[t] \/ n.before[t] = Append(p.before[t], x)
                  /\ n.after[t] = p.after[t] \/ n.after[t] = Append(p.after[t], x)
                BY <1>5
            <4> QED
                BY <3>2, <4>1, <4>2
        <3> QED
            BY <3>1, <3>3 DEF StepKept
    <2> QED
        BY <2>3, <2>4
<1>8. v.plan = n /\ v.journal = k /\ v = [plan |-> v.plan, journal |-> v.journal]
    BY <1>1, <1>2
<1>9. /\ k.edges = Len(old.edges) /\ Continues(n.edges, old.edges)
      /\ k = [open |-> TRUE, known |-> k.known, prior |-> k.prior, edges |-> k.edges,
              lengths |-> k.lengths]
    <2>1. j.edges = Len(old.edges) /\ Continues(p.edges, old.edges)
        BY <1>1 DEF WorkKept
    <2>2. k.edges = j.edges /\ k.known = j.known /\ k.prior = j.prior /\ n.edges = p.edges
        BY <1>4, <1>5
    <2> QED
        BY <1>4, <2>1, <2>2
<1> QED
    BY <1>6, <1>7, <1>8, <1>9 DEF WorkKept

\* No emission, of whatever kind and to whichever step, breaks the journal.
LEMMA EmitKeeps ==
    ASSUME NEW old, PlanGiven(old), NEW w, WorkKept(w, old), NEW e, NEW v, v = Emit(w, e)
    PROVE  /\ WorkKept(v, old)
           /\ v.journal.known = w.journal.known /\ v.journal.prior = w.journal.prior
<1>1. PICK st, x : st = e.at /\ x = e.what
    OBVIOUS
<1>2. CASE e.kind = "edge"
    <2>1. \/ v = w \/ v = [w EXCEPT !.plan = [w.plan EXCEPT !.edges = Append(@, x)]]
        BY <1>1, <1>2 DEF Emit
    <2>2. w = [plan |-> w.plan, journal |-> w.journal]
        BY DEF WorkKept
    <2>3. v.journal = w.journal
        BY <2>1, <2>2
    <2> QED
        BY <2>1, <2>3, EdgeKept
<1>3. CASE e.kind # "edge"
    <2>1. PICK n : /\ \/ n = [w.plan EXCEPT !.before[st] = Append(@, x)]
                      \/ n = [w.plan EXCEPT !.after[st] = Append(@, x)]
                   /\ v = [plan |-> n, journal |-> Remember(w.journal, w.plan, st)]
        BY <1>1, <1>3 DEF Emit
    <2>2. WorkKept(v, old)
        BY <2>1, BarrierKept
    <2>3. PICK k : k = Remember(w.journal, w.plan, st)
        OBVIOUS
    <2>4. k.known = w.journal.known /\ k.prior = w.journal.prior
        <3>1. w.journal = [open |-> TRUE, known |-> w.journal.known, prior |-> w.journal.prior,
                           edges |-> w.journal.edges, lengths |-> w.journal.lengths]
            BY DEF WorkKept
        <3>2. k = [open |-> TRUE, known |-> w.journal.known, prior |-> w.journal.prior,
                   edges |-> w.journal.edges, lengths |-> k.lengths]
            <4>1. PICK j, p : j = w.journal /\ p = w.plan
                OBVIOUS
            <4>2. j = [open |-> TRUE, known |-> j.known, prior |-> j.prior, edges |-> j.edges,
                       lengths |-> j.lengths]
                BY <3>1, <4>1
            <4>3. k = Remember(j, p, st)
                BY <2>3, <4>1
            <4>4. k = [open |-> TRUE, known |-> j.known, prior |-> j.prior, edges |-> j.edges,
                       lengths |-> k.lengths]
                BY <4>2, <4>3, RememberedIs
            <4> QED
                BY <4>1, <4>4
        <3> QED
            BY <3>2
    <2>5. v.journal = k
        BY <2>1, <2>3
    <2> QED
        BY <2>2, <2>4, <2>5
<1> QED
    BY <1>2, <1>3

LEMMA PriorRemembered ==
    ASSUME NEW old, NEW j, PriorKept(j, tracked, old), NEW r,
           NEW k, k = RememberResource(j, r),
           j = [open |-> TRUE, known |-> j.known, prior |-> j.prior, edges |-> j.edges,
                lengths |-> j.lengths]
    PROVE  /\ PriorKept(k, tracked, old) /\ (r \in k.known => r \in DOMAIN k.prior)
           /\ k = [open |-> TRUE, known |-> j.known, prior |-> k.prior, edges |-> j.edges,
                   lengths |-> j.lengths]
<1>1. CASE r \notin j.known \/ r \in DOMAIN j.prior
    <2>1. k = j
        BY <1>1 DEF RememberResource
    <2> QED
        BY <1>1, <2>1
<1>2. CASE r \in j.known /\ r \notin DOMAIN j.prior
    <2>1. PICK f : f = WithKey(j.prior, r, tracked[r])
        OBVIOUS
    <2>2. k = [j EXCEPT !.prior = f]
        BY <1>2, <2>1 DEF RememberResource
    <2>3. k = [open |-> TRUE, known |-> j.known, prior |-> f, edges |-> j.edges,
               lengths |-> j.lengths]
        <3>1. PICK a, b, c, d, e : j = [open |-> a, known |-> b, prior |-> c, edges |-> d,
                                        lengths |-> e]
            OBVIOUS
        <3>2. a = TRUE /\ b = j.known /\ d = j.edges /\ e = j.lengths
            BY <3>1
        <3>3. k = [open |-> a, known |-> b, prior |-> f, edges |-> d, lengths |-> e]
            BY <2>2, <3>1
        <3> QED
            BY <3>2, <3>3
    <2>4. /\ DOMAIN f = DOMAIN j.prior \cup {r} /\ f[r] = tracked[r]
          /\ \A q \in DOMAIN j.prior : f[q] = j.prior[q]
        BY <1>2, <2>1 DEF WithKey
    <2>5. tracked[r] = old[r]
        BY <1>2 DEF PriorKept
    <2>6. k.prior = f /\ k.known = j.known
        BY <2>3
    <2>7. PriorKept(k, tracked, old)
        BY <1>2, <2>4, <2>5, <2>6 DEF PriorKept
    <2> QED
        BY <2>3, <2>4, <2>6, <2>7
<1> QED
    BY <1>1, <1>2

LEMMA WrittenKeeps ==
    ASSUME NEW old, PlanGiven(old), WorkKept([plan |-> plan, journal |-> journal], old),
           NEW was, PriorKept(journal, tracked, was), NEW u, NEW n \in Nat, NEW w, w = Written(u, n)
    PROVE  /\ WorkKept(w, old) /\ PriorKept(w.journal, tracked, was)
           /\ u.res \in w.journal.known => u.res \in DOMAIN w.journal.prior
<1>1. PICK list : list = EmissionsOf(u)
    OBVIOUS
<1>2. PICK k : k = RememberResource(journal, u.res)
    OBVIOUS
<1>3. PICK first : first = [plan |-> plan, journal |-> k]
    OBVIOUS
<1>4. PICK g : g = CHOOSE a : IsWriting(first, list, n, a)
    OBVIOUS
<1>5. IsWriting(first, list, n, g)
    <2>1. \E a : IsWriting(first, list, n, a)
        BY WritingExists
    <2> QED
        BY <1>4, <2>1
<1>6. g[0] = first /\ \A i \in 1 .. n : g[i] = Emit(g[i - 1], list[i])
    <2>1. \A i \in 0 .. n : g[i] = IF i = 0 THEN first ELSE Emit(g[i - 1], list[i])
        BY <1>5 DEF IsWriting
    <2>2. 0 \in 0 .. n /\ \A i \in 1 .. n : i \in 0 .. n /\ i # 0
        OBVIOUS
    <2> QED
        BY <2>1, <2>2
<1>7. w = g[n]
    BY <1>1, <1>2, <1>3, <1>4 DEF Written, IsWriting
<1>8. /\ PlanGiven(plan) /\ \A t \in Steps : StepKept(journal, plan, old, t)
      /\ journal.edges = Len(old.edges) /\ Continues(plan.edges, old.edges)
      /\ journal = [open |-> TRUE, known |-> journal.known, prior |-> journal.prior,
                    edges |-> journal.edges, lengths |-> journal.lengths]
    <2>1. PICK v : v = [plan |-> plan, journal |-> journal]
        OBVIOUS
    <2>2. WorkKept(v, old) /\ v.plan = plan /\ v.journal = journal
        BY <2>1
    <2> QED
        BY <2>2 DEF WorkKept
<1>9. /\ PriorKept(k, tracked, was) /\ (u.res \in k.known => u.res \in DOMAIN k.prior)
      /\ k = [open |-> TRUE, known |-> journal.known, prior |-> k.prior,
              edges |-> journal.edges, lengths |-> journal.lengths]
    <2>1. PICK j, r : j = journal /\ r = u.res
        OBVIOUS
    <2>2. j = [open |-> TRUE, known |-> j.known, prior |-> j.prior, edges |-> j.edges,
               lengths |-> j.lengths]
        BY <1>8, <2>1
    <2>3. k = RememberResource(j, r) /\ PriorKept(j, tracked, was)
        BY <1>2, <2>1
    <2>4. /\ PriorKept(k, tracked, was) /\ (r \in k.known => r \in DOMAIN k.prior)
          /\ k = [open |-> TRUE, known |-> j.known, prior |-> k.prior, edges |-> j.edges,
                  lengths |-> j.lengths]
        BY <2>2, <2>3, PriorRemembered
    <2> QED
        BY <2>1, <2>4
<1>10. WorkKept(first, old)
    <2>1. k.lengths = journal.lengths /\ k.edges = journal.edges /\ k.known = journal.known
        BY <1>9
    <2>2. \A t \in Steps : StepKept(k, plan, old, t)
        BY <1>8, <2>1 DEF StepKept
    <2>3. k = [open |-> TRUE, known |-> k.known, prior |-> k.prior, edges |-> k.edges,
               lengths |-> k.lengths]
        BY <1>9, <2>1
    <2>4. first.plan = plan /\ first.journal = k
          /\ first = [plan |-> first.plan, journal |-> first.journal]
        BY <1>3
    <2> QED
        BY <1>8, <2>1, <2>2, <2>3, <2>4 DEF WorkKept
<1> DEFINE Good == {i \in Nat : i <= n => /\ WorkKept(g[i], old)
                                         /\ g[i].journal.known = k.known
                                         /\ g[i].journal.prior = k.prior}
<1>11. ASSUME NEW i \in Nat, \A m \in 0 .. i - 1 : m \in Good
       PROVE  i \in Good
    <2>1. CASE i = 0
        <3>1. first.journal = k
            BY <1>3
        <3> QED
            BY <1>6, <1>10, <2>1, <3>1
    <2>2. CASE i # 0 /\ i <= n
        <3>1. i - 1 \in 0 .. i - 1 /\ i \in 1 .. n /\ i - 1 <= n
            BY <2>2
        <3>2. /\ WorkKept(g[i - 1], old)
              /\ g[i - 1].journal.known = k.known /\ g[i - 1].journal.prior = k.prior
            BY <1>11, <3>1
        <3>3. PICK a, e, b : a = g[i - 1] /\ e = list[i] /\ b = Emit(a, e)
            OBVIOUS
        <3>4. WorkKept(b, old) /\ b.journal.known = a.journal.known /\ b.journal.prior = a.journal.prior
            BY <3>2, <3>3, EmitKeeps
        <3>5. g[i] = b
            BY <1>6, <3>1, <3>3
        <3> QED
            BY <3>2, <3>3, <3>4, <3>5
    <2> QED
        BY <2>1, <2>2
<1> HIDE DEF Good
<1>12. n \in Good
    BY <1>11, AllNumbers
<1>13. WorkKept(w, old) /\ w.journal.known = k.known /\ w.journal.prior = k.prior
    BY <1>7, <1>12 DEF Good
<1> QED
    BY <1>9, <1>13 DEF PriorKept

-----------------------------------------------------------------------------
(* The invariant of the journal *)

TrackedGiven(t) ==
    /\ t = [r \in Resources |-> t[r]]
    /\ \A r \in Resources :
        /\ t[r] = [known |-> t[r].known, shared |-> t[r].shared, extent |-> t[r].extent,
                   regions |-> t[r].regions]
        /\ t[r].known \in BOOLEAN /\ RegionsGiven(t[r].regions)
        /\ ~ t[r].known => t[r] = Unknown

\* While a batch is open, what was there before can be had back.
BatchInv ==
    phase = "batch" =>
        /\ TrackedGiven(kept[1]) /\ PlanGiven(kept[2])
        /\ WorkKept([plan |-> plan, journal |-> journal], kept[2])
        /\ PriorKept(journal, tracked, kept[1])

JournalInv ==
    /\ TrackedGiven(tracked)
    /\ phase # "done" => PlanGiven(plan)
    /\ todo \in Seq(ExtentDeclarations \cup UseDeclarations)
    /\ BatchInv

LEMMA RolledBack ==
    ASSUME NEW old, PlanGiven(old), NEW was, TrackedGiven(was),
           NEW w, WorkKept(w, old), PriorKept(w.journal, tracked, was)
    PROVE  RolledTracked(w.journal) = was /\ RolledPlan(w) = old
<1>1. RolledTracked(w.journal) = was
    <2>1. PICK j : j = w.journal
        OBVIOUS
    <2>2. ASSUME NEW r \in Resources
          PROVE  (IF r \in DOMAIN j.prior THEN j.prior[r]
                  ELSE IF r \in j.known THEN tracked[r] ELSE Unknown) = was[r]
        <3>1. CASE r \in DOMAIN j.prior
            BY <2>1, <3>1 DEF PriorKept
        <3>2. CASE r \notin DOMAIN j.prior /\ r \in j.known
            BY <2>1, <3>2 DEF PriorKept
        <3>3. CASE r \notin DOMAIN j.prior /\ r \notin j.known
            BY <2>1, <3>3 DEF PriorKept, TrackedGiven
        <3> QED
            BY <3>1, <3>2, <3>3
    <2>3. was = [r \in Resources |-> was[r]]
        BY DEF TrackedGiven
    <2>4. RolledTracked(j) = [r \in Resources |-> was[r]]
        BY <2>2 DEF RolledTracked
    <2> QED
        BY <2>1, <2>3, <2>4
<1>2. RolledPlan(w) = old
    <2>1. PICK j, p : j = w.journal /\ p = w.plan
        OBVIOUS
    <2>2. SubSeq(p.edges, 1, j.edges) = old.edges
        BY <2>1, CutGivesStart DEF WorkKept
    <2>3. ASSUME NEW t \in Steps
          PROVE  /\ (IF t \in DOMAIN j.lengths
                     THEN SubSeq(p.before[t], 1, j.lengths[t].before) ELSE p.before[t]) = old.before[t]
                 /\ (IF t \in DOMAIN j.lengths
                     THEN SubSeq(p.after[t], 1, j.lengths[t].after) ELSE p.after[t]) = old.after[t]
        <3>1. StepKept(j, p, old, t)
            BY <2>1 DEF WorkKept
        <3>2. CASE t \in DOMAIN j.lengths
            <4>1. /\ j.lengths[t].before = Len(old.before[t]) /\ j.lengths[t].after = Len(old.after[t])
                  /\ Continues(p.before[t], old.before[t]) /\ Continues(p.after[t], old.after[t])
                BY <3>1, <3>2 DEF StepKept
            <4>2. /\ SubSeq(p.before[t], 1, Len(old.before[t])) = old.before[t]
                  /\ SubSeq(p.after[t], 1, Len(old.after[t])) = old.after[t]
                BY <4>1, CutGivesStart
            <4> QED
                BY <3>2, <4>1, <4>2
        <3>3. CASE t \notin DOMAIN j.lengths
            BY <3>1, <3>3 DEF StepKept
        <3> QED
            BY <3>2, <3>3
    <2>4. PICK b : b = [t \in Steps |-> IF t \in DOMAIN j.lengths
                                        THEN SubSeq(p.before[t], 1, j.lengths[t].before)
                                        ELSE p.before[t]]
        OBVIOUS
    <2>5. PICK a : a = [t \in Steps |-> IF t \in DOMAIN j.lengths
                                        THEN SubSeq(p.after[t], 1, j.lengths[t].after)
                                        ELSE p.after[t]]
        OBVIOUS
    <2>6. b = old.before /\ a = old.after
        <3>1. b = [t \in Steps |-> old.before[t]] /\ a = [t \in Steps |-> old.after[t]]
            BY <2>3, <2>4, <2>5
        <3> QED
            BY <3>1 DEF PlanGiven
    <2>7. RolledPlan(w) = [edges |-> SubSeq(p.edges, 1, j.edges), before |-> b, after |-> a]
        BY <2>1, <2>4, <2>5 DEF RolledPlan
    <2>8. old = [edges |-> old.edges, before |-> old.before, after |-> old.after]
        BY DEF PlanGiven
    <2> QED
        BY <2>2, <2>6, <2>7, <2>8
<1> QED
    BY <1>1, <1>2

\* A batch that is rolled back leaves the invariant, and what there was.
LEMMA RollBackRestores ==
    ASSUME JournalInv, phase = "batch", NEW w, RollBack(w),
           WorkKept(w, kept[2]), PriorKept(w.journal, tracked, kept[1])
    PROVE  JournalInv' /\ tracked' = kept[1] /\ plan' = kept[2]
<1>1. TrackedGiven(kept[1]) /\ PlanGiven(kept[2])
    BY DEF JournalInv, BatchInv
<1>2. tracked' = kept[1] /\ plan' = kept[2]
    BY <1>1, RolledBack DEF RollBack
<1>3. phase' = "failed" /\ todo' = <<>>
    BY DEF RollBack
<1>4. TrackedGiven(tracked') /\ PlanGiven(plan')
    BY <1>1, <1>2
<1>5. /\ TrackedGiven(tracked)' /\ PlanGiven(plan)'
      /\ (todo \in Seq(ExtentDeclarations \cup UseDeclarations))'
    BY <1>3, <1>4 DEF TrackedGiven, PlanGiven, Steps, RegionsGiven, RegionGiven, Unknown,
                      ExtentDeclarations, UseDeclarations, Boxes, Intervals
<1> QED
    BY <1>2, <1>3, <1>5 DEF JournalInv, BatchInv

LEMMA UseIsKnown ==
    ASSUME todo \in Seq(ExtentDeclarations \cup UseDeclarations), NextIs("use"),
           NEW u, u = Clamp(Head(todo))
    PROVE  Head(todo) \in UseDeclarations /\ u.res = Head(todo).res /\ u.res \in Resources
<1>1. PICK d : d = Head(todo)
    OBVIOUS
<1>2. d \in ExtentDeclarations \cup UseDeclarations /\ d.kind = "use"
    BY <1>1 DEF NextIs
<1>3. d \in UseDeclarations
    BY <1>2 DEF ExtentDeclarations
<1>4. d = [kind |-> d.kind, res |-> d.res, box |-> d.box, access |-> d.access, stage |-> d.stage,
           layout |-> d.layout, initial |-> d.initial, final |-> d.final, pass |-> d.pass]
      /\ d.res \in Resources
    BY <1>3 DEF UseDeclarations
<1>5. PICK b : u = [d EXCEPT !.box = b]
    BY <1>1 DEF Clamp
<1>6. u.res = d.res
    BY <1>4, <1>5
<1> QED
    BY <1>1, <1>3, <1>4, <1>6

LEMMA ThrowRestores ==
    ASSUME JournalInv, phase = "batch", Throw
    PROVE  JournalInv' /\ tracked' = kept[1] /\ plan' = kept[2]
<1>1. PICK u : u = Clamp(Head(todo))
    OBVIOUS
<1>2. PICK n \in 0 .. Len(EmissionsOf(u)) : RollBack(Written(u, n))
    BY <1>1 DEF Throw
<1>3. u.res \in Resources
    BY <1>1, UseIsKnown DEF Throw, JournalInv
<1>4. IsList(EmissionsOf(u))
    BY <1>3, EmissionsAreListed DEF JournalInv, TrackedGiven
<1>5. n \in Nat
    BY <1>4, AppendedIsList
<1>6. PICK w : w = Written(u, n)
    OBVIOUS
<1>7. WorkKept(w, kept[2]) /\ PriorKept(w.journal, tracked, kept[1])
    BY <1>5, <1>6, WrittenKeeps DEF JournalInv, BatchInv
<1> QED
    BY <1>2, <1>6, <1>7, RollBackRestores

\* These facts do not depend on the state.
LEMMA GivenPrimed ==
    /\ TrackedGiven(tracked') <=> TrackedGiven(tracked)'
    /\ PlanGiven(plan') <=> PlanGiven(plan)'
    /\ todo' \in Seq(ExtentDeclarations \cup UseDeclarations)
       <=> (todo \in Seq(ExtentDeclarations \cup UseDeclarations))'
BY DEF TrackedGiven, PlanGiven, Steps, RegionsGiven, RegionGiven, Unknown,
       ExtentDeclarations, UseDeclarations, Boxes, Intervals

LEMMA KeptPrimed ==
    BatchInv' <=>
        (phase' = "batch" =>
            /\ TrackedGiven(kept'[1]) /\ PlanGiven(kept'[2])
            /\ WorkKept([plan |-> plan', journal |-> journal'], kept'[2])
            /\ PriorKept(journal', tracked', kept'[1]))
BY DEF BatchInv, TrackedGiven, PlanGiven, Steps, RegionsGiven, RegionGiven, Unknown, WorkKept,
       PriorKept, StepKept, Continues, IsList

LEMMA BeginKeeps == JournalInv /\ BeginBatch => JournalInv'
<1> SUFFICES ASSUME JournalInv, BeginBatch
             PROVE  JournalInv'
    OBVIOUS
<1>1. /\ phase = "next" /\ phase' = "batch" /\ todo' \in Declared
      /\ tracked' = tracked /\ plan' = plan
      /\ kept' = <<tracked, plan, uses>>
    BY DEF BeginBatch
<1>2. TrackedGiven(tracked) /\ PlanGiven(plan)
    BY <1>1 DEF JournalInv
<1>3. todo' \in Seq(ExtentDeclarations \cup UseDeclarations)
    BY <1>1, TrackerAssumption
<1>4. PICK known : known = {r \in Resources : tracked[r].known}
    OBVIOUS
<1>5. journal' = [open |-> TRUE, known |-> known, prior |-> <<>>, edges |-> Len(plan.edges),
                  lengths |-> <<>>]
    BY <1>4 DEF BeginBatch, NoJournal
<1>6. DOMAIN <<>> = {}
    OBVIOUS
<1>7. PriorKept(journal', tracked, tracked)
    BY <1>4, <1>5, <1>6 DEF PriorKept
<1>8. PICK w : w = [plan |-> plan, journal |-> journal']
    OBVIOUS
<1>9. WorkKept(w, plan)
    <2>1. w.plan = plan /\ w.journal = journal' /\ w = [plan |-> w.plan, journal |-> w.journal]
        BY <1>8
    <2>2. PICK j : j = journal'
        OBVIOUS
    <2>3. /\ j = [open |-> TRUE, known |-> j.known, prior |-> j.prior, edges |-> j.edges,
                  lengths |-> j.lengths]
          /\ j.edges = Len(plan.edges) /\ j.lengths = <<>>
        BY <1>5, <2>2
    <2>4. \A t \in Steps : StepKept(j, plan, plan, t)
        BY <1>6, <2>3 DEF StepKept
    <2>5. Continues(plan.edges, plan.edges)
        BY <1>2, ContinuesItself DEF PlanGiven
    <2> QED
        BY <1>2, <2>1, <2>2, <2>3, <2>4, <2>5 DEF WorkKept
<1>10. kept'[1] = tracked /\ kept'[2] = plan
    BY <1>1
<1>11. BatchInv'
    <2>1. TrackedGiven(kept'[1]) /\ PlanGiven(kept'[2])
        BY <1>2, <1>10
    <2>2. WorkKept([plan |-> plan', journal |-> journal'], kept'[2])
        BY <1>1, <1>8, <1>9, <1>10
    <2>3. PriorKept(journal', tracked', kept'[1])
        BY <1>1, <1>7, <1>10
    <2> QED
        BY <2>1, <2>2, <2>3, KeptPrimed
<1>12. TrackedGiven(tracked') /\ PlanGiven(plan')
    BY <1>1, <1>2
<1> QED
    BY <1>3, <1>11, <1>12, GivenPrimed DEF JournalInv

LEMMA RegisterKeeps == JournalInv /\ RegisterExtent => JournalInv'
<1> SUFFICES ASSUME JournalInv, RegisterExtent
             PROVE  JournalInv'
    OBVIOUS
<1>1. PICK d : d = Head(todo)
    OBVIOUS
<1>2. PICK x : x = [Unknown EXCEPT !.known = TRUE, !.shared = d.shared, !.extent = {d.extent}]
    OBVIOUS
<1>3. PICK v : v = IF tracked[d.res].known THEN tracked[d.res] ELSE x
    OBVIOUS
<1>4. /\ phase = "batch" /\ phase' = phase /\ todo' = Tail(todo) /\ todo # <<>>
      /\ plan' = plan /\ journal' = journal /\ kept' = kept
      /\ tracked' = [tracked EXCEPT ![d.res] = v]
    BY <1>1, <1>2, <1>3 DEF RegisterExtent, NextIs
<1>5. x = [known |-> TRUE, shared |-> d.shared, extent |-> {d.extent}, regions |-> {}]
    BY <1>2 DEF Unknown
<1>6. /\ TrackedGiven(tracked) /\ PlanGiven(plan) /\ TrackedGiven(kept[1]) /\ PlanGiven(kept[2])
      /\ WorkKept([plan |-> plan, journal |-> journal], kept[2])
      /\ PriorKept(journal, tracked, kept[1])
    BY <1>4 DEF JournalInv, BatchInv
<1>7. todo' \in Seq(ExtentDeclarations \cup UseDeclarations)
    BY <1>4, HeadTailProperties DEF JournalInv
<1>8. /\ tracked' = [r \in Resources |-> tracked'[r]]
      /\ \A r \in Resources : tracked'[r] = IF r = d.res THEN v ELSE tracked[r]
    <2>1. tracked = [r \in Resources |-> tracked[r]]
        BY <1>6 DEF TrackedGiven
    <2> QED
        BY <1>4, <2>1
<1>9. ASSUME NEW r \in Resources
      PROVE  /\ tracked'[r] = [known |-> tracked'[r].known, shared |-> tracked'[r].shared,
                               extent |-> tracked'[r].extent, regions |-> tracked'[r].regions]
             /\ tracked'[r].known \in BOOLEAN /\ RegionsGiven(tracked'[r].regions)
             /\ ~ tracked'[r].known => tracked'[r] = Unknown
             /\ tracked'[r] = tracked[r] \/ ~ tracked[r].known
    <2>1. /\ tracked[r] = [known |-> tracked[r].known, shared |-> tracked[r].shared,
                           extent |-> tracked[r].extent, regions |-> tracked[r].regions]
          /\ tracked[r].known \in BOOLEAN /\ RegionsGiven(tracked[r].regions)
          /\ ~ tracked[r].known => tracked[r] = Unknown
        BY <1>6 DEF TrackedGiven
    <2>2. CASE tracked'[r] = tracked[r]
        BY <2>1, <2>2
    <2>3. CASE tracked'[r] # tracked[r]
        <3>1. tracked'[r] = x /\ ~ tracked[r].known
            BY <1>3, <1>8, <2>3
        <3>2. x.known = TRUE /\ x.regions = {}
              /\ x = [known |-> x.known, shared |-> x.shared, extent |-> x.extent,
                      regions |-> x.regions]
            BY <1>5
        <3> QED
            BY <3>1, <3>2, NothingIsGiven
    <2> QED
        BY <2>2, <2>3
<1>10. TrackedGiven(tracked')
    BY <1>8, <1>9 DEF TrackedGiven
<1>11. PriorKept(journal, tracked', kept[1])
    <2>1. ASSUME NEW r \in journal.known \ DOMAIN journal.prior
          PROVE  tracked'[r] = kept[1][r]
        <3>1. r \in Resources /\ kept[1][r].known /\ tracked[r] = kept[1][r]
            BY <1>6 DEF PriorKept
        <3> QED
            BY <1>9, <3>1
    <2> QED
        BY <1>6, <2>1 DEF PriorKept
<1>12. BatchInv'
    BY <1>4, <1>6, <1>11, KeptPrimed
<1> QED
    BY <1>4, <1>6, <1>7, <1>10, <1>12, GivenPrimed DEF JournalInv

LEMMA UseKeeps == JournalInv /\ Use => JournalInv'
<1> SUFFICES ASSUME JournalInv, Use
             PROVE  JournalInv'
    OBVIOUS
<1>1. PICK u : u = Clamp(Head(todo))
    OBVIOUS
<1>2. PICK n : n = Len(EmissionsOf(u))
    OBVIOUS
<1>3. PICK w : w = Written(u, n)
    OBVIOUS
<1>4. PICK R : R = RegionsAfter(u)
    OBVIOUS
<1>5. /\ phase = "batch" /\ phase' = phase /\ todo' = Tail(todo) /\ todo # <<>> /\ NextIs("use")
      /\ plan' = w.plan /\ journal' = w.journal /\ kept' = kept
      /\ tracked' = [tracked EXCEPT ![u.res].known = TRUE, ![u.res].regions = R]
    BY <1>1, <1>2, <1>3, <1>4 DEF Use, NextIs
<1>6. /\ TrackedGiven(tracked) /\ TrackedGiven(kept[1]) /\ PlanGiven(kept[2])
      /\ WorkKept([plan |-> plan, journal |-> journal], kept[2])
      /\ PriorKept(journal, tracked, kept[1])
    BY <1>5 DEF JournalInv, BatchInv
<1>7. u.res \in Resources
    BY <1>1, <1>5, UseIsKnown DEF JournalInv
<1>8. RegionsGiven(tracked[u.res].regions)
    BY <1>6, <1>7 DEF TrackedGiven
<1>9. n \in Nat /\ RegionsGiven(R)
    BY <1>2, <1>4, <1>8, EmissionsAreListed, AppendedIsList, RegionsAfterGiven
<1>10. /\ WorkKept(w, kept[2]) /\ PriorKept(w.journal, tracked, kept[1])
       /\ u.res \in w.journal.known => u.res \in DOMAIN w.journal.prior
    BY <1>3, <1>6, <1>9, WrittenKeeps
<1>11. todo' \in Seq(ExtentDeclarations \cup UseDeclarations)
    BY <1>5, HeadTailProperties DEF JournalInv
<1>12. PICK q, t : q = u.res /\ t = tracked[q]
    OBVIOUS
<1>13. t = [known |-> t.known, shared |-> t.shared, extent |-> t.extent, regions |-> t.regions]
    BY <1>6, <1>7, <1>12 DEF TrackedGiven
<1>14. PICK x : x = [known |-> TRUE, shared |-> t.shared, extent |-> t.extent, regions |-> R]
    OBVIOUS
<1>15. tracked = [r \in Resources |-> tracked[r]]
    BY <1>6 DEF TrackedGiven
<1>16. tracked' = [tracked EXCEPT ![q] = x]
    <2>1. PICK y : y = [t EXCEPT !.known = TRUE, !.regions = R]
        OBVIOUS
    <2>2. PICK kn, sh, ex, re : t = [known |-> kn, shared |-> sh, extent |-> ex, regions |-> re]
        BY <1>13
    <2>3. y = [known |-> TRUE, shared |-> sh, extent |-> ex, regions |-> R]
        BY <2>1, <2>2
    <2>4. y = x
        BY <1>14, <2>2, <2>3
    <2>5. tracked' = [tracked EXCEPT ![q].known = TRUE, ![q].regions = R]
        BY <1>5, <1>12
    <2>6. PICK a : a = [tracked EXCEPT ![q].known = TRUE]
        OBVIOUS
    <2>7. [tracked EXCEPT ![q].known = TRUE, ![q].regions = R] = [a EXCEPT ![q].regions = R]
        BY <2>6
    <2>8. a = [r \in Resources |-> IF r = q THEN [t EXCEPT !.known = TRUE] ELSE tracked[r]]
        BY <1>12, <1>15, <2>6
    <2>9. [a EXCEPT ![q].regions = R] =
            [r \in Resources |-> IF r = q THEN [a[q] EXCEPT !.regions = R] ELSE a[r]]
        BY <2>8
    <2>10. a[q] = [t EXCEPT !.known = TRUE]
        BY <1>7, <1>12, <2>8
    <2>11. [a[q] EXCEPT !.regions = R] = x
        <3>1. a[q] = [known |-> TRUE, shared |-> sh, extent |-> ex, regions |-> re]
            BY <2>2, <2>10
        <3>2. [a[q] EXCEPT !.regions = R] =
                [known |-> TRUE, shared |-> sh, extent |-> ex, regions |-> R]
            <4>1. PICK z : z = a[q]
                OBVIOUS
            <4>2. z = [known |-> TRUE, shared |-> sh, extent |-> ex, regions |-> re]
                BY <3>1, <4>1
            <4>3. PICK y2 : y2 = [z EXCEPT !.regions = R]
                OBVIOUS
            <4>4. y2 = [known |-> TRUE, shared |-> sh, extent |-> ex, regions |-> R]
                BY ONLY <4>2, <4>3
            <4> QED
                BY <4>1, <4>3, <4>4
        <3>3. t.shared = sh /\ t.extent = ex
            BY <2>2
        <3> QED
            BY <1>14, <3>2, <3>3
    <2>12. \A r \in Resources : r # q => a[r] = tracked[r]
        BY <2>8
    <2>13. [a EXCEPT ![q].regions = R] = [r \in Resources |-> IF r = q THEN x ELSE tracked[r]]
        BY <2>9, <2>11, <2>12
    <2>14. [tracked EXCEPT ![q] = x] = [r \in Resources |-> IF r = q THEN x ELSE tracked[r]]
        BY <1>15
    <2> QED
        BY <2>5, <2>7, <2>13, <2>14
<1>17. /\ tracked' = [r \in Resources |-> tracked'[r]]
       /\ \A r \in Resources : tracked'[r] = IF r = q THEN x ELSE tracked[r]
    BY <1>15, <1>16
<1>18. x.known = TRUE /\ x.regions = R
       /\ x = [known |-> x.known, shared |-> x.shared, extent |-> x.extent, regions |-> x.regions]
    BY <1>14
<1>19. TrackedGiven(tracked')
    BY <1>6, <1>9, <1>17, <1>18 DEF TrackedGiven
<1>20. PriorKept(w.journal, tracked', kept[1])
    <2>1. ASSUME NEW r \in w.journal.known \ DOMAIN w.journal.prior
          PROVE  tracked'[r] = kept[1][r]
        <3>1. r \in Resources /\ tracked[r] = kept[1][r] /\ r # q
            BY <1>10, <1>12 DEF PriorKept
        <3> QED
            BY <1>17, <3>1
    <2> QED
        BY <1>10, <2>1 DEF PriorKept
<1>21. WorkKept([plan |-> plan', journal |-> journal'], kept[2]) /\ PlanGiven(plan')
    <2>1. w = [plan |-> w.plan, journal |-> w.journal] /\ PlanGiven(w.plan)
        BY <1>10 DEF WorkKept
    <2> QED
        BY <1>5, <1>10, <2>1
<1>22. BatchInv'
    BY <1>5, <1>6, <1>20, <1>21, KeptPrimed
<1> QED
    BY <1>11, <1>19, <1>21, <1>22, GivenPrimed DEF JournalInv

LEMMA RefuseRestores ==
    ASSUME JournalInv, phase = "batch", Refuse
    PROVE  JournalInv' /\ tracked' = kept[1] /\ plan' = kept[2]
<1>1. PICK w : w = [plan |-> plan, journal |-> journal]
    OBVIOUS
<1>2. RollBack(w) /\ w.journal = journal
    BY <1>1 DEF Refuse
<1>3. WorkKept(w, kept[2]) /\ PriorKept(w.journal, tracked, kept[1])
    BY <1>1, <1>2 DEF JournalInv, BatchInv
<1> QED
    BY <1>2, <1>3, RollBackRestores

LEMMA JournalInitial == Init => JournalInv
<1> SUFFICES ASSUME Init
             PROVE  JournalInv
    OBVIOUS
<1>1. TrackedGiven(tracked)
    BY NothingIsGiven DEF Init, TrackedGiven, Unknown
<1>2. PlanGiven(plan)
    BY EmptyIsList DEF Init, PlanGiven
<1>3. todo \in Seq(ExtentDeclarations \cup UseDeclarations)
    BY DEF Init
<1> QED
    BY <1>1, <1>2, <1>3 DEF Init, JournalInv, BatchInv

LEMMA JournalStep ==
    ASSUME JournalInv, [Next]_vars
    PROVE  /\ JournalInv'
           /\ phase = "batch" /\ phase' = "failed" => tracked' = kept[1] /\ plan' = kept[2]
<1>1. CASE BeginBatch
    <2>1. phase # "batch"
        BY <1>1 DEF BeginBatch
    <2> QED
        BY <1>1, <2>1, BeginKeeps
<1>2. CASE RegisterExtent
    <2>1. phase' = phase
        BY <1>2 DEF RegisterExtent
    <2> QED
        BY <1>2, <2>1, RegisterKeeps
<1>3. CASE Use
    <2>1. phase' = phase
        BY <1>3 DEF Use
    <2> QED
        BY <1>3, <2>1, UseKeeps
<1>4. CASE Refuse
    <2>1. phase = "batch"
        BY <1>4 DEF Refuse, NextIs
    <2> QED
        BY <1>4, <2>1, RefuseRestores
<1>5. CASE Throw
    <2>1. phase = "batch"
        BY <1>5 DEF Throw, NextIs
    <2> QED
        BY <1>5, <2>1, ThrowRestores
<1>6. CASE Commit
    <2>1. /\ phase = "batch" /\ phase' = "next"
          /\ todo' = todo /\ tracked' = tracked /\ plan' = plan
        BY <1>6 DEF Commit
    <2> QED
        BY <2>1, GivenPrimed, KeptPrimed DEF JournalInv
<1>7. CASE GoOn
    <2>1. /\ phase = "failed" /\ phase' = "next"
          /\ todo' = todo /\ tracked' = tracked /\ plan' = plan
        BY <1>7 DEF GoOn
    <2> QED
        BY <2>1, GivenPrimed, KeptPrimed DEF JournalInv
<1>8. CASE Finish
    <2>1. /\ phase = "next" /\ phase' = "done" /\ todo' = todo /\ tracked' = tracked
        BY <1>8 DEF Finish
    <2> QED
        BY <2>1, GivenPrimed, KeptPrimed DEF JournalInv
<1>9. CASE Done \/ UNCHANGED vars
    <2>1. /\ phase' = phase /\ todo' = todo /\ tracked' = tracked /\ plan' = plan
          /\ journal' = journal /\ kept' = kept
        BY <1>9 DEF Done, vars
    <2> QED
        BY <2>1, GivenPrimed, KeptPrimed DEF JournalInv, BatchInv
<1> QED
    BY <1>1, <1>2, <1>3, <1>4, <1>5, <1>6, <1>7, <1>8, <1>9 DEF Next

\* A batch that fails leaves tracker and plan as they were, whichever of its
\* declarations was refused or threw after however many emissions, and to
\* whichever steps these had been written: rollback_batch and its journal.
THEOREM RollbackIsComplete == Spec => FailureChangesNothing
<1>1. JournalInv /\ [Next]_vars => JournalInv'
    BY JournalStep
<1>2. JournalInv /\ [Next]_vars =>
        [phase = "batch" /\ phase' = "failed" => <<tracked', plan'>> = <<kept[1], kept[2]>>]_vars
    BY JournalStep
<1> QED
    BY <1>1, <1>2, JournalInitial, PTL DEF Spec, FailureChangesNothing
=============================================================================
