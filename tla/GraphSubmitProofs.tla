-------------------------- MODULE GraphSubmitProofs --------------------------
(***************************************************************************)
(* Proofs about GraphSubmit, for any plans whose last batch comes after    *)
(* all others: nothing is released while the GPU may use it, every fence   *)
(* is destroyed once, a frame is settled, and value means done.            *)
(***************************************************************************)
EXTENDS GraphSubmit, FiniteSetTheorems,
        SequenceTheorems, TLAPS

Early == {"start", "prepare", "terminal", "connected"}
Working == {"submitting", "failing", "waiting"}
Ended == {"hop", "scheduled", "completed", "destroyed"}

\* Which objects the operation holds: none before it creates them and none
\* once it has passed release; all of them while anything is submitted.
ObjectInv ==
    /\ pc \in Early => submitted = 0
    /\ pc \notin Working => fences = <<>> /\ semaphores = 0
    /\ pc \in Working \cup {"connected"} => scopes = Batches
    /\ pc \in Working /\ (pc # "failing" \/ submitted > 0) =>
        Len(fences) = Count /\ semaphores = SemaphoreCount
    /\ pc = "waiting" => submitted = Count
    /\ handed <=> pc = "waiting" /\ ~presentation

\* Whose each fence is, and how often each was destroyed.
FenceInv ==
    /\ pc \in {"submitting", "failing"} =>
        \A b \in DOMAIN fences :
            fences[b] = IF Borrowed(b) THEN "borrowed" ELSE "own"
    /\ pc = "waiting" =>
        \A b \in DOMAIN fences : fences[b] = IF b = Count THEN "null" ELSE "own"
    /\ pc \notin Ended => \A b \in Batches : destroyed[b] = 0
    /\ \A b \in Batches : destroyed[b] <= IF Borrowed(b) THEN 0 ELSE 1
    /\ pc \in Ended =>
        \A b \in 1 .. submitted : ~Borrowed(b) => destroyed[b] = 1

\* The GPU runs what was submitted, in the order of the plan, and has nothing
\* left to run once the operation has passed release.
GpuInv ==
    /\ \A b \in Batches : gpu[b] = "idle" <=> b > submitted
    /\ \A b \in Batches :
        gpu[b] = "done" => \A p \in plan.preds[b] : gpu[p] = "done"
    /\ pc \in Ended => lost \/ \A b \in 1 .. submitted : gpu[b] = "done"

\* What becomes of the acquired frame.
FrameInv ==
    /\ ~presentation => frame = "none"
    /\ pc \notin Ended => frame \in {"none", "acquired", "presented"}
    /\ pc \in Early => frame # "presented"
    /\ pc = "waiting" /\ presentation => frame = "presented"
    /\ frame = "presented" => submitted = Count
    /\ pc \in Ended => frame # "acquired"
    /\ frame = "abandoned_final" => gpu[Count] = "done" \/ lost
    /\ frame = "abandoned_acquired" => gpu[Count] = "idle"

\* What the operation knows of failures, and what a stored value means.
ResultInv ==
    /\ pc \in Early \cup {"submitting"} => attempts = 0
    /\ pc \in Early \cup {"submitting", "waiting"} /\ attempts = 0 => ~failure
    /\ pc \in Early \cup Working => stored = "none"
    /\ outcome = "none" <=> pc \notin {"completed", "destroyed"}
    /\ stored = "value" =>
        /\ \A b \in Batches : gpu[b] = "done"
        /\ scopes = {}
        /\ presentation => frame = "presented"
        /\ pc \in {"hop", "scheduled"} => ~failure
    /\ after_gpu => stored = "value" /\ pc \in {"completed", "destroyed"}
    /\ outcome = "value" => after_gpu /\ ~failure

IInv == TypeOK /\ ObjectInv /\ FenceInv /\ GpuInv /\ FrameInv /\ ResultInv

-----------------------------------------------------------------------------
(* Facts about plans *)

\* A plan has batches, numbered from 1, each after earlier ones only.
LEMMA PlanFacts ==
    ASSUME TypeOK
    PROVE  /\ Count \in Nat \ {0}
           /\ Batches = 1 .. Count
           /\ Count \in Batches
           /\ \A b \in Batches : plan.preds[b] \subseteq Batches
<1>1. /\ plan.preds \in Seq(SUBSET Nat) /\ Len(plan.preds) > 0
      /\ \A b \in DOMAIN plan.preds : plan.preds[b] \subseteq 1 .. b - 1
    BY SubmitAssumption DEF TypeOK
<1>2. Count \in Nat \ {0} /\ Batches = 1 .. Count
    BY <1>1 DEF Count, Batches
<1>3. ASSUME NEW b \in Batches PROVE plan.preds[b] \subseteq Batches
    <2>1. plan.preds[b] \subseteq 1 .. b - 1
        BY <1>1 DEF Batches
    <2>2. 1 .. b - 1 \subseteq 1 .. Count
        BY <1>2
    <2> QED BY <1>2, <2>1, <2>2
<1> QED BY <1>2, <1>3

LEMMA SemaphoreCountType == TypeOK => SemaphoreCount \in Nat
<1> SUFFICES ASSUME TypeOK PROVE SemaphoreCount \in Nat
    OBVIOUS
<1>1. Count \in Nat /\ Batches = 1 .. Count
    BY PlanFacts
<1>2. IsFiniteSet(Batches)
    <2>1. 1 \in Int /\ Count \in Int
        BY <1>1
    <2> QED BY <1>1, <2>1, FS_Interval
<1>3. IsFiniteSet(Batches \X Batches)
    BY <1>2, FS_Product
<1> DEFINE edges ==
        {e \in Batches \X Batches : e[1] \in plan.preds[e[2]]}
<1>4. edges \in SUBSET (Batches \X Batches)
    OBVIOUS
<1> HIDE DEF edges
<1>5. IsFiniteSet(edges)
    BY <1>3, <1>4, FS_Subset
<1>6. Cardinality(edges) \in Nat
    BY <1>5, FS_CardinalityType
<1> QED BY <1>1, <1>6 DEF SemaphoreCount, edges

\* What the last batch is done with, all of them are done with.
LEMMA LastIsLast ==
    ASSUME TypeOK, GpuInv, gpu[Count] = "done"
    PROVE  \A b \in Batches : gpu[b] = "done"
<1> DEFINE S == {b \in Batches : gpu[b] = "done"}
<1>1. plan \in Plans /\ Joined(plan.preds)
    BY SubmitAssumption DEF TypeOK
<1>2. S \in SUBSET DOMAIN plan.preds /\ Len(plan.preds) \in S
    BY PlanFacts DEF Batches, Count
<1>3. ClosedUnder(plan.preds, S)
    BY PlanFacts DEF ClosedUnder, GpuInv
<1>4. S = DOMAIN plan.preds
    <2> HIDE DEF S
    <2> QED BY <1>1, <1>2, <1>3 DEF Joined
<1> QED BY <1>4 DEF Batches

\* The operation never changes what it was asked to do.
LEMMA RequestKept ==
    ASSUME [Next]_vars
    PROVE  /\ UNCHANGED request
           /\ Count' = Count /\ Batches' = Batches
           /\ SemaphoreCount' = SemaphoreCount
           /\ presentation' = presentation
<1>1. UNCHANGED request
    BY DEF Next, Prepare, Submit, Finish, Environment, StopAtStart, Start,
           PrepareFails, FailBeforeSubmit, Record, PrepareTerminal,
           PrepareTerminalFails, StopBeforeSubmit, CreateSync, SubmitBatch,
           SubmitFails, Present, EnqueueWait, FinishError, WaitFails,
           WaiterCallback, HopStopped, HopEnqueue, HopFails, PassOn,
           RunAfterGpu, DestroyOperation, RunBatch, LoseDevice, RequestStop,
           vars
<1> QED BY <1>1 DEF request, Count, Batches, SemaphoreCount

-----------------------------------------------------------------------------
(* The inductive invariant *)

LEMMA InitIInv == Init => IInv
<1> SUFFICES ASSUME Init PROVE IInv
    OBVIOUS
<1> USE DEF Init
<1>0. /\ plan \in Plans /\ presentation \in BOOLEAN /\ timeline \in BOOLEAN
      /\ Count \in Nat
    BY SubmitAssumption DEF Count
<1>1. SemaphoreCount \in Nat
    <2>1. Batches = 1 .. Count /\ IsFiniteSet(Batches)
        <3>1. Batches = 1 .. Count
            BY <1>0, SubmitAssumption DEF Batches, Count
        <3>2. 1 \in Int /\ Count \in Int
            BY <1>0
        <3> QED BY <3>1, <3>2, FS_Interval
    <2>2. IsFiniteSet(Batches \X Batches)
        BY <2>1, FS_Product
    <2> DEFINE edges ==
            {e \in Batches \X Batches : e[1] \in plan.preds[e[2]]}
    <2>3. edges \in SUBSET (Batches \X Batches)
        OBVIOUS
    <2> HIDE DEF edges
    <2>4. Cardinality(edges) \in Nat
        BY <2>2, <2>3, FS_Subset, FS_CardinalityType
    <2> QED BY <1>0, <2>4 DEF SemaphoreCount, edges
<1>2. TypeOK
    <2>1. fences \in Seq({"own", "borrowed", "null"}) /\ Len(fences) = 0
        BY EmptySeq
    <2>2. Len(fences) <= Count /\ submitted \in 0 .. Count
          /\ semaphores \in 0 .. SemaphoreCount
          /\ attempts \in 0 .. RetireAttempts
        BY <1>0, <1>1, <2>1, SubmitAssumption
    <2>3. /\ destroyed \in [Batches -> Nat]
          /\ gpu \in [Batches -> {"idle", "queued", "done"}]
        OBVIOUS
    <2> QED BY <1>0, <2>1, <2>2, <2>3 DEF TypeOK
<1>3. /\ Count \in Nat \ {0} /\ Batches = 1 .. Count /\ Count \in Batches
      /\ \A b \in Batches : plan.preds[b] \subseteq Batches
    BY <1>2, PlanFacts
<1>4. ObjectInv
    BY DEF ObjectInv, Early, Working
<1>5. FenceInv
    BY DEF FenceInv, Ended, Borrowed
<1>6. GpuInv
    BY <1>3 DEF GpuInv, Ended
<1>7. FrameInv
    BY <1>3 DEF FrameInv, Early, Ended
<1>8. ResultInv
    BY DEF ResultInv, Early, Working
<1> QED BY <1>2, <1>4, <1>5, <1>6, <1>7, <1>8 DEF IInv

LEMMA ReleaseType ==
    ASSUME TypeOK, UNCHANGED plan, NEW also, Release(also)
    PROVE  /\ scopes' \in SUBSET Batches
           /\ fences' \in Seq({"own", "borrowed", "null"})
           /\ Len(fences') <= Count
           /\ semaphores' \in 0 .. SemaphoreCount
           /\ destroyed' \in [Batches -> Nat]
<1>1. Count \in Nat /\ SemaphoreCount \in Nat
    BY PlanFacts, SemaphoreCountType
<1>2. fences' \in Seq({"own", "borrowed", "null"}) /\ Len(fences') = 0
    BY EmptySeq DEF Release
<1>3. destroyed' \in [Batches -> Nat]
    <2>1. \A b \in Batches :
            destroyed[b] + (IF b \in OwnFences THEN 1 ELSE 0)
                         + (IF b \in also THEN 1 ELSE 0) \in Nat
        BY DEF TypeOK
    <2> QED BY <2>1 DEF Release
<1> QED BY <1>1, <1>2, <1>3 DEF Release

LEMMA TypeOKStep == TypeOK /\ ObjectInv /\ [Next]_vars => TypeOK'
<1> SUFFICES ASSUME TypeOK, ObjectInv, [Next]_vars PROVE TypeOK'
    OBVIOUS
<1>0. /\ Count \in Nat \ {0} /\ Batches = 1 .. Count /\ Count \in Batches
      /\ SemaphoreCount \in Nat /\ RetireAttempts \in Nat
    BY PlanFacts, SemaphoreCountType, SubmitAssumption
<1>r. /\ UNCHANGED request /\ Count' = Count /\ Batches' = Batches
      /\ SemaphoreCount' = SemaphoreCount
    BY RequestKept
<1>k. UNCHANGED <<plan, presentation, timeline>>
    BY <1>r DEF request
<1> USE <1>0, <1>r, <1>k DEF TypeOK, objects, history, world
<1>1. CASE StopAtStart
    BY <1>1 DEF StopAtStart, Abort, Complete
<1>2. CASE Start
    BY <1>2 DEF Start
<1>3. CASE PrepareFails
    BY <1>3 DEF PrepareFails, FailBeforeSubmit, Abort, Complete
<1>4. CASE Record
    BY <1>4 DEF Record
<1>5. CASE PrepareTerminal
    BY <1>5 DEF PrepareTerminal
<1>6. CASE PrepareTerminalFails
    BY <1>6, SMTT(30) DEF PrepareTerminalFails, FailBeforeSubmit, Abort, Complete
<1>7. CASE StopBeforeSubmit
    BY <1>7 DEF StopBeforeSubmit, Abort, Hop
<1>8. CASE CreateSync
    <2>1. PICK made \in 0 .. Count, more \in 0 .. SemaphoreCount :
            /\ fences' = [b \in 1 .. made |->
                            IF Borrowed(b) THEN "borrowed" ELSE "own"]
            /\ semaphores' = more
            /\ pc' \in {"submitting", "failing"}
            /\ failure' \in BOOLEAN
        BY <1>8 DEF CreateSync
    <2>2. fences' \in Seq({"own", "borrowed", "null"}) /\ Len(fences') = made
        BY <2>1
    <2> QED BY <1>8, <2>1, <2>2, SMTT(60) DEF CreateSync
<1>9. CASE SubmitBatch
    BY <1>9 DEF SubmitBatch
<1>10. CASE SubmitFails
    BY <1>10 DEF SubmitFails
<1>11. CASE Present
    BY <1>11 DEF Present
<1>12. CASE EnqueueWait
    <2>1. fences' \in Seq({"own", "borrowed", "null"})
          /\ Len(fences') = Len(fences)
        <3>1. Count \in 1 .. Len(fences) /\ "null" \in {"own", "borrowed", "null"}
            BY <1>12 DEF EnqueueWait, ObjectInv, Working
        <3>2. fences' = [fences EXCEPT ![Count] = "null"]
            BY <1>12 DEF EnqueueWait
        <3> HIDE <1>0, <1>r, <1>k
        <3> QED BY <3>1, <3>2, ExceptSeq
    <2> QED BY <1>12, <2>1, SMTT(60) DEF EnqueueWait
<1>13. CASE FinishError
    <2>1. Release({})
        BY <1>13 DEF FinishError
    <2>2. /\ scopes' \in SUBSET Batches
          /\ fences' \in Seq({"own", "borrowed", "null"})
          /\ Len(fences') <= Count
          /\ semaphores' \in 0 .. SemaphoreCount
          /\ destroyed' \in [Batches -> Nat]
        BY <2>1, ReleaseType
    <2>3. frame' \in {"none", "acquired", "presented", "abandoned_acquired",
                      "abandoned_final", "abort_failed"}
        BY <1>13 DEF FinishError, Abort, AbortState
    <2> QED BY <1>13, <2>2, <2>3, SMTT(60) DEF FinishError, Hop
<1>14. CASE WaitFails
    BY <1>14 DEF WaitFails
<1>15. CASE WaiterCallback
    <2>1. PICK also : Release(also)
        BY <1>15 DEF WaiterCallback
    <2>2. /\ scopes' \in SUBSET Batches
          /\ fences' \in Seq({"own", "borrowed", "null"})
          /\ Len(fences') <= Count
          /\ semaphores' \in 0 .. SemaphoreCount
          /\ destroyed' \in [Batches -> Nat]
        BY <2>1, ReleaseType
    <2>3. /\ stored' \in {"value", "error", "stopped"}
          /\ failure' \in BOOLEAN /\ pc' = "hop" /\ handed' = FALSE
        BY <1>15 DEF WaiterCallback, Hop, SignalFor
    <2>4. UNCHANGED <<submitted, frame, attempts, outcome, after_gpu, gpu, lost,
                      stop>>
        BY <1>15 DEF WaiterCallback
    <2>5. /\ submitted' \in 0 .. Count' /\ attempts' \in 0 .. RetireAttempts
          /\ gpu' \in [Batches' -> {"idle", "queued", "done"}]
          /\ Len(fences') <= Count' /\ semaphores' \in 0 .. SemaphoreCount'
          /\ destroyed' \in [Batches' -> Nat] /\ scopes' \in SUBSET Batches'
        BY <2>2, <2>4
    <2>6. /\ frame' \in {"none", "acquired", "presented", "abandoned_acquired",
                         "abandoned_final", "abort_failed"}
          /\ outcome' \in {"none", "value", "error", "stopped"}
          /\ after_gpu' \in BOOLEAN /\ lost' \in BOOLEAN /\ stop' \in BOOLEAN
        BY <2>4
    <2> QED BY <2>2, <2>3, <2>5, <2>6, <1>k, Zenon DEF TypeOK
<1>16. CASE HopStopped
    BY <1>16 DEF HopStopped, Complete
<1>17. CASE HopEnqueue
    BY <1>17 DEF HopEnqueue
<1>18. CASE HopFails
    BY <1>18 DEF HopFails, Complete
<1>19. CASE PassOn
    BY <1>19 DEF PassOn, Complete
<1>20. CASE RunAfterGpu
    BY <1>20 DEF RunAfterGpu, Complete
<1>21. CASE DestroyOperation
    BY <1>21 DEF DestroyOperation
<1>22. ASSUME NEW b \in Batches, RunBatch(b) PROVE TypeOK'
    <2>1. gpu' \in [Batches -> {"idle", "queued", "done"}]
        BY <1>22 DEF RunBatch
    <2>2. UNCHANGED <<pc, scopes, fences, semaphores, handed, destroyed,
                      submitted, frame, attempts, stored, outcome, after_gpu,
                      failure, lost, stop>>
        BY <1>22 DEF RunBatch
    <2> QED BY <2>1, <2>2
<1>23. CASE LoseDevice
    BY <1>23 DEF LoseDevice
<1>24. CASE RequestStop
    BY <1>24 DEF RequestStop
<1>25. CASE UNCHANGED vars
    BY <1>25 DEF vars
<1> QED
    BY <1>1, <1>2, <1>3, <1>4, <1>5, <1>6, <1>7, <1>8, <1>9, <1>10, <1>11,
       <1>12, <1>13, <1>14, <1>15, <1>16, <1>17, <1>18, <1>19, <1>20, <1>21,
       <1>22, <1>23, <1>24, <1>25 DEF Next, Prepare, Submit, Finish, Environment

\* What [Next]_vars leaves alone and what the sizes are, for the lemmas below.
LEMMA Sizes ==
    ASSUME TypeOK, [Next]_vars
    PROVE  /\ Count \in Nat \ {0} /\ Batches = 1 .. Count /\ Count \in Batches
           /\ SemaphoreCount \in Nat /\ submitted \in 0 .. Count
           /\ Count' = Count /\ Batches' = Batches
           /\ SemaphoreCount' = SemaphoreCount
           /\ presentation' = presentation /\ plan' = plan
<1>1. submitted \in 0 .. Count /\ UNCHANGED plan
    BY RequestKept DEF TypeOK, request
<1> QED BY <1>1, PlanFacts, SemaphoreCountType, RequestKept

LEMMA ObjectStep == TypeOK /\ ObjectInv /\ [Next]_vars => ObjectInv'
<1> SUFFICES ASSUME TypeOK, ObjectInv, [Next]_vars PROVE ObjectInv'
    OBVIOUS
<1>0. /\ Count \in Nat \ {0} /\ submitted \in 0 .. Count
      /\ Count' = Count /\ Batches' = Batches
      /\ SemaphoreCount' = SemaphoreCount /\ presentation' = presentation
    BY Sizes
<1> USE <1>0 DEF ObjectInv, Early, Working, objects
<1>1. CASE StopAtStart
    BY <1>1 DEF StopAtStart, Complete
<1>2. CASE Start \/ Record \/ PrepareTerminal
    BY <1>2 DEF Start, Record, PrepareTerminal
<1>3. CASE PrepareFails \/ PrepareTerminalFails
    BY <1>3 DEF PrepareFails, PrepareTerminalFails, FailBeforeSubmit, Complete
<1>4. CASE StopBeforeSubmit
    BY <1>4 DEF StopBeforeSubmit, Hop
<1>5. CASE CreateSync
    <2>1. PICK made \in 0 .. Count, more \in 0 .. SemaphoreCount :
            /\ fences' = [b \in 1 .. made |->
                            IF Borrowed(b) THEN "borrowed" ELSE "own"]
            /\ semaphores' = more
            /\ pc' = IF made = Count /\ more = SemaphoreCount
                     THEN "submitting" ELSE "failing"
        BY <1>5 DEF CreateSync
    <2>2. Len(fences') = made
        BY <2>1
    <2>3. pc = "connected" /\ UNCHANGED <<scopes, handed, submitted>>
        BY <1>5 DEF CreateSync
    <2> QED BY <2>1, <2>2, <2>3
<1>6. CASE SubmitBatch \/ SubmitFails \/ Present
    BY <1>6 DEF SubmitBatch, SubmitFails, Present
<1>7. CASE EnqueueWait
    <2>1. Len(fences') = Len(fences)
        BY <1>7, ExceptSeq DEF EnqueueWait, TypeOK
    <2> QED BY <1>7, <2>1 DEF EnqueueWait
<1>8. CASE FinishError \/ WaiterCallback
    BY <1>8 DEF FinishError, WaiterCallback, Release, Hop
<1>9. CASE WaitFails
    BY <1>9 DEF WaitFails
<1>10. CASE HopStopped \/ HopEnqueue \/ HopFails \/ PassOn \/ RunAfterGpu
    BY <1>10 DEF HopStopped, HopEnqueue, HopFails, PassOn, RunAfterGpu, Complete
<1>11. CASE DestroyOperation
    BY <1>11 DEF DestroyOperation
<1>12. CASE Environment \/ UNCHANGED vars
    BY <1>12 DEF Environment, RunBatch, LoseDevice, RequestStop, vars
<1> QED
    BY <1>1, <1>2, <1>3, <1>4, <1>5, <1>6, <1>7, <1>8, <1>9, <1>10, <1>11,
       <1>12 DEF Next, Prepare, Submit, Finish

LEMMA FenceStep ==
    TypeOK /\ ObjectInv /\ FenceInv /\ [Next]_vars => FenceInv'
<1> SUFFICES ASSUME TypeOK, ObjectInv, FenceInv, [Next]_vars PROVE FenceInv'
    OBVIOUS
<1>0. /\ Count \in Nat \ {0} /\ submitted \in 0 .. Count
      /\ Batches = 1 .. Count
      /\ Count' = Count /\ Batches' = Batches /\ presentation' = presentation
    BY Sizes
<1>p. pc \in Early \cup Working \cup Ended
    BY DEF TypeOK, Early, Working, Ended
<1>b. \A b : Borrowed(b)' <=> Borrowed(b)
    BY <1>0 DEF Borrowed
\* Where the fences are left alone nothing can go wrong but the stage.
<1>1. ASSUME UNCHANGED <<fences, destroyed>>,
             pc' \in {"submitting", "failing"}
                => pc \in {"submitting", "failing"},
             pc' = "waiting" => pc = "waiting",
             pc' \notin Ended => pc \notin Ended,
             pc' \in Ended => pc \in Ended \/ submitted' = 0,
             submitted' = submitted \/ pc' \notin Ended
      PROVE  FenceInv'
    BY <1>0, <1>b, <1>1 DEF FenceInv
<1>2. CASE Prepare \/ StopBeforeSubmit
    <2>1. /\ UNCHANGED <<fences, destroyed, submitted>>
          /\ pc \in Early /\ pc' \in Early \cup Ended
        BY <1>2 DEF Prepare, StopAtStart, Start, Record, PrepareTerminal,
            PrepareFails, PrepareTerminalFails, FailBeforeSubmit, Complete,
            StopBeforeSubmit, Hop, objects, Early, Ended
    <2>2. submitted' = 0
        BY <2>1 DEF ObjectInv
    <2> QED BY <1>1, <2>1, <2>2 DEF Early, Working, Ended
<1>3. CASE CreateSync
    <2>1. PICK made \in 0 .. Count :
            fences' = [b \in 1 .. made |->
                            IF Borrowed(b) THEN "borrowed" ELSE "own"]
        BY <1>3 DEF CreateSync
    <2>2. pc = "connected" /\ pc' \in {"submitting", "failing"}
          /\ UNCHANGED destroyed
        BY <1>3 DEF CreateSync
    <2> QED BY <1>0, <1>b, <2>1, <2>2 DEF FenceInv, Ended
<1>4. CASE SubmitBatch \/ SubmitFails \/ Present \/ WaitFails
    <2>1. /\ UNCHANGED <<fences, destroyed>> /\ pc \in Working
          /\ pc' \in {pc, "failing"}
          /\ pc' = "failing" => pc # "waiting"
        BY <1>4 DEF SubmitBatch, SubmitFails, Present, WaitFails, objects,
            Working
    <2> QED BY <1>1, <2>1 DEF Working, Ended
<1>5. CASE EnqueueWait
    <2>1. /\ pc = "submitting" /\ pc' = "waiting" /\ UNCHANGED destroyed
          /\ fences' = [fences EXCEPT ![Count] = "null"]
          /\ handed' = ~presentation
        BY <1>5 DEF EnqueueWait
    <2>2. DOMAIN fences' = DOMAIN fences
        BY <2>1
    <2>3. \A b \in DOMAIN fences :
            fences'[b] = IF b = Count THEN "null" ELSE fences[b]
        BY <2>1
    <2>4. \A b \in DOMAIN fences : b # Count => fences[b] = "own"
        BY <2>1 DEF FenceInv, Borrowed
    <2> QED BY <1>0, <1>b, <2>1, <2>2, <2>3, <2>4 DEF FenceInv, Ended
<1>6. CASE FinishError
    <2>1. /\ pc = "failing" /\ pc' = "hop" /\ UNCHANGED submitted
          /\ \A b \in Batches :
                destroyed'[b] = destroyed[b]
                    + (IF b \in OwnFences THEN 1 ELSE 0)
        BY <1>6 DEF FinishError, Release, Hop, TypeOK
    <2>2. \A b \in Batches : destroyed[b] = 0
        BY <2>1 DEF FenceInv, Ended
    <2>3. \A b \in OwnFences : ~Borrowed(b)
        BY DEF OwnFences
    <2>4. ASSUME NEW b \in 1 .. submitted, ~Borrowed(b) PROVE b \in OwnFences
        <3>1. b \in DOMAIN fences
            BY <1>0, <2>1 DEF ObjectInv, Working, TypeOK
        <3> QED BY <2>1, <2>4, <3>1 DEF OwnFences, FenceInv
    <2>5. 1 .. submitted \subseteq Batches
        BY <1>0
    <2> QED BY <1>0, <1>b, <2>1, <2>2, <2>3, <2>4, <2>5 DEF FenceInv, Ended
<1>7. CASE WaiterCallback
    <2>1. /\ pc = "waiting" /\ pc' = "hop" /\ UNCHANGED submitted
          /\ \A b \in Batches :
                destroyed'[b] = destroyed[b]
                    + (IF b \in OwnFences THEN 1 ELSE 0)
                    + (IF b \in IF handed THEN {Count} ELSE {} THEN 1 ELSE 0)
        BY <1>7 DEF WaiterCallback, Release, Hop
    <2>2. \A b \in Batches : destroyed[b] = 0
        BY <2>1 DEF FenceInv, Ended
    <2>3. handed <=> ~presentation
        BY <2>1 DEF ObjectInv
    <2>4. ASSUME NEW b \in Batches
          PROVE  b \in OwnFences <=> b # Count
        <3>1. b \in DOMAIN fences
            BY <1>0, <2>1 DEF ObjectInv, Working, TypeOK
        <3> QED BY <2>1, <3>1 DEF OwnFences, FenceInv, Borrowed
    <2>5. \A b \in Batches :
            destroyed'[b] = IF b = Count /\ presentation THEN 0 ELSE 1
        BY <2>1, <2>2, <2>3, <2>4
    <2>6. 1 .. submitted \subseteq Batches
        BY <1>0
    <2> QED BY <1>0, <1>b, <2>1, <2>5, <2>6 DEF FenceInv, Ended, Borrowed
<1>8. CASE HopStopped \/ HopEnqueue \/ HopFails \/ PassOn \/ RunAfterGpu
           \/ DestroyOperation
    <2>1. /\ UNCHANGED <<fences, destroyed, submitted>>
          /\ pc \in Ended /\ pc' \in Ended
        BY <1>8 DEF HopStopped, HopEnqueue, HopFails, PassOn, RunAfterGpu,
            DestroyOperation, Complete, objects, Ended
    <2> QED BY <1>1, <2>1 DEF Ended
<1>9. CASE Environment \/ UNCHANGED vars
    <2>1. UNCHANGED <<fences, destroyed, submitted, pc>>
        BY <1>9 DEF Environment, RunBatch, LoseDevice, RequestStop, vars,
            objects
    <2> QED BY <1>1, <2>1
<1> QED
    BY <1>2, <1>3, <1>4, <1>5, <1>6, <1>7, <1>8, <1>9
    DEF Next, Submit, Finish

LEMMA GpuStep ==
    TypeOK /\ ObjectInv /\ GpuInv /\ [Next]_vars => GpuInv'
<1> SUFFICES ASSUME TypeOK, ObjectInv, GpuInv, [Next]_vars PROVE GpuInv'
    OBVIOUS
<1>0. /\ Count \in Nat \ {0} /\ submitted \in 0 .. Count
      /\ Batches = 1 .. Count /\ Count \in Batches
      /\ Batches' = Batches /\ plan' = plan
      /\ \A b \in Batches : plan.preds[b] \subseteq Batches
      /\ gpu \in [Batches -> {"idle", "queued", "done"}]
    BY Sizes, PlanFacts DEF TypeOK
\* A step of the operation that submits nothing.
<1>1. ASSUME UNCHANGED <<gpu, lost, submitted>>,
             pc' \in Ended =>
                pc \in Ended \/ lost \/ \A b \in 1 .. submitted : gpu[b] = "done"
      PROVE  GpuInv'
    BY <1>0, <1>1 DEF GpuInv
<1>2. CASE Prepare \/ StopBeforeSubmit
    <2>1. UNCHANGED <<gpu, lost, submitted>> /\ pc \in Early
        BY <1>2 DEF Prepare, StopAtStart, Start, Record, PrepareTerminal,
            PrepareFails, PrepareTerminalFails, FailBeforeSubmit,
            StopBeforeSubmit, world, Early
    <2>2. submitted = 0
        BY <2>1 DEF ObjectInv
    <2> QED BY <1>1, <2>1, <2>2
<1>3. CASE CreateSync \/ SubmitFails \/ Present \/ EnqueueWait \/ WaitFails
    <2>1. UNCHANGED <<gpu, lost, submitted>> /\ pc' \in Working
        BY <1>3 DEF CreateSync, SubmitFails, Present, EnqueueWait, WaitFails,
            world, Working
    <2> QED BY <1>1, <2>1 DEF Working, Ended
<1>4. CASE SubmitBatch
    <2>1. /\ submitted < Count /\ submitted' = submitted + 1
          /\ gpu' = [gpu EXCEPT ![submitted + 1] = "queued"]
          /\ pc' = "submitting"
        BY <1>4 DEF SubmitBatch
    <2>2. submitted + 1 \in Batches /\ gpu[submitted + 1] = "idle"
        BY <1>0, <2>1 DEF GpuInv
    <2>3. \A b \in Batches : gpu'[b] = "idle" <=> b > submitted'
        BY <1>0, <2>1, <2>2 DEF GpuInv
    <2>4. \A b \in Batches : gpu'[b] = "done" <=> gpu[b] = "done"
        BY <1>0, <2>1, <2>2
    <2>5. \A b \in Batches :
            gpu'[b] = "done" => \A p \in plan.preds[b] : gpu'[p] = "done"
        BY <1>0, <2>4 DEF GpuInv
    <2> QED BY <1>0, <2>1, <2>3, <2>5 DEF GpuInv, Ended
<1>5. CASE FinishError
    <2>1. UNCHANGED <<gpu, lost, submitted>>
          /\ (lost \/ \A b \in 1 .. submitted : gpu[b] = "done")
        BY <1>5 DEF FinishError, SubmittedDone, world
    <2> QED BY <1>1, <2>1
<1>6. CASE WaiterCallback
    <2>1. UNCHANGED <<gpu, lost, submitted>> /\ (gpu[Count] = "done" \/ lost)
        BY <1>6 DEF WaiterCallback, world
    <2>2. 1 .. submitted \subseteq Batches
        BY <1>0
    <2> QED BY <1>1, <2>1, <2>2, LastIsLast
<1>7. CASE HopStopped \/ HopEnqueue \/ HopFails \/ PassOn \/ RunAfterGpu
           \/ DestroyOperation
    <2>1. UNCHANGED <<gpu, lost, submitted>> /\ pc \in Ended
        BY <1>7 DEF HopStopped, HopEnqueue, HopFails, PassOn, RunAfterGpu,
            DestroyOperation, world, Ended
    <2> QED BY <1>1, <2>1
<1>8. ASSUME NEW b \in Batches, RunBatch(b) PROVE GpuInv'
    <2>1. /\ gpu[b] = "queued" /\ ~lost /\ gpu' = [gpu EXCEPT ![b] = "done"]
          /\ \A p \in plan.preds[b] : gpu[p] = "done"
          /\ UNCHANGED <<submitted, pc, lost>>
        BY <1>8 DEF RunBatch, InFlight
    <2>2. \A c \in Batches : gpu'[c] = IF c = b THEN "done" ELSE gpu[c]
        BY <1>0, <2>1
    <2>3. \A c \in Batches : gpu'[c] = "idle" <=> c > submitted'
        BY <2>1, <2>2 DEF GpuInv
    <2>4. \A c \in Batches :
            gpu'[c] = "done" => \A p \in plan.preds[c] : gpu'[p] = "done"
        BY <1>0, <2>1, <2>2 DEF GpuInv
    <2>5. 1 .. submitted \subseteq Batches
        BY <1>0
    <2>6. pc \in Ended => \A c \in 1 .. submitted : gpu'[c] = "done"
        BY <2>1, <2>2, <2>5 DEF GpuInv
    <2> QED BY <1>0, <2>1, <2>3, <2>4, <2>6 DEF GpuInv
<1>9. CASE LoseDevice
    BY <1>0, <1>9 DEF LoseDevice, GpuInv
<1>10. CASE RequestStop \/ UNCHANGED vars
    <2>1. UNCHANGED <<gpu, lost, submitted, pc>>
        BY <1>10 DEF RequestStop, vars, world
    <2> QED BY <1>1, <2>1
<1> QED
    BY <1>2, <1>3, <1>4, <1>5, <1>6, <1>7, <1>8, <1>9, <1>10
    DEF Next, Submit, Finish, Environment

LEMMA FrameStep ==
    TypeOK /\ ObjectInv /\ GpuInv /\ FrameInv /\ [Next]_vars => FrameInv'
<1> SUFFICES ASSUME TypeOK, ObjectInv, GpuInv, FrameInv, [Next]_vars
             PROVE  FrameInv'
    OBVIOUS
<1>0. /\ Count \in Nat \ {0} /\ submitted \in 0 .. Count
      /\ Batches = 1 .. Count /\ Count \in Batches
      /\ Count' = Count /\ presentation' = presentation
      /\ presentation \in BOOLEAN
      /\ gpu \in [Batches -> {"idle", "queued", "done"}]
    BY Sizes DEF TypeOK
<1>g. gpu[Count] = "idle" <=> Count > submitted
    BY <1>0 DEF GpuInv
\* A step that does not touch the frame.
<1>1. ASSUME UNCHANGED <<frame, gpu, lost>>,
             submitted' = submitted,
             pc' \notin Ended => pc \notin Ended,
             pc' \in Early => pc \in Early,
             pc' = "waiting" => pc = "waiting" \/ ~presentation
                                    \/ frame = "presented",
             pc' \in Ended => pc \in Ended \/ frame # "acquired"
      PROVE  FrameInv'
    BY <1>0, <1>1 DEF FrameInv
\* The frame is given back before anything was submitted.
<1>2. CASE StopAtStart \/ PrepareFails \/ PrepareTerminalFails
           \/ StopBeforeSubmit
    <2>1. /\ pc \in Early /\ pc' \in Ended
          /\ UNCHANGED <<gpu, lost, submitted>>
          /\ IF presentation THEN frame' \in {"abort_failed", "abandoned_acquired"}
                             ELSE UNCHANGED frame
        BY <1>2 DEF StopAtStart, PrepareFails, PrepareTerminalFails,
            FailBeforeSubmit, StopBeforeSubmit, Abort, Complete, Hop, world,
            objects, Early, Ended
    <2>2. submitted = 0 /\ pc' \notin Early /\ pc' # "waiting"
        BY <2>1 DEF ObjectInv, Early, Ended
    <2>3. CASE presentation
        BY <1>0, <1>g, <2>1, <2>2, <2>3 DEF FrameInv
    <2>4. CASE ~presentation
        BY <1>0, <2>1, <2>2, <2>4 DEF FrameInv
    <2> QED BY <2>3, <2>4
<1>3. CASE Start \/ Record \/ PrepareTerminal
    <2>1. UNCHANGED <<frame, gpu, lost, submitted>> /\ pc \in Early
          /\ pc' \in Early
        BY <1>3 DEF Start, Record, PrepareTerminal, world, objects, Early
    <2> QED BY <1>1, <2>1 DEF Early, Ended
<1>4. CASE CreateSync \/ SubmitFails \/ EnqueueWait \/ WaitFails
    <2>1. /\ UNCHANGED <<frame, gpu, lost, submitted>>
          /\ pc \in Working \cup {"connected"} /\ pc' \in Working
          /\ pc' = "waiting" =>
                pc = "waiting" \/ ~presentation \/ frame = "presented"
        BY <1>4 DEF CreateSync, SubmitFails, EnqueueWait, WaitFails, world,
            Working
    <2> QED BY <1>1, <2>1 DEF Working, Early, Ended
<1>5. CASE SubmitBatch
    <2>1. /\ pc = "submitting" /\ pc' = pc /\ submitted < Count
          /\ UNCHANGED frame
        BY <1>5 DEF SubmitBatch
    <2>2. frame \in {"none", "acquired"}
        BY <1>0, <2>1 DEF FrameInv, Ended
    <2> QED BY <1>0, <2>1, <2>2 DEF FrameInv, Early, Ended
<1>6. CASE Present
    <2>1. /\ pc = "submitting" /\ pc' = pc /\ presentation
          /\ submitted = Count /\ submitted' = submitted
          /\ frame' = "presented"
        BY <1>6 DEF Present
    <2> QED BY <1>0, <2>1 DEF FrameInv, Early, Ended
<1>7. CASE FinishError
    <2>1. /\ pc = "failing" /\ pc' = "hop"
          /\ UNCHANGED <<gpu, lost, submitted>>
          /\ lost \/ \A b \in 1 .. submitted : gpu[b] = "done"
        BY <1>7 DEF FinishError, SubmittedDone, Hop, world
    <2>2. CASE presentation /\ frame # "presented"
        <3>1. frame' \in {"abort_failed", AbortState}
            BY <1>7, <2>2 DEF FinishError, Abort
        <3>2. CASE submitted = Count
            BY <1>0, <2>1, <2>2, <3>1, <3>2
            DEF FrameInv, AbortState, Early, Ended
        <3>3. CASE submitted # Count
            BY <1>0, <1>g, <2>1, <2>2, <3>1, <3>3
            DEF FrameInv, AbortState, Early, Ended
        <3> QED BY <3>2, <3>3
    <2>3. CASE ~(presentation /\ frame # "presented")
        <3>1. frame' = frame /\ frame # "acquired"
            BY <1>7, <2>3 DEF FinishError, FrameInv
        <3> QED BY <1>1, <2>1, <3>1 DEF Early, Ended
    <2> QED BY <2>2, <2>3
<1>8. CASE WaiterCallback
    <2>1. /\ pc = "waiting" /\ pc' = "hop"
          /\ UNCHANGED <<frame, gpu, lost, submitted>>
        BY <1>8 DEF WaiterCallback, Hop, world
    <2>2. frame # "acquired"
        BY <2>1 DEF FrameInv
    <2> QED BY <1>1, <2>1, <2>2 DEF Early, Ended
<1>9. CASE HopStopped \/ HopEnqueue \/ HopFails \/ PassOn \/ RunAfterGpu
           \/ DestroyOperation
    <2>1. UNCHANGED <<frame, gpu, lost, submitted>> /\ pc \in Ended
          /\ pc' \in Ended
        BY <1>9 DEF HopStopped, HopEnqueue, HopFails, PassOn, RunAfterGpu,
            DestroyOperation, Complete, world, Ended
    <2> QED BY <1>1, <2>1 DEF Early, Ended
<1>10. ASSUME NEW b \in Batches, RunBatch(b) PROVE FrameInv'
    <2>1. /\ gpu[b] = "queued" /\ gpu' = [gpu EXCEPT ![b] = "done"]
          /\ UNCHANGED <<submitted, pc, lost, frame>>
        BY <1>10 DEF RunBatch, InFlight
    <2>2. gpu[Count] = "idle" => gpu'[Count] = "idle"
        BY <1>0, <2>1
    <2>3. gpu[Count] = "done" => gpu'[Count] = "done"
        BY <1>0, <2>1
    <2> QED BY <1>0, <2>1, <2>2, <2>3 DEF FrameInv
<1>11. CASE LoseDevice
    BY <1>0, <1>11 DEF LoseDevice, FrameInv
<1>12. CASE RequestStop \/ UNCHANGED vars
    <2>1. UNCHANGED <<frame, gpu, lost, submitted, pc>>
        BY <1>12 DEF RequestStop, vars, world
    <2> QED BY <1>1, <2>1
<1> QED
    BY <1>2, <1>3, <1>4, <1>5, <1>6, <1>7, <1>8, <1>9, <1>10, <1>11, <1>12
    DEF Next, Prepare, Submit, Finish, Environment

LEMMA ResultStep ==
    TypeOK /\ ObjectInv /\ GpuInv /\ FrameInv /\ ResultInv /\ [Next]_vars
        => ResultInv'
<1> SUFFICES ASSUME TypeOK, ObjectInv, GpuInv, FrameInv, ResultInv, [Next]_vars
             PROVE  ResultInv'
    OBVIOUS
<1>0. /\ Batches' = Batches /\ presentation' = presentation
      /\ RetireAttempts \in Nat \ {0} /\ attempts \in Nat
      /\ failure \in BOOLEAN /\ after_gpu \in BOOLEAN
      /\ gpu \in [Batches -> {"idle", "queued", "done"}]
    BY Sizes, SubmitAssumption DEF TypeOK
<1> USE DEF Early, Working
<1>1. CASE StopAtStart \/ PrepareFails \/ PrepareTerminalFails
    <2>1. /\ pc \in Early /\ pc' = "completed"
          /\ UNCHANGED <<stored, after_gpu>> /\ outcome' \in {"error", "stopped"}
        BY <1>1 DEF StopAtStart, PrepareFails, PrepareTerminalFails,
            FailBeforeSubmit, Complete
    <2>2. stored = "none"
        BY <2>1 DEF ResultInv
    <2> QED BY <2>1, <2>2 DEF ResultInv
<1>2. CASE Start \/ Record \/ PrepareTerminal
    BY <1>2 DEF Start, Record, PrepareTerminal, ResultInv, history
<1>3. CASE StopBeforeSubmit
    <2>1. /\ pc = "connected" /\ pc' = "hop" /\ stored' \in {"error", "stopped"}
          /\ UNCHANGED <<outcome, after_gpu>>
        BY <1>3 DEF StopBeforeSubmit, Hop
    <2> QED BY <2>1 DEF ResultInv
<1>4. CASE CreateSync
    <2>1. /\ pc = "connected" /\ pc' \in {"submitting", "failing"}
          /\ pc' = "submitting" => failure' = FALSE
          /\ UNCHANGED <<attempts, stored, outcome, after_gpu>>
        BY <1>4 DEF CreateSync
    <2> QED BY <2>1 DEF ResultInv
<1>5. CASE SubmitBatch \/ Present \/ EnqueueWait
    <2>1. /\ pc = "submitting" /\ pc' \in {"submitting", "waiting"}
          /\ UNCHANGED <<attempts, stored, outcome, after_gpu, failure>>
        BY <1>5 DEF SubmitBatch, Present, EnqueueWait, history
    <2> QED BY <2>1 DEF ResultInv
<1>6. CASE SubmitFails
    BY <1>6 DEF SubmitFails, ResultInv
<1>7. CASE FinishError
    BY <1>7 DEF FinishError, Hop, ResultInv, history
<1>8. CASE WaitFails
    BY <1>0, <1>8 DEF WaitFails, ResultInv
<1>9. CASE WaiterCallback
    <2>1. PICK error, stopped \in BOOLEAN :
            /\ ~error => gpu[Count] = "done" /\ attempts = 0
            /\ failure' = (failure \/ error)
            /\ Hop(SignalFor(error, stopped))
        BY <1>9 DEF WaiterCallback
    <2>2. /\ pc = "waiting" /\ pc' = "hop" /\ scopes' = {}
          /\ UNCHANGED <<gpu, frame, outcome, after_gpu>>
        BY <1>9, <2>1 DEF WaiterCallback, Release, Hop, world
    <2>3. CASE error \/ stopped
        <3>1. stored' \in {"error", "stopped"}
            BY <2>1, <2>3 DEF Hop, SignalFor
        <3> QED BY <2>2, <3>1 DEF ResultInv
    <2>4. CASE ~error /\ ~stopped
        <3>1. /\ stored' = "value" /\ gpu[Count] = "done"
              /\ attempts = 0
            BY <2>1, <2>4 DEF Hop, SignalFor
        <3>2. \A b \in Batches : gpu[b] = "done"
            BY <3>1, LastIsLast
        <3>3. presentation => frame = "presented"
            BY <2>2 DEF FrameInv
        <3>4. ~failure'
            <4>1. ~failure
                BY <2>2, <3>1 DEF ResultInv
            <4> QED BY <2>1, <2>4, <4>1, Zenon
        <3> QED BY <1>0, <2>2, <3>1, <3>2, <3>3, <3>4 DEF ResultInv
    <2> QED BY <2>3, <2>4
<1>10. CASE HopStopped \/ HopFails \/ PassOn
    <2>1. /\ pc \in {"hop", "scheduled"} /\ pc' = "completed"
          /\ outcome' \in {"error", "stopped"}
          /\ UNCHANGED <<stored, gpu, scopes, frame, after_gpu>>
        BY <1>10 DEF HopStopped, HopFails, PassOn, Complete, world, objects,
            history
    <2> QED BY <1>0, <2>1 DEF ResultInv
<1>11. CASE HopEnqueue
    BY <1>0, <1>11 DEF HopEnqueue, ResultInv, world, objects, history
<1>12. CASE RunAfterGpu
    <2>1. /\ pc = "scheduled" /\ pc' = "completed" /\ stored = "value"
          /\ outcome' \in {"error", "value"}
          /\ outcome' = "value" => failure' = failure
          /\ after_gpu' = TRUE
          /\ UNCHANGED <<stored, gpu, scopes, frame>>
        BY <1>0, <1>12 DEF RunAfterGpu, Complete, world, objects
    <2> QED BY <1>0, <2>1 DEF ResultInv
<1>13. CASE DestroyOperation
    BY <1>0, <1>13 DEF DestroyOperation, ResultInv, world, history
<1>14. ASSUME NEW b \in Batches, RunBatch(b) PROVE ResultInv'
    <2>1. /\ gpu' = [gpu EXCEPT ![b] = "done"]
          /\ UNCHANGED <<pc, scopes, frame, attempts, stored, outcome,
                         after_gpu, failure>>
        BY <1>14 DEF RunBatch, objects, history
    <2>2. \A c \in Batches : gpu[c] = "done" => gpu'[c] = "done"
        BY <1>0, <2>1
    <2> QED BY <1>0, <2>1, <2>2 DEF ResultInv
<1>15. CASE LoseDevice \/ RequestStop \/ UNCHANGED vars
    <2>1. UNCHANGED <<pc, scopes, frame, attempts, stored, outcome, after_gpu,
                      failure, gpu>>
        BY <1>15 DEF LoseDevice, RequestStop, vars, objects, history, world
    <2> QED BY <1>0, <2>1 DEF ResultInv
<1> QED
    BY <1>1, <1>2, <1>3, <1>4, <1>5, <1>6, <1>7, <1>8, <1>9, <1>10, <1>11,
       <1>12, <1>13, <1>14, <1>15
    DEF Next, Prepare, Submit, Finish, Environment

LEMMA Inductive == Spec => []IInv
<1>1. IInv /\ [Next]_vars => IInv'
    BY TypeOKStep, ObjectStep, FenceStep, GpuStep, FrameStep, ResultStep
    DEF IInv
<1> QED BY <1>1, InitIInv, PTL DEF Spec

-----------------------------------------------------------------------------
(* The theorems *)

\* The variables of an operation keep their types, whatever graph it runs.
THEOREM TypeCorrect == Spec => []TypeOK
<1>1. IInv => TypeOK
    BY DEF IInv
<1> QED BY <1>1, Inductive, PTL

\* What the GPU may still use is held and the caller has not heard of
\* completion. The step from the last fence to all batches is LastIsLast.
THEOREM NothingReleasedInFlight == Spec => []HeldWhileInFlight
<1>1. IInv => HeldWhileInFlight
    <2> SUFFICES ASSUME IInv, NEW b \in Batches, InFlight(b)
                 PROVE  /\ b \in scopes /\ destroyed[b] = 0
                        /\ semaphores = SemaphoreCount /\ outcome = "none"
        BY DEF HeldWhileInFlight
    <2>1. TypeOK /\ ObjectInv /\ FenceInv /\ GpuInv /\ ResultInv
        BY DEF IInv
    <2>2. b \in 1 .. submitted /\ gpu[b] = "queued" /\ ~lost
        <3>1. Batches = 1 .. Count /\ submitted \in 0 .. Count
            BY <2>1, PlanFacts DEF TypeOK
        <3> QED BY <2>1, <3>1 DEF GpuInv, InFlight
    <2>3. pc \notin Ended
        BY <2>1, <2>2 DEF GpuInv
    <2>4. submitted > 0
        BY <2>1, <2>2 DEF TypeOK
    <2>5. pc \in Working
        BY <2>1, <2>3, <2>4 DEF ObjectInv, TypeOK, Early, Working, Ended
    <2> QED
        BY <2>1, <2>3, <2>4, <2>5
        DEF ObjectInv, FenceInv, ResultInv, Working, Ended
<1> QED BY <1>1, Inductive, PTL

\* The operation and the waiter destroy every fence of the graph once between
\* them, and never the presenter's.
THEOREM EveryFenceDestroyedOnce == Spec => []FencesDestroyedOnce
<1>1. IInv => FencesDestroyedOnce
    BY DEF IInv, FencesDestroyedOnce, ObjectInv, FenceInv, ResultInv, Working,
           Ended
<1> QED BY <1>1, Inductive, PTL

\* An acquired frame is presented or given back, in the state it is really in.
THEOREM EveryFrameSettled == Spec => []FrameSettled
<1>1. IInv => FrameSettled
    BY DEF IInv, FrameSettled, FrameInv, ResultInv, Ended
<1> QED BY <1>1, Inductive, PTL

\* set_value means that all of the graph's work is done and nothing failed.
THEOREM ValueMeansAllDone == Spec => []ValueMeansDone
<1>1. IInv => ValueMeansDone
    BY DEF IInv, ValueMeansDone, ResultInv
<1> QED BY <1>1, Inductive, PTL

\* Whatever fails, the objects of a graph are held as long as they are used and
\* destroyed once.
THEOREM ObjectsStayHeld == Spec => []ObjectsHeld
    BY NothingReleasedInFlight, EveryFenceDestroyedOnce, PTL DEF ObjectsHeld

\* A completion tells the truth about the work and the frame.
THEOREM OutcomesAreTrue == Spec => []OutcomeTrue
    BY EveryFrameSettled, ValueMeansAllDone, PTL DEF OutcomeTrue
=============================================================================
