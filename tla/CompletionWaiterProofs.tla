----------------------- MODULE CompletionWaiterProofs -----------------------
(***************************************************************************)
(* Proofs about CompletionWaiter, for any set of jobs of any kinds and any *)
(* bound on the attempts: nothing is released before retirement, success   *)
(* is true, no wakeup is lost, shutdown drains, and the waiter implements  *)
(* CompletionContract. Then about MoveOnlyFunction, for any holders and    *)
(* callables.                                                              *)
(***************************************************************************)
EXTENDS CompletionWaiter, MoveOnlyFunction, TLAPS

\* What the place of a job says of it. A job is called where it is done, and
\* is released, retired and truly reported before that.
JobInv(j) ==
    /\ calls[j] = IF at[j] = "done" THEN 1 ELSE 0
    /\ at[j] \in {"new", "pending", "active"} =>
        j \notin refused /\ j \notin destroyed /\ attempts[j] = 0
    /\ j \in destroyed => Owned(j) /\ Retired(j)
    /\ at[j] \in {"reclaimed", "done"} =>
        /\ Owned(j) => j \in destroyed
        /\ Retired(j) \/ (kind[j] = "borrowed" /\ j \in refused)
        /\ ~failed[j] => gpu[j] = "signalled" /\ attempts[j] = 0

PlaceInv == \A j \in Jobs : JobInv(j)

\* The thread finishes one job at a time, one of those that were active when
\* the pass began; only jobs that were refused are finished elsewhere.
PassInv ==
    /\ todo \subseteq Active
    /\ \A j \in Jobs :
        at[j] \in {"retiring", "reclaimed"} /\ j \notin refused => item = j
    /\ phase \notin {"reaping", "finishing_all"} => item = NoJob /\ todo = {}

\* The flag is set once the owner has passed its critical section; run has
\* returned only with nothing left, and shutdown returns after it.
ShutdownInv ==
    /\ shutting_down <=> closer # "idle"
    /\ phase = "exited" => Drained
    /\ closer = "joined" => phase = "exited"

IInv == TypeOK /\ PlaceInv /\ PassInv /\ ShutdownInv /\ NoLostWakeup

-----------------------------------------------------------------------------
(* The inductive invariant *)

LEMMA InitIInv == Init => IInv
<1> SUFFICES ASSUME Init PROVE IInv
    OBVIOUS
<1> USE WaiterAssumption DEF Init
<1>1. TypeOK
    <2>1. /\ at \in [Jobs -> {"new", "pending", "active", "retiring",
                             "reclaimed", "done"}]
          /\ kind \in [Jobs -> Kinds \cup {"none"}]
          /\ stop_seen \in [Jobs -> BOOLEAN] /\ failed \in [Jobs -> BOOLEAN]
          /\ stop \in [Jobs -> BOOLEAN] /\ gpu \in [Jobs -> {"busy", "signalled"}]
        OBVIOUS
    <2>2. 0 \in 0 .. RetireAttempts /\ 0 \in 0 .. 1
        OBVIOUS
    <2>3. /\ attempts \in [Jobs -> 0 .. RetireAttempts]
          /\ calls \in [Jobs -> 0 .. 1]
        BY <2>2
    <2> QED BY <2>1, <2>3 DEF TypeOK
<1>2. PlaceInv
    BY DEF PlaceInv, JobInv
<1>3. PassInv /\ ShutdownInv /\ NoLostWakeup
    BY DEF PassInv, ShutdownInv, NoLostWakeup, Active
<1> QED BY <1>1, <1>2, <1>3 DEF IInv

\* A job that is called back was not called before.
LEMMA TypeOKStep == TypeOK /\ PlaceInv /\ [Next]_vars => TypeOK'
<1> SUFFICES ASSUME TypeOK, PlaceInv, [Next]_vars PROVE TypeOK'
    OBVIOUS
<1> USE WaiterAssumption DEF TypeOK, intake, thread, result, world
<1>1. ASSUME NEW j \in Jobs, NEW k \in Kinds, Enqueue(j, k)
      PROVE  TypeOK'
    BY <1>1 DEF Enqueue
<1>r. ASSUME NEW j \in Jobs, NEW k \in Kinds, RefuseOwned(j, k)
      PROVE  TypeOK'
    BY <1>r DEF RefuseOwned
<1>2. ASSUME NEW j \in Jobs, "borrowed" \in Kinds, RefuseBorrowed(j)
      PROVE  TypeOK'
    BY <1>2 DEF RefuseBorrowed
<1>3. ASSUME NEW j \in Jobs, NotifyOne(j) PROVE TypeOK'
    BY <1>3 DEF NotifyOne, Wake
<1>4. ASSUME NEW j \in Jobs, ConfirmRetirement(j) PROVE TypeOK'
    BY <1>4 DEF ConfirmRetirement
<1>5. ASSUME NEW j \in Jobs, FailRetirement(j) PROVE TypeOK'
    BY <1>5 DEF FailRetirement
<1>6. ASSUME NEW j \in Jobs, CallBack(j) PROVE TypeOK'
    <2>1. calls[j] = 0
        BY <1>6 DEF CallBack, PlaceInv, JobInv
    <2>2. calls' \in [Jobs -> 0 .. 1]
        BY <1>6, <2>1 DEF CallBack
    <2> QED BY <1>6, <2>2 DEF CallBack
<1>7. CASE BeginShutdown
    BY <1>7 DEF BeginShutdown
<1>8. CASE NotifyAll
    BY <1>8 DEF NotifyAll, Wake
<1>9. CASE Join
    BY <1>9 DEF Join
<1>10. CASE Sleep
    BY <1>10 DEF Sleep
<1>11. CASE Exit
    BY <1>11 DEF Exit
<1>12. CASE TakePending
    BY <1>12 DEF TakePending
<1>13. CASE PollStopFlags
    BY <1>13 DEF PollStopFlags
<1>14. ASSUME NEW error \in BOOLEAN, WaitAnyFence(error) \/ WaitQueueIdle(error)
       PROVE  TypeOK'
    BY <1>14 DEF WaitAnyFence, WaitQueueIdle, Active
<1>15. ASSUME NEW j \in Jobs, FinishAllNext(j) \/ ReapReady(j) \/ ReapFailed(j)
       PROVE  TypeOK'
    <2>1. \E error \in BOOLEAN : StartFinish(j, error)
        BY <1>15 DEF FinishAllNext, ReapReady, ReapFailed
    <2> QED BY <2>1 DEF StartFinish
<1>16. ASSUME NEW j \in Jobs, KeepWaiting(j) PROVE TypeOK'
    BY <1>16 DEF KeepWaiting
<1>17. CASE EndPass
    BY <1>17 DEF EndPass
<1>18. CASE SpuriousWakeup
    BY <1>18 DEF SpuriousWakeup, Wake
<1>19. CASE LoseDevice
    BY <1>19 DEF LoseDevice
<1>20. ASSUME NEW j \in Jobs, GpuSignal(j) PROVE TypeOK'
    BY <1>20 DEF GpuSignal
<1>21. ASSUME NEW j \in Jobs, RequestStop(j) PROVE TypeOK'
    BY <1>21 DEF RequestStop
<1>22. CASE UNCHANGED vars
    BY <1>22 DEF vars
<1> QED
    BY <1>1, <1>r, <1>2, <1>3, <1>4, <1>5, <1>6, <1>7, <1>8, <1>9, <1>10,
       <1>11, <1>12, <1>13, <1>14, <1>15, <1>16, <1>17, <1>18, <1>19, <1>20,
       <1>21, <1>22
    DEF Next, Intake, FinishSteps, ThreadStep, Pass, Environment

\* A step that moves no job and changes no result keeps what places say: work
\* that was retired stays retired.
Quiet ==
    /\ UNCHANGED <<at, kind, refused, destroyed, attempts, calls, failed>>
    /\ lost => lost'
    /\ \A j \in Jobs : gpu[j] = "signalled" => gpu'[j] = "signalled"

\* Every step is quiet or one of the eight that move a job or record a result.
LEMMA StepKinds ==
    ASSUME TypeOK, [Next]_vars
    PROVE  \/ Quiet
           \/ \E j \in Jobs, k \in Kinds : Enqueue(j, k) \/ RefuseOwned(j, k)
           \/ \E j \in Jobs :
                \/ RefuseBorrowed(j)
                \/ ConfirmRetirement(j) \/ FailRetirement(j) \/ CallBack(j)
                \/ FinishAllNext(j) \/ ReapReady(j) \/ ReapFailed(j)
           \/ TakePending
<1> USE DEF intake, thread, result, world
<1>1. ASSUME NEW j \in Jobs, NotifyOne(j) \/ KeepWaiting(j)
      PROVE  Quiet
    BY <1>1 DEF Quiet, NotifyOne, KeepWaiting
<1>2. ASSUME BeginShutdown \/ NotifyAll \/ Join
      PROVE  Quiet
    BY <1>2 DEF Quiet, BeginShutdown, NotifyAll, Join
<1>3. ASSUME Sleep \/ Exit \/ PollStopFlags \/ EndPass \/ SpuriousWakeup
      PROVE  Quiet
    BY <1>3 DEF Quiet, Sleep, Exit, PollStopFlags, EndPass, SpuriousWakeup
<1>4. ASSUME NEW error \in BOOLEAN, WaitAnyFence(error) \/ WaitQueueIdle(error)
      PROVE  Quiet
    BY <1>4 DEF Quiet, WaitAnyFence, WaitQueueIdle
<1>5. ASSUME LoseDevice
      PROVE  Quiet
    BY <1>5 DEF Quiet, LoseDevice
<1>6. ASSUME NEW j \in Jobs, GpuSignal(j) \/ RequestStop(j)
      PROVE  Quiet
    BY <1>6 DEF Quiet, GpuSignal, RequestStop, TypeOK
<1>7. ASSUME UNCHANGED vars
      PROVE  Quiet
    BY <1>7 DEF Quiet, vars
<1> QED
    BY <1>1, <1>2, <1>3, <1>4, <1>5, <1>6, <1>7
    DEF Next, Intake, FinishSteps, ThreadStep, Pass, Environment

\* The three ways in which a pass begins to finish a job.
LEMMA FinishBegins ==
    ASSUME NEW j \in Jobs, FinishAllNext(j) \/ ReapReady(j) \/ ReapFailed(j)
    PROVE  /\ phase \in {"reaping", "finishing_all"}
           /\ item = NoJob /\ j \in todo
           /\ \E error \in {TRUE, FALSE, wave_error} : StartFinish(j, error)
BY DEF FinishAllNext, ReapReady, ReapFailed

LEMMA PlaceStep == TypeOK /\ PlaceInv /\ PassInv /\ [Next]_vars => PlaceInv'
<1> SUFFICES ASSUME TypeOK, PlaceInv, PassInv, [Next]_vars,
                    NEW i \in Jobs
             PROVE  JobInv(i)'
    BY DEF PlaceInv
<1>0. JobInv(i)
    BY DEF PlaceInv
<1> USE WaiterAssumption DEF TypeOK, intake, thread, result, world
<1>1. CASE Quiet
    BY <1>0, <1>1 DEF Quiet, JobInv, Retired, Owned
<1>2. ASSUME NEW j \in Jobs, NEW k \in Kinds, Enqueue(j, k)
      PROVE  JobInv(i)'
    BY <1>0, <1>2 DEF Enqueue, JobInv, Retired, Owned
<1>3. ASSUME NEW j \in Jobs, NEW k \in Kinds, RefuseOwned(j, k)
      PROVE  JobInv(i)'
    BY <1>0, <1>3 DEF RefuseOwned, JobInv, Retired, Owned
<1>4. ASSUME NEW j \in Jobs, RefuseBorrowed(j) PROVE JobInv(i)'
    BY <1>0, <1>4 DEF RefuseBorrowed, JobInv, Retired, Owned
<1>5. ASSUME NEW j \in Jobs, ConfirmRetirement(j) PROVE JobInv(i)'
    <2>1. CASE i # j
        BY <1>0, <1>5, <2>1 DEF ConfirmRetirement, JobInv, Retired, Owned
    <2>2. CASE i = j
        <3>1. PICK device_lost \in BOOLEAN :
                /\ IF device_lost THEN lost ELSE Waited(j)
                /\ failed' = [failed EXCEPT
                                 ![j] = @ \/ device_lost \/ attempts[j] > 0]
            BY <1>5 DEF ConfirmRetirement
        <3>2. ~device_lost => gpu[j] = "signalled"
            BY <1>5, <3>1 DEF ConfirmRetirement, Waited
        <3>3. Retired(j)'
            BY <1>5, <3>1, <3>2 DEF ConfirmRetirement, Retired
        <3>4. failed'[j] = (failed[j] \/ device_lost \/ attempts[j] > 0)
            BY <3>1, Zenon
        <3>5. ~failed'[j] => gpu'[j] = "signalled" /\ attempts'[j] = 0
            <4>1. ~failed'[j] => ~device_lost /\ ~(attempts[j] > 0)
                BY <3>4, Zenon
            <4>2. ~(attempts[j] > 0) => attempts[j] = 0
                OBVIOUS
            <4>3. attempts' = attempts /\ gpu' = gpu
                BY <1>5 DEF ConfirmRetirement
            <4> QED BY <3>2, <4>1, <4>2, <4>3, Zenon
        <3>6. /\ at'[j] = "reclaimed" /\ calls'[j] = 0
              /\ Owned(j)' => j \in destroyed'
              /\ j \in destroyed' => Owned(j)'
            BY <1>0, <1>5, <2>2 DEF ConfirmRetirement, JobInv, Owned
        <3> QED BY <2>2, <3>3, <3>5, <3>6 DEF JobInv
    <2> QED BY <2>1, <2>2
<1>6. ASSUME NEW j \in Jobs, FailRetirement(j) PROVE JobInv(i)'
    BY <1>0, <1>6 DEF FailRetirement, JobInv, Retired, Owned
<1>7. ASSUME NEW j \in Jobs, CallBack(j) PROVE JobInv(i)'
    BY <1>0, <1>7 DEF CallBack, JobInv, Retired, Owned
<1>8. ASSUME NEW j \in Jobs, FinishAllNext(j) \/ ReapReady(j) \/ ReapFailed(j)
      PROVE  JobInv(i)'
    <2>1. PICK error \in {TRUE, FALSE, wave_error} : StartFinish(j, error)
        BY <1>8, FinishBegins
    <2>2. at[j] = "active"
        BY <1>8, FinishBegins DEF PassInv, Active
    <2> QED
        BY <1>0, <2>1, <2>2 DEF StartFinish, JobInv, Retired, Owned
<1>9. CASE TakePending
    BY <1>0, <1>9 DEF TakePending, JobInv, Retired, Owned, Pending
<1> QED
    BY StepKinds, <1>1, <1>2, <1>3, <1>4, <1>5, <1>6, <1>7, <1>8, <1>9

LEMMA PassStep == TypeOK /\ PassInv /\ [Next]_vars => PassInv'
<1> SUFFICES ASSUME TypeOK, PassInv, [Next]_vars PROVE PassInv'
    OBVIOUS
<1> USE WaiterAssumption DEF TypeOK, PassInv, Active, intake, thread, result,
                             world
<1>1. ASSUME NEW j \in Jobs, NEW k \in Kinds, Enqueue(j, k)
      PROVE  PassInv'
    BY <1>1 DEF Enqueue
<1>2. ASSUME NEW j \in Jobs, NEW k \in Kinds, RefuseOwned(j, k)
      PROVE  PassInv'
    BY <1>2 DEF RefuseOwned
<1>3. ASSUME NEW j \in Jobs, RefuseBorrowed(j) PROVE PassInv'
    BY <1>3 DEF RefuseBorrowed
<1>4. ASSUME NEW j \in Jobs, NotifyOne(j) PROVE PassInv'
    BY <1>4 DEF NotifyOne, Wake
<1>5. ASSUME NEW j \in Jobs, ConfirmRetirement(j) \/ FailRetirement(j)
      PROVE  PassInv'
    BY <1>5 DEF ConfirmRetirement, FailRetirement
<1>6. ASSUME NEW j \in Jobs, CallBack(j) PROVE PassInv'
    BY <1>6 DEF CallBack
<1>7. CASE BeginShutdown \/ Join \/ LoseDevice \/ UNCHANGED vars
    BY <1>7 DEF BeginShutdown, Join, LoseDevice, vars
<1>8. CASE NotifyAll \/ SpuriousWakeup
    BY <1>8 DEF NotifyAll, SpuriousWakeup, Wake
<1>9. CASE Sleep \/ Exit \/ PollStopFlags \/ EndPass
    BY <1>9 DEF Sleep, Exit, PollStopFlags, EndPass
<1>10. CASE TakePending
    BY <1>10 DEF TakePending, Pending
<1>11. ASSUME NEW error \in BOOLEAN, WaitAnyFence(error) \/ WaitQueueIdle(error)
       PROVE  PassInv'
    BY <1>11 DEF WaitAnyFence, WaitQueueIdle
<1>12. ASSUME NEW j \in Jobs, FinishAllNext(j) \/ ReapReady(j) \/ ReapFailed(j)
       PROVE  PassInv'
    <2>1. PICK error \in {TRUE, FALSE, wave_error} : StartFinish(j, error)
        BY <1>12, FinishBegins
    <2>2. /\ phase' = phase /\ phase \in {"reaping", "finishing_all"}
          /\ item = NoJob /\ item' = j /\ todo' = todo \ {j}
          /\ refused' = refused /\ at[j] = "active"
        BY <1>12, <2>1, FinishBegins DEF StartFinish
    <2>3. \A i \in Jobs : at'[i] = IF i = j THEN "retiring" ELSE at[i]
        BY <2>1 DEF StartFinish
    <2>4. \A i \in Jobs :
            at[i] \in {"retiring", "reclaimed"} => i \in refused
        BY <2>2
    <2> QED BY <2>2, <2>3, <2>4
<1>13. ASSUME NEW j \in Jobs, KeepWaiting(j) PROVE PassInv'
    BY <1>13 DEF KeepWaiting
<1>14. ASSUME NEW j \in Jobs, GpuSignal(j) \/ RequestStop(j) PROVE PassInv'
    BY <1>14 DEF GpuSignal, RequestStop
<1> QED
    BY <1>1, <1>2, <1>3, <1>4, <1>5, <1>6, <1>7, <1>8, <1>9, <1>10, <1>11,
       <1>12, <1>13, <1>14
    DEF Next, Intake, FinishSteps, ThreadStep, Pass, Environment

\* What the steps do to the thread, the flag and the work that is waiting:
\* the two invariants about shutdown and sleep need no more.
LEMMA ShutdownStep ==
    TypeOK /\ PassInv /\ ShutdownInv /\ NoLostWakeup /\ [Next]_vars
        => ShutdownInv' /\ NoLostWakeup'
<1> SUFFICES ASSUME TypeOK, PassInv, ShutdownInv, NoLostWakeup, [Next]_vars
             PROVE  ShutdownInv' /\ NoLostWakeup'
    OBVIOUS
<1> USE WaiterAssumption DEF intake, thread, result, world
<1> USE DEF ShutdownInv, NoLostWakeup
<1>1. ASSUME UNCHANGED <<shutting_down, notifying, closer>>,
             Active' = Active, Pending' = Pending,
             \/ phase' # "asleep" /\ phase # "exited" /\ phase' # "exited"
             \/ phase' = phase
      PROVE  ShutdownInv' /\ NoLostWakeup'
    BY <1>1 DEF Drained, HasWork
<1>2. ASSUME NEW j \in Jobs, NEW k \in Kinds, Enqueue(j, k)
      PROVE  ShutdownInv' /\ NoLostWakeup'
    BY <1>2 DEF Enqueue, Drained
<1>3. ASSUME NEW j \in Jobs, NEW k \in Kinds,
             RefuseOwned(j, k) \/ RefuseBorrowed(j)
      PROVE  ShutdownInv' /\ NoLostWakeup'
    BY <1>1, <1>3 DEF RefuseOwned, RefuseBorrowed, Active, Pending, TypeOK
<1>4. ASSUME NEW j \in Jobs, NotifyOne(j)
      PROVE  ShutdownInv' /\ NoLostWakeup'
    BY <1>4 DEF NotifyOne, Wake, Drained, Active, Pending
<1>5. ASSUME NEW j \in Jobs,
             ConfirmRetirement(j) \/ FailRetirement(j) \/ CallBack(j)
      PROVE  ShutdownInv' /\ NoLostWakeup'
    BY <1>1, <1>5
    DEF ConfirmRetirement, FailRetirement, CallBack, Active, Pending, TypeOK
<1>6. CASE BeginShutdown
    BY <1>6 DEF BeginShutdown, Drained
<1>7. CASE NotifyAll
    BY <1>7 DEF NotifyAll, Wake, Drained, Active, Pending
<1>8. CASE Join
    BY <1>8 DEF Join, Drained, HasWork, Active, Pending
<1>9. CASE Sleep
    BY <1>9 DEF Sleep, HasWork, Active, Pending
<1>10. CASE Exit
    BY <1>10 DEF Exit, Drained, Active, Pending
<1>11. CASE TakePending
    BY <1>11 DEF TakePending
<1>12. CASE PollStopFlags \/ EndPass \/ SpuriousWakeup
    BY <1>1, <1>12
    DEF PollStopFlags, EndPass, SpuriousWakeup, Wake, Active, Pending
<1>13. ASSUME NEW error \in BOOLEAN, WaitAnyFence(error) \/ WaitQueueIdle(error)
       PROVE  ShutdownInv' /\ NoLostWakeup'
    BY <1>1, <1>13 DEF WaitAnyFence, WaitQueueIdle, Active, Pending
<1>14. ASSUME NEW j \in Jobs, FinishAllNext(j) \/ ReapReady(j) \/ ReapFailed(j)
       PROVE  ShutdownInv' /\ NoLostWakeup'
    <2>1. PICK error \in {TRUE, FALSE, wave_error} : StartFinish(j, error)
        BY <1>14, FinishBegins
    <2> QED
        BY <1>14, <2>1, FinishBegins DEF StartFinish
<1>15. ASSUME NEW j \in Jobs, KeepWaiting(j) \/ GpuSignal(j) \/ RequestStop(j)
       PROVE  ShutdownInv' /\ NoLostWakeup'
    BY <1>1, <1>15 DEF KeepWaiting, GpuSignal, RequestStop, Active, Pending
<1>16. CASE LoseDevice \/ UNCHANGED vars
    BY <1>1, <1>16 DEF LoseDevice, vars, Active, Pending
<1> QED
    BY <1>2, <1>3, <1>4, <1>5, <1>6, <1>7, <1>8, <1>9, <1>10, <1>11,
       <1>12, <1>13, <1>14, <1>15, <1>16
    DEF Next, Intake, FinishSteps, ThreadStep, Pass, Environment

LEMMA Inductive == Spec => []IInv
<1>1. IInv /\ [Next]_vars => IInv'
    BY TypeOKStep, PlaceStep, PassStep, ShutdownStep DEF IInv
<1> QED BY InitIInv, <1>1, PTL DEF Spec

-----------------------------------------------------------------------------
(* Theorems *)

\* Every variable keeps its type; above all no job is called back twice.
THEOREM TypeCorrect == Spec => []TypeOK
<1>1. IInv => TypeOK
    BY DEF IInv
<1> QED BY Inductive, <1>1, PTL

\* finish_job: the synchronisation objects of a job are destroyed only once
\* its work is retired, and the callback comes after both, however the waits
\* of the thread fail.
THEOREM NothingReleasedEarly == Spec => []RetiredBeforeRelease
<1>1. IInv => RetiredBeforeRelease
    BY DEF IInv, TypeOK, PlaceInv, JobInv, RetiredBeforeRelease
<1> QED BY Inductive, <1>1, PTL

\* finish_job and wait_for_retirement: neither a lost device nor a failed wait
\* reaches the callback as success.
THEOREM SuccessIsTrue == Spec => []SuccessMeansFinished
<1>1. IInv => SuccessMeansFinished
    BY DEF IInv, TypeOK, PlaceInv, JobInv, SuccessMeansFinished
<1> QED BY Inductive, <1>1, PTL

\* run sleeps under cv_.wait only while there is nothing to do, or a thread is
\* on its way to notify it.
THEOREM WakeupsNotLost == Spec => []NoLostWakeup
<1>1. IInv => NoLostWakeup
    BY DEF IInv
<1> QED BY Inductive, <1>1, PTL

\* With nothing pending or active and no pass under way, every job that was
\* not refused is new or done.
LEMMA ExitedIsDrained ==
    ASSUME IInv, phase = "exited", NEW j \in Jobs, j \notin refused
    PROVE  at[j] \in {"new", "done"}
<1> USE WaiterAssumption DEF IInv, TypeOK
<1>1. at[j] \notin {"pending", "active"}
    BY DEF ShutdownInv, Drained, Active, Pending
<1>2. item = NoJob
    BY DEF PassInv
<1>3. at[j] \notin {"retiring", "reclaimed"}
    BY <1>2 DEF PassInv
<1> QED BY <1>1, <1>3

\* shutdown: once the thread is joined, no accepted job is left without its
\* callback.
THEOREM ShutdownDrains == Spec => []DrainedAtJoin
<1>1. IInv => DrainedAtJoin
    <2> SUFFICES ASSUME IInv, closer = "joined",
                        NEW j \in Jobs, at[j] # "new", j \notin refused
                 PROVE  calls[j] = 1
        BY DEF DrainedAtJoin
    <2>1. at[j] = "done"
        BY ExitedIsDrained DEF IInv, ShutdownInv
    <2> QED BY <2>1 DEF IInv, PlaceInv, JobInv
<1> QED BY Inductive, <1>1, PTL

-----------------------------------------------------------------------------
(* The waiter implements CompletionContract *)

\* The sets the contract speaks of.
Owed == {j \in Jobs : InHand(j) /\ j \notin refused}
TurnedAway == {j \in Jobs : InHand(j) /\ j \in refused}
WorkOver == {j \in Jobs : Retired(j)}
Called == {j \in Jobs : calls[j] > 0}
Gone == phase = "exited"

LEMMA ContractStutters ==
    ASSUME Owed' = Owed, TurnedAway' = TurnedAway, Called' = Called,
           UNCHANGED <<shutting_down, lost, gpu>>, Gone' = Gone
    PROVE  UNCHANGED Contract!vars
<1>1. WorkOver' = WorkOver
    BY DEF WorkOver, Retired
<1> QED BY <1>1 DEF Contract!vars, Owed, TurnedAway, WorkOver, Called, Gone

LEMMA ContractStep == IInv /\ [Next]_vars => [Contract!Next]_(Contract!vars)
<1> SUFFICES ASSUME IInv, [Next]_vars
             PROVE  Contract!Next \/ UNCHANGED Contract!vars
    OBVIOUS
<1> USE WaiterAssumption DEF intake, thread, result, world
<1>t. TypeOK /\ \A j \in Jobs : JobInv(j)
    BY DEF IInv, PlaceInv
<1>1. ASSUME NEW j \in Jobs, NEW k \in Kinds, Enqueue(j, k)
      PROVE  Contract!Take(j)
    <2>1. j \notin Owed \cup TurnedAway \cup Called /\ j \notin refused
        BY <1>t, <1>1 DEF Enqueue, JobInv, Owed, TurnedAway, Called, InHand
    <2>2. Owed' = Owed \cup {j} /\ TurnedAway' = TurnedAway
        BY <1>t, <1>1, <2>1
        DEF Enqueue, Owed, TurnedAway, InHand, TypeOK
    <2>3. WorkOver' = WorkOver /\ Called' = Called /\ Gone' = Gone
        BY <1>1 DEF Enqueue, WorkOver, Called, Gone, Retired
    <2> QED
        BY <1>1, <2>1, <2>2, <2>3
        DEF Enqueue, Contract!Take, Contract!Fresh, Owed, TurnedAway,
            WorkOver, Called, Gone
<1>2. ASSUME NEW j \in Jobs, NEW k \in Kinds,
             RefuseOwned(j, k) \/ RefuseBorrowed(j)
      PROVE  Contract!Refuse(j)
    <2>0. /\ at[j] = "new" /\ shutting_down
          /\ at' = [at EXCEPT ![j] = "retiring"]
                \/ at' = [at EXCEPT ![j] = "reclaimed"]
          /\ refused' = refused \cup {j}
          /\ UNCHANGED <<calls, gpu, lost, phase, shutting_down>>
        BY <1>2 DEF RefuseOwned, RefuseBorrowed
    <2>1. j \notin Owed \cup TurnedAway \cup Called
        BY <1>t, <2>0 DEF JobInv, Owed, TurnedAway, Called, InHand
    <2>2. Owed' = Owed /\ TurnedAway' = TurnedAway \cup {j}
        BY <1>t, <2>0, <2>1 DEF Owed, TurnedAway, InHand, TypeOK
    <2>3. WorkOver' = WorkOver /\ Called' = Called /\ Gone' = Gone
        BY <2>0 DEF WorkOver, Called, Gone, Retired
    <2> QED
        BY <2>0, <2>1, <2>2, <2>3
        DEF Contract!Refuse, Contract!Fresh, Owed, TurnedAway, WorkOver,
            Called, Gone
<1>3. ASSUME NEW j \in Jobs, CallBack(j)
      PROVE  Contract!Call(j) \/ Contract!CallRefused(j)
    <2>0. /\ at[j] = "reclaimed" /\ at' = [at EXCEPT ![j] = "done"]
          /\ calls[j] = 0 /\ calls' = [calls EXCEPT ![j] = 1]
          /\ UNCHANGED <<refused, gpu, lost, phase, shutting_down>>
        <3>1. calls[j] = 0
            BY <1>t, <1>3 DEF CallBack, JobInv
        <3>2. calls[j] + 1 = 1
            BY <3>1
        <3> QED BY <1>3, <3>1, <3>2 DEF CallBack
    <2>1. WorkOver' = WorkOver /\ Gone' = Gone
        BY <2>0 DEF WorkOver, Gone, Retired
    <2>2. Called' = Called \cup {j}
        BY <1>t, <2>0 DEF Called, TypeOK
    <2>3. Owed' = Owed \ {j} /\ TurnedAway' = TurnedAway \ {j}
        BY <1>t, <2>0 DEF Owed, TurnedAway, InHand, TypeOK
    <2>4. CASE j \in refused
        <3>1. j \in TurnedAway /\ j \notin Owed
            BY <2>0, <2>4 DEF TurnedAway, Owed, InHand
        <3>2. Owed' = Owed
            BY <2>3, <3>1
        <3> QED
            BY <2>0, <2>1, <2>2, <2>3, <3>1, <3>2
            DEF Contract!CallRefused, Owed, TurnedAway, WorkOver, Called, Gone
    <2>5. CASE j \notin refused
        <3>1. j \in Owed /\ j \in WorkOver /\ j \notin TurnedAway
            BY <1>t, <2>0, <2>5
            DEF TurnedAway, Owed, InHand, WorkOver, JobInv
        <3>2. TurnedAway' = TurnedAway
            BY <2>3, <3>1
        <3> QED
            BY <2>0, <2>1, <2>2, <2>3, <3>1, <3>2
            DEF Contract!Call, Owed, TurnedAway, WorkOver, Called, Gone
    <2> QED BY <2>4, <2>5
<1>4. CASE BeginShutdown
    <2>1. /\ Owed' = Owed /\ TurnedAway' = TurnedAway /\ Called' = Called
          /\ WorkOver' = WorkOver /\ Gone' = Gone
        BY <1>4
        DEF BeginShutdown, Owed, TurnedAway, Called, WorkOver, Gone, InHand,
            Retired
    <2> QED
        BY <1>4, <2>1
        DEF BeginShutdown, Contract!Next, Contract!Close, Owed, TurnedAway,
            WorkOver, Called, Gone
<1>5. CASE Exit
    <2>1. /\ Owed' = Owed /\ TurnedAway' = TurnedAway /\ Called' = Called
          /\ WorkOver' = WorkOver /\ Gone'
        BY <1>5
        DEF Exit, Owed, TurnedAway, Called, WorkOver, Gone, InHand, Retired
    <2>2. Owed = {}
        BY <1>t, <1>5
        DEF Exit, Drained, IInv, PassInv, Owed, InHand, Active, Pending, TypeOK
    <2> QED
        BY <1>5, <2>1, <2>2
        DEF Exit, Drained, Contract!Next, Contract!Leave, Owed, TurnedAway,
            WorkOver, Called, Gone
<1>6. ASSUME LoseDevice \/ \E j \in Jobs : GpuSignal(j)
      PROVE  Contract!Retire
    <2>1. /\ Owed' = Owed /\ TurnedAway' = TurnedAway /\ Called' = Called
          /\ Gone' = Gone /\ shutting_down' = shutting_down
        BY <1>6
        DEF LoseDevice, GpuSignal, Owed, TurnedAway, Called, Gone, InHand
    <2>2. WorkOver \subseteq WorkOver' /\ WorkOver' \subseteq Jobs
        BY <1>t, <1>6 DEF LoseDevice, GpuSignal, WorkOver, Retired, TypeOK
    <2>3. WorkOver' = WorkOver \cup WorkOver' /\ WorkOver' \in SUBSET Jobs
        BY <2>2
    <2> QED
        BY <2>1, <2>3
        DEF Contract!Retire, Owed, TurnedAway, WorkOver, Called, Gone
<1>7. ASSUME NEW j \in Jobs, FinishAllNext(j) \/ ReapReady(j) \/ ReapFailed(j)
      PROVE  UNCHANGED Contract!vars
    <2>1. PICK error \in {TRUE, FALSE, wave_error} : StartFinish(j, error)
        BY <1>7, FinishBegins
    <2>2. at[j] = "active" /\ at' = [at EXCEPT ![j] = "retiring"]
        BY <1>7, <2>1, FinishBegins DEF StartFinish, IInv, PassInv, Active
    <2>3. Owed' = Owed /\ TurnedAway' = TurnedAway
        BY <1>t, <2>1, <2>2 DEF StartFinish, Owed, TurnedAway, InHand, TypeOK
    <2> QED
        BY <2>1, <2>3, ContractStutters DEF StartFinish, Called, Gone
<1>8. ASSUME NEW j \in Jobs, ConfirmRetirement(j)
      PROVE  UNCHANGED Contract!vars
    <2>1. Owed' = Owed /\ TurnedAway' = TurnedAway
        BY <1>t, <1>8 DEF ConfirmRetirement, Owed, TurnedAway, InHand, TypeOK
    <2> QED
        BY <1>8, <2>1, ContractStutters DEF ConfirmRetirement, Called, Gone
<1>9. CASE TakePending
    <2>1. Owed' = Owed /\ TurnedAway' = TurnedAway
        BY <1>t, <1>9
        DEF TakePending, Pending, Owed, TurnedAway, InHand, TypeOK
    <2> QED
        BY <1>9, <2>1, ContractStutters DEF TakePending, Called, Gone
<1>10. ASSUME UNCHANGED <<at, refused, calls, shutting_down, lost, gpu>>,
              Gone' = Gone
       PROVE  UNCHANGED Contract!vars
    BY <1>10, ContractStutters DEF Owed, TurnedAway, InHand, Called
<1>11. ASSUME NEW j \in Jobs,
              NotifyOne(j) \/ FailRetirement(j) \/ KeepWaiting(j)
                \/ RequestStop(j)
       PROVE  UNCHANGED Contract!vars
    BY <1>10, <1>11
    DEF NotifyOne, FailRetirement, KeepWaiting, RequestStop, Wake, Gone
<1>12. ASSUME NotifyAll \/ Join \/ SpuriousWakeup \/ UNCHANGED vars
       PROVE  UNCHANGED Contract!vars
    BY <1>10, <1>12 DEF NotifyAll, Join, SpuriousWakeup, Wake, vars, Gone
<1>13. ASSUME Sleep \/ PollStopFlags \/ EndPass
       PROVE  UNCHANGED Contract!vars
    BY <1>10, <1>13 DEF Sleep, PollStopFlags, EndPass, Gone
<1>14. ASSUME NEW error \in BOOLEAN, WaitAnyFence(error) \/ WaitQueueIdle(error)
       PROVE  UNCHANGED Contract!vars
    BY <1>10, <1>14 DEF WaitAnyFence, WaitQueueIdle, Gone
<1>15. (\/ \E j \in Jobs : \/ Contract!Take(j) \/ Contract!Refuse(j)
                           \/ Contract!Call(j) \/ Contract!CallRefused(j)
        \/ Contract!Retire)
            => Contract!Next
    BY DEF Contract!Next
<1> QED
    BY <1>1, <1>2, <1>3, <1>4, <1>5, <1>6, <1>7, <1>8, <1>9, <1>11, <1>12,
       <1>13, <1>14, <1>15
    DEF Next, Intake, FinishSteps, ThreadStep, Pass, Environment

\* completion_waiter as the submitting code sees it: every step of the thread,
\* of enqueue and of shutdown is a step of the contract or invisible to it.
THEOREM WaiterKeepsContract == Spec => ImplementsContract
<1>1. Init => Contract!Init
    BY WaiterAssumption DEF Init, Contract!Init, InHand, Retired
<1> QED BY <1>1, ContractStep, Inductive, PTL DEF Spec, ImplementsContract,
                                                 Contract!Spec

\* The completion waiter is safe, for any jobs of any kinds.
THEOREM WaiterIsSafe == Spec => []WaiterSafe
    BY NothingReleasedEarly, SuccessIsTrue, WakeupsNotLost, ShutdownDrains, PTL
    DEF WaiterSafe

-----------------------------------------------------------------------------
(* The callables that jobs and tasks are made of *)

\* The memory between two operations: a holder's kind tells what its buffer
\* has, no two have the same callable, and the heap has those of its kind.
MemoryTypeOK(mem) ==
    /\ mem = [kind |-> mem.kind, buffer |-> mem.buffer, heap |-> mem.heap, faults |-> mem.faults]
    /\ mem.kind \in [Holders -> {"empty", "inline", "heap"}]
    /\ mem.buffer \in [Holders -> Targets \cup {Nothing}]
    /\ mem.heap \subseteq Targets

MemorySound(mem) ==
    /\ MemoryTypeOK(mem)
    /\ mem.faults = {}
    /\ \A h \in Holders :
        /\ mem.kind[h] = "empty" <=> mem.buffer[h] = Nothing
        /\ mem.kind[h] = "inline" => mem.buffer[h] \in Small
        /\ mem.kind[h] = "heap" => mem.buffer[h] \in mem.heap \ Small
    /\ \A h, i \in Holders : h # i /\ mem.buffer[h] # Nothing => mem.buffer[h] # mem.buffer[i]
    /\ \A t \in mem.heap : \E h \in Holders : mem.kind[h] = "heap" /\ mem.buffer[h] = t

FunctionIInv ==
    /\ MemorySound(memory)
    /\ holds = memory.buffer
    /\ unused \subseteq Targets
    /\ \A h \in Holders : holds[h] \notin unused

\* The mark of an empty buffer is not a callable.
LEMMA NothingIsNoTarget == Nothing \notin Targets /\ Small \subseteq Targets
BY FunctionAssumption DEF Nothing

\* clear destroys the callable of one holder, wherever it is kept.
LEMMA ClearedIsSound ==
    ASSUME NEW mem, MemorySound(mem), NEW h \in Holders
    PROVE  /\ MemorySound(ClearHolder(mem, h))
           /\ ClearHolder(mem, h).kind[h] = "empty"
           /\ ClearHolder(mem, h).buffer = [mem.buffer EXCEPT ![h] = Nothing]
<1>1. CASE mem.kind[h] = "empty"
    <2>1. ClearHolder(mem, h) = mem
        BY <1>1 DEF ClearHolder
    <2>2. mem.buffer[h] = Nothing /\ mem.buffer = [mem.buffer EXCEPT ![h] = Nothing]
        BY <1>1 DEF MemorySound, MemoryTypeOK
    <2> QED BY <1>1, <2>1, <2>2
<1>2. CASE mem.kind[h] # "empty"
    <2> DEFINE new == ClearHolder(mem, h)
    <2>1. new = [mem EXCEPT !.kind = [@ EXCEPT ![h] = "empty"],
                            !.buffer = [@ EXCEPT ![h] = Nothing],
                            !.heap = IF mem.kind[h] = "heap" THEN @ \ {mem.buffer[h]} ELSE @]
        BY <1>2 DEF ClearHolder, DestroyTarget, Fault, MemorySound, MemoryTypeOK
    <2>2. /\ new.kind = [mem.kind EXCEPT ![h] = "empty"]
          /\ new.buffer = [mem.buffer EXCEPT ![h] = Nothing]
          /\ new.heap = IF mem.kind[h] = "heap" THEN mem.heap \ {mem.buffer[h]} ELSE mem.heap
          /\ new.faults = {}
          /\ new = [kind |-> new.kind, buffer |-> new.buffer, heap |-> new.heap,
                     faults |-> new.faults]
        BY <2>1 DEF MemorySound, MemoryTypeOK
    <2> HIDE DEF new
    <2>a. MemoryTypeOK(new)
        BY <2>2 DEF MemorySound, MemoryTypeOK
    <2>3. ASSUME NEW i \in Holders
          PROVE  /\ new.kind[i] = "empty" <=> new.buffer[i] = Nothing
                 /\ new.kind[i] = "inline" => new.buffer[i] \in Small
                 /\ new.kind[i] = "heap" => new.buffer[i] \in new.heap \ Small
        BY <2>2 DEF MemorySound, MemoryTypeOK
    <2>4. \A i, k \in Holders : i # k /\ new.buffer[i] # Nothing => new.buffer[i] # new.buffer[k]
        BY <2>2 DEF MemorySound, MemoryTypeOK
    <2>5. \A t \in new.heap : \E i \in Holders : new.kind[i] = "heap" /\ new.buffer[i] = t
        BY <2>2 DEF MemorySound, MemoryTypeOK
    <2>6. MemorySound(new)
        BY <2>2, <2>a, <2>3, <2>4, <2>5 DEF MemorySound
    <2>7. new.kind[h] = "empty"
        BY <2>2 DEF MemorySound, MemoryTypeOK
    <2> QED BY <2>2, <2>6, <2>7 DEF new
<1> QED BY <1>1, <1>2

\* initialize gives an empty holder a callable that nobody has.
LEMMA InitializedIsSound ==
    ASSUME NEW mem, MemorySound(mem), NEW h \in Holders, mem.kind[h] = "empty",
           NEW t \in Targets, \A i \in Holders : mem.buffer[i] # t
    PROVE  /\ MemorySound(InitHolder(mem, h, t))
           /\ InitHolder(mem, h, t).buffer = [mem.buffer EXCEPT ![h] = t]
<1> DEFINE new == InitHolder(mem, h, t)
<1>1. mem.buffer[h] = Nothing
    BY DEF MemorySound
<1>2. /\ new.kind = [mem.kind EXCEPT ![h] = IF t \in Small THEN "inline" ELSE "heap"]
      /\ new.buffer = [mem.buffer EXCEPT ![h] = t]
      /\ new.heap = IF t \in Small THEN mem.heap ELSE mem.heap \cup {t}
      /\ new.faults = {}
      /\ MemoryTypeOK(new)
    BY <1>1 DEF InitHolder, Place, Fault, MemorySound, MemoryTypeOK
<1> HIDE DEF new
<1>3. ASSUME NEW i \in Holders
      PROVE  /\ new.kind[i] = "empty" <=> new.buffer[i] = Nothing
             /\ new.kind[i] = "inline" => new.buffer[i] \in Small
             /\ new.kind[i] = "heap" => new.buffer[i] \in new.heap \ Small
    BY <1>2, NothingIsNoTarget DEF MemorySound, MemoryTypeOK
<1>4. \A i, k \in Holders : i # k /\ new.buffer[i] # Nothing => new.buffer[i] # new.buffer[k]
    BY <1>2 DEF MemorySound, MemoryTypeOK
<1>5. ASSUME NEW u \in new.heap
      PROVE  \E i \in Holders : new.kind[i] = "heap" /\ new.buffer[i] = u
    <2>1. CASE u \in mem.heap
        <3>1. PICK i \in Holders : mem.kind[i] = "heap" /\ mem.buffer[i] = u
            BY <2>1 DEF MemorySound
        <3>2. i # h
            BY <3>1
        <3> QED BY <1>2, <3>1, <3>2 DEF MemorySound, MemoryTypeOK
    <2>2. CASE u \notin mem.heap
        <3>1. u = t /\ t \notin Small
            BY <1>2, <2>2
        <3> QED BY <1>2, <3>1 DEF MemorySound, MemoryTypeOK
    <2> QED BY <2>1, <2>2
<1>6. MemorySound(new)
    BY <1>2, <1>3, <1>4, <1>5 DEF MemorySound
<1> QED BY <1>2, <1>6 DEF new

\* move_from takes over the callable of another holder, which is left empty.
LEMMA MovedIsSound ==
    ASSUME NEW mem, MemorySound(mem), NEW h \in Holders, NEW from \in Holders,
           h # from, mem.kind[h] = "empty"
    PROVE  /\ MemorySound(MoveFrom(mem, h, from))
           /\ MoveFrom(mem, h, from).buffer
                = [mem.buffer EXCEPT ![h] = mem.buffer[from], ![from] = Nothing]
<1>0. mem.buffer[h] = Nothing
    BY DEF MemorySound
<1>1. CASE mem.kind[from] = "empty"
    <2>1. MoveFrom(mem, h, from) = mem /\ mem.buffer[from] = Nothing
        BY <1>1 DEF MoveFrom, MemorySound
    <2>2. mem.buffer = [mem.buffer EXCEPT ![h] = mem.buffer[from], ![from] = Nothing]
        BY <1>0, <2>1 DEF MemorySound, MemoryTypeOK
    <2> QED BY <2>1, <2>2
<1>2. CASE mem.kind[from] # "empty"
    <2> DEFINE new == MoveFrom(mem, h, from)
    <2>1. /\ new.kind = [mem.kind EXCEPT ![h] = mem.kind[from], ![from] = "empty"]
          /\ new.buffer = [mem.buffer EXCEPT ![h] = mem.buffer[from], ![from] = Nothing]
          /\ new.heap = mem.heap
          /\ new.faults = {}
          /\ MemoryTypeOK(new)
        BY <1>0, <1>2 DEF MoveFrom, RelocateTo, Place, Fault, MemorySound, MemoryTypeOK
    <2> HIDE DEF new
    <2>2. ASSUME NEW i \in Holders
          PROVE  /\ new.kind[i] = "empty" <=> new.buffer[i] = Nothing
                 /\ new.kind[i] = "inline" => new.buffer[i] \in Small
                 /\ new.kind[i] = "heap" => new.buffer[i] \in new.heap \ Small
        BY <2>1 DEF MemorySound, MemoryTypeOK
    <2>3. \A i, k \in Holders : i # k /\ new.buffer[i] # Nothing => new.buffer[i] # new.buffer[k]
        BY <2>1, <1>0 DEF MemorySound, MemoryTypeOK
    <2>4. ASSUME NEW u \in new.heap
          PROVE  \E i \in Holders : new.kind[i] = "heap" /\ new.buffer[i] = u
        <3>1. PICK i \in Holders : mem.kind[i] = "heap" /\ mem.buffer[i] = u
            BY <2>1 DEF MemorySound
        <3>2. i # h
            BY <3>1
        <3>3. CASE i = from
            BY <2>1, <3>1, <3>3 DEF MemorySound, MemoryTypeOK
        <3>4. CASE i # from
            BY <2>1, <3>1, <3>2, <3>4 DEF MemorySound, MemoryTypeOK
        <3> QED BY <3>3, <3>4
    <2>5. MemorySound(new)
        BY <2>1, <2>2, <2>3, <2>4 DEF MemorySound
    <2> QED BY <2>1, <2>5 DEF new
<1> QED BY <1>1, <1>2

\* At first every holder is empty.
LEMMA FunctionInitial == FunctionInit => FunctionIInv
BY NothingIsNoTarget DEF FunctionInit, FunctionIInv, MemorySound, MemoryTypeOK

\* A holder is cleared before it is given another callable.
LEMMA AssignTargetKeeps ==
    ASSUME FunctionIInv, NEW h \in Holders, NEW t \in Targets, AssignTarget(h, t)
    PROVE  FunctionIInv'
<1>0. PICK cleared : cleared = ClearHolder(memory, h)
    OBVIOUS
<1> USE DEF FunctionIInv
<1>1. /\ MemorySound(cleared) /\ cleared.kind[h] = "empty"
      /\ cleared.buffer = [memory.buffer EXCEPT ![h] = Nothing]
    BY <1>0, ClearedIsSound
<1>2. t \in unused /\ unused' = unused \ {t}
    BY DEF AssignTarget
<1>3. memory.buffer \in [Holders -> Targets \cup {Nothing}]
    BY DEF MemorySound, MemoryTypeOK
<1>4. CASE memory' = InitHolder(cleared, h, t) /\ holds' = [holds EXCEPT ![h] = t]
    <2>1. \A i \in Holders : cleared.buffer[i] # t
        BY <1>1, <1>2, <1>3, NothingIsNoTarget
    <2> HIDE DEF FunctionIInv
    <2>2. MemorySound(memory') /\ memory'.buffer = [cleared.buffer EXCEPT ![h] = t]
        <3>1. MemorySound(cleared) /\ cleared.kind[h] = "empty"
            BY <1>1
        <3>2. MemorySound(InitHolder(cleared, h, t))
            BY <2>1, <3>1, InitializedIsSound
        <3>3. InitHolder(cleared, h, t).buffer = [cleared.buffer EXCEPT ![h] = t]
            BY <2>1, <3>1, InitializedIsSound
        <3> QED BY <1>4, <3>2, <3>3, Zenon
    <2>3. holds' = memory'.buffer
        BY <1>1, <1>3, <1>4, <2>2 DEF FunctionIInv
    <2>4. \A i \in Holders : holds'[i] \notin unused'
        BY <1>2, <1>3, <1>4 DEF FunctionIInv
    <2> QED BY <1>2, <2>2, <2>3, <2>4 DEF FunctionIInv
<1>5. CASE memory' = cleared /\ holds' = [holds EXCEPT ![h] = Nothing]
    BY <1>1, <1>2, <1>3, <1>5, NothingIsNoTarget
<1> QED BY <1>0, <1>4, <1>5 DEF AssignTarget

\* A new holder is empty before it is given its callable.
LEMMA ConstructTargetKeeps ==
    ASSUME FunctionIInv, NEW h \in Holders, NEW t \in Targets, ConstructTarget(h, t)
    PROVE  FunctionIInv'
<1> USE DEF FunctionIInv, ConstructTarget, Kind
<1>1. memory.buffer \in [Holders -> Targets \cup {Nothing}]
    BY DEF MemorySound, MemoryTypeOK
<1>2. \A i \in Holders : memory.buffer[i] # t
    OBVIOUS
<1>3. MemorySound(memory') /\ memory'.buffer = [memory.buffer EXCEPT ![h] = t]
    BY <1>2, InitializedIsSound
<1>4. \A i \in Holders : holds'[i] \notin unused'
    BY <1>1
<1> QED BY <1>1, <1>3, <1>4

\* Moving, onto itself too, leaves each callable with one holder.
LEMMA MoveAssignKeeps ==
    ASSUME FunctionIInv, NEW h \in Holders, NEW from \in Holders, MoveAssign(h, from)
    PROVE  FunctionIInv'
<1>0. PICK cleared : cleared = ClearHolder(memory, h)
    OBVIOUS
<1> USE DEF FunctionIInv, MoveAssign
<1>1. memory.buffer \in [Holders -> Targets \cup {Nothing}]
    BY DEF MemorySound, MemoryTypeOK
<1>2. CASE h = from
    BY <1>2
<1>3. CASE h # from
    <2>1. /\ MemorySound(cleared) /\ cleared.kind[h] = "empty"
          /\ cleared.buffer = [memory.buffer EXCEPT ![h] = Nothing]
        BY <1>0, ClearedIsSound
    <2>2. memory' = MoveFrom(cleared, h, from)
        BY <1>0, <1>3
    <2> HIDE DEF FunctionIInv
    <2>3. /\ MemorySound(memory')
          /\ memory'.buffer = [cleared.buffer EXCEPT ![h] = cleared.buffer[from], ![from] = Nothing]
        <3>1. MemorySound(cleared) /\ cleared.kind[h] = "empty"
            BY <2>1
        <3>2. MemorySound(MoveFrom(cleared, h, from))
            BY <1>3, <3>1, MovedIsSound
        <3>3. MoveFrom(cleared, h, from).buffer
                = [cleared.buffer EXCEPT ![h] = cleared.buffer[from], ![from] = Nothing]
            BY <1>3, <3>1, MovedIsSound
        <3> QED BY <2>2, <3>2, <3>3, Zenon
    <2>4. holds' = memory'.buffer
        BY <1>1, <1>3, <2>1, <2>3 DEF FunctionIInv
    <2>5. \A i \in Holders : holds'[i] \notin unused'
        BY <1>1, <1>3, NothingIsNoTarget DEF FunctionIInv
    <2> QED BY <2>3, <2>4, <2>5 DEF FunctionIInv
<1> QED BY <1>2, <1>3

\* The same for a new holder.
LEMMA MoveConstructKeeps ==
    ASSUME FunctionIInv, NEW h \in Holders, NEW from \in Holders, MoveConstruct(h, from)
    PROVE  FunctionIInv'
<1> USE DEF FunctionIInv, MoveConstruct, Kind
<1>1. memory.buffer \in [Holders -> Targets \cup {Nothing}]
    BY DEF MemorySound, MemoryTypeOK
<1>2. /\ MemorySound(memory')
      /\ memory'.buffer = [memory.buffer EXCEPT ![h] = memory.buffer[from], ![from] = Nothing]
    BY MovedIsSound
<1>3. \A i \in Holders : holds'[i] \notin unused'
    BY <1>1, NothingIsNoTarget
<1> QED BY <1>2, <1>3

\* Assigning nothing clears.
LEMMA AssignNothingKeeps ==
    ASSUME FunctionIInv, NEW h \in Holders, AssignNothing(h)
    PROVE  FunctionIInv'
<1> USE DEF FunctionIInv, AssignNothing
<1>1. MemorySound(memory') /\ memory'.buffer = [memory.buffer EXCEPT ![h] = Nothing]
    BY ClearedIsSound
<1>2. \A i \in Holders : holds'[i] \notin unused'
    BY NothingIsNoTarget DEF MemorySound, MemoryTypeOK
<1> QED BY <1>1, <1>2

\* Every step keeps the invariant.
LEMMA FunctionStep ==
    ASSUME FunctionIInv, [FunctionNext]_functionVars
    PROVE  FunctionIInv'
<1>1. CASE UNCHANGED functionVars
    BY <1>1 DEF functionVars, FunctionIInv
<1>2. CASE FunctionNext
    BY <1>2, AssignTargetKeeps, ConstructTargetKeeps, MoveAssignKeeps, MoveConstructKeeps,
       AssignNothingKeeps DEF FunctionNext
<1> QED BY <1>1, <1>2

\* The property speaks of the memory between two operations.
LEMMA FunctionImplies == FunctionIInv => CallablesOwned
<1> SUFFICES ASSUME FunctionIInv PROVE CallablesOwned
    OBVIOUS
<1> USE DEF FunctionIInv
<1>1. memory.faults = {}
    BY DEF MemorySound
<1>2. ASSUME NEW h \in Holders
      PROVE  /\ Invoked(h) = holds[h]
             /\ Kind(h) = "empty" <=> memory.buffer[h] = Nothing
    BY DEF Invoked, Kind, MemorySound
<1>3. ASSUME NEW h \in Holders
      PROVE  Kind(h) = "heap" <=> memory.buffer[h] \in memory.heap
    BY NothingIsNoTarget DEF Kind, MemorySound, MemoryTypeOK
<1>4. memory.heap = {memory.buffer[h] : h \in Holders} \ (Small \cup {Nothing})
    BY NothingIsNoTarget DEF MemorySound, MemoryTypeOK
<1>5. \A h, i \in Holders : h # i /\ holds[h] # Nothing => holds[h] # holds[i]
    BY DEF MemorySound
<1> QED BY <1>1, <1>2, <1>3, <1>4, <1>5 DEF CallablesOwned

\* However callables are stored, moved and dropped: each holder calls what it
\* holds, inline or on the heap, no two hold the same one, none is used after
\* its end, and the heap keeps none that nobody holds.
THEOREM CallablesAreOwned == FunctionSpec => []CallablesOwned
<1>1. FunctionIInv /\ [FunctionNext]_functionVars => FunctionIInv'
    BY FunctionStep
<1> QED BY <1>1, FunctionInitial, FunctionImplies, PTL DEF FunctionSpec
=============================================================================
