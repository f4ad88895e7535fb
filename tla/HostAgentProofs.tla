--------------------------- MODULE HostAgentProofs ---------------------------
(***************************************************************************)
(* Proofs about HostAgent, for any sets of clients and tasks: the type     *)
(* invariant, the order in which accepted tasks are called, the absence of *)
(* lost wakeups, the drain that shutdown promises, and the refinement of   *)
(* TaskQueue. Then about ScheduleWait, which stands on that queue: what    *)
(* schedule and sync_wait tell their callers, for any number of them.      *)
(***************************************************************************)
EXTENDS HostAgent, ScheduleWait, SequenceTheorems, TLAPS

\* Outside the loop over local the agent holds no task.
LoopInv ==
    agent # "running" => local = <<>> /\ next = 1 /\ running = <<>>

\* The flag is set exactly once the owner has passed its critical section.
GateInv == shutting_down <=> closer # "idle"

\* run() has returned only with the flag set and nothing pending; what the
\* flag refuses, nobody adds later.
ExitInv == agent = "exited" => Drained

\* shutdown returns after run().
JoinInv == closer = "joined" => agent = "exited"

\* Every task that was called has returned or is on the agent's stack.
WorkInv == Range(started) \cup nested = finished \cup Range(running)

IInv ==
    /\ AgentTypeOK
    /\ AcceptedInOrder
    /\ NoLostWakeup
    /\ LoopInv
    /\ GateInv
    /\ ExitInv
    /\ JoinInv
    /\ WorkInv

-----------------------------------------------------------------------------
(* Facts about sequences *)

\* What is left of local from the index after the last is nothing, from the
\* first index everything, and from next the task at next and the rest.
LEMMA RemainingShape ==
    ASSUME NEW s \in Seq(Tasks), NEW i \in 1 .. Len(s) + 1
    PROVE  /\ SubSeq(s, i, Len(s)) \in Seq(Tasks)
           /\ i = Len(s) + 1 => SubSeq(s, i, Len(s)) = <<>>
           /\ i = 1 => SubSeq(s, i, Len(s)) = s
           /\ i <= Len(s) =>
                /\ SubSeq(s, i, Len(s)) =
                     <<s[i]>> \o SubSeq(s, i + 1, Len(s))
                /\ s[i] \in Tasks
                /\ SubSeq(s, i, Len(s)) # <<>>
                /\ Head(SubSeq(s, i, Len(s))) = s[i]
                /\ Tail(SubSeq(s, i, Len(s))) = SubSeq(s, i + 1, Len(s))
<1>0. Len(s) \in Nat /\ i \in Int /\ \A k \in 1 .. Len(s) : s[k] \in Tasks
    BY LenProperties, ElementOfSeq
<1>1. /\ SubSeq(s, i, Len(s)) \in Seq(Tasks)
      /\ Len(SubSeq(s, i, Len(s))) = IF i <= Len(s) THEN Len(s) - i + 1 ELSE 0
    <2>1. \A k \in i .. Len(s) : s[k] \in Tasks
        BY <1>0
    <2>2. Len(s) \in Int
        BY <1>0
    <2> QED BY <1>0, <2>1, <2>2, SubSeqProperties
<1>2. i = Len(s) + 1 => SubSeq(s, i, Len(s)) = <<>>
    BY <1>0, SubSeqEmpty
<1>3. i = 1 => SubSeq(s, i, Len(s)) = s
    BY SubSeqFull
<1>4. ASSUME i <= Len(s)
      PROVE  /\ SubSeq(s, i, Len(s)) = <<s[i]>> \o SubSeq(s, i + 1, Len(s))
             /\ s[i] \in Tasks
             /\ SubSeq(s, i, Len(s)) # <<>>
             /\ Head(SubSeq(s, i, Len(s))) = s[i]
             /\ Tail(SubSeq(s, i, Len(s))) = SubSeq(s, i + 1, Len(s))
    <2>1. i \in 1 .. Len(s) /\ Len(s) \in i .. Len(s)
        BY <1>0, <1>4
    <2>2. Len(SubSeq(s, i, Len(s))) # 0
        BY <1>0, <1>1, <1>4
    <2>3. SubSeq(s, i, Len(s)) # <<>>
        BY <2>2, EmptySeq
    <2> QED
        BY <1>0, <2>1, <2>3, SubSeqRecursiveFirst, HeadTailOfSubSeq
<1> QED BY <1>1, <1>2, <1>3, <1>4

\* Appending adds one element to the range; a non-empty sequence is its last
\* element and the ones before it.
LEMMA RangeAppend ==
    ASSUME NEW s \in Seq(Tasks), NEW t \in Tasks
    PROVE  Range(Append(s, t)) = Range(s) \cup {t}
<1>1. <<t>> \in Seq(Tasks)
    OBVIOUS
<1>2. Range(<<t>>) = {t}
    BY DEF Range
<1>3. Range(s \o <<t>>) = Range(s) \cup Range(<<t>>)
    BY <1>1, RangeConcatenation, Zenon
<1>4. Append(s, t) = s \o <<t>>
    BY AppendIsConcat, Zenon
<1> QED BY <1>2, <1>3, <1>4, Zenon

LEMMA RangeLast ==
    ASSUME NEW s \in Seq(Tasks), s # <<>>
    PROVE  /\ s[Len(s)] \in Tasks
           /\ SubSeq(s, 1, Len(s) - 1) \in Seq(Tasks)
           /\ Range(s) = Range(SubSeq(s, 1, Len(s) - 1)) \cup {s[Len(s)]}
<1>1. Len(s) \in Nat \ {0}
    BY EmptySeq
<1>2. Len(s) \in 1 .. Len(s) /\ 1 \in 1 .. Len(s)
    BY <1>1
<1>3. s[Len(s)] \in Tasks
    BY <1>2, ElementOfSeq
<1>4. SubSeq(s, 1, Len(s) - 1) \in Seq(Tasks)
    <2>1. \A k \in 1 .. Len(s) - 1 : s[k] \in Tasks
        BY <1>1, ElementOfSeq
    <2>2. 1 \in Int /\ Len(s) - 1 \in Int
        BY <1>1
    <2> QED BY <2>1, <2>2, SubSeqProperties
<1>5. s = SubSeq(s, 1, Len(s) - 1) \o <<s[Len(s)]>>
    BY <1>2, SubSeqRecursiveSecond, SubSeqFull
<1>6. <<s[Len(s)]>> \in Seq(Tasks)
    BY <1>3
<1>7. Range(<<s[Len(s)]>>) = {s[Len(s)]}
    BY DEF Range
<1>8. Range(SubSeq(s, 1, Len(s) - 1) \o <<s[Len(s)]>>)
        = Range(SubSeq(s, 1, Len(s) - 1)) \cup Range(<<s[Len(s)]>>)
    BY <1>4, <1>6, RangeConcatenation, Zenon
<1> QED BY <1>3, <1>4, <1>5, <1>7, <1>8, Zenon

\* The three segments of an accepted sequence, regrouped: a task joins the
\* last one, or leaves the middle one for the first.
LEMMA AppendToSecond ==
    ASSUME NEW r \in Seq(Tasks), NEW b \in Seq(Tasks), NEW t \in Tasks
    PROVE  Append(r \o b, t) = r \o Append(b, t)
<1>1. <<t>> \in Seq(Tasks) /\ r \o b \in Seq(Tasks)
    BY ConcatProperties
<1>2. Append(r \o b, t) = (r \o b) \o <<t>>
    BY <1>1, AppendIsConcat, Zenon
<1>3. (r \o b) \o <<t>> = r \o (b \o <<t>>)
    BY <1>1, ConcatAssociative
<1>4. Append(b, t) = b \o <<t>>
    BY AppendIsConcat, Zenon
<1> QED BY <1>2, <1>3, <1>4, Zenon

LEMMA AppendToThird ==
    ASSUME NEW a \in Seq(Tasks), NEW r \in Seq(Tasks), NEW b \in Seq(Tasks),
           NEW t \in Tasks
    PROVE  Append((a \o r) \o b, t) = (a \o r) \o Append(b, t)
<1>1. a \o r \in Seq(Tasks)
    BY ConcatProperties
<1> QED BY <1>1, AppendToSecond

LEMMA MoveToFirst ==
    ASSUME NEW a \in Seq(Tasks), NEW r \in Seq(Tasks), NEW t \in Tasks
    PROVE  a \o (<<t>> \o r) = Append(a, t) \o r
<1>1. <<t>> \in Seq(Tasks)
    OBVIOUS
<1>2. (a \o <<t>>) \o r = a \o (<<t>> \o r)
    BY <1>1, ConcatAssociative
<1>3. Append(a, t) = a \o <<t>>
    BY AppendIsConcat, Zenon
<1> QED BY <1>2, <1>3, Zenon

-----------------------------------------------------------------------------
(* The inductive invariant *)

LEMMA InitIInv == AgentInit => IInv
<1> SUFFICES ASSUME AgentInit PROVE IInv
    OBVIOUS
<1> USE DEF AgentInit
<1>1. AgentTypeOK
    <2>1. <<>> \in Seq(Tasks) /\ Len(<<>>) = 0
        BY EmptySeq
    <2>2. next \in 1 .. Len(local) + 1
        BY <2>1
    <2> QED BY <2>1, <2>2 DEF AgentTypeOK
<1>2. AcceptedInOrder
    BY DEF AcceptedInOrder, Remaining
<1>3. NoLostWakeup /\ LoopInv /\ GateInv /\ ExitInv /\ JoinInv
    BY DEF NoLostWakeup, LoopInv, GateInv, ExitInv, JoinInv
<1>4. WorkInv
    BY DEF WorkInv, Range
<1> QED BY <1>1, <1>2, <1>3, <1>4 DEF IInv

LEMMA TypeOKStep == AgentTypeOK /\ [AgentNext]_agentVars => AgentTypeOK'
<1> SUFFICES ASSUME AgentTypeOK, [AgentNext]_agentVars PROVE AgentTypeOK'
    OBVIOUS
<1> USE DEF AgentTypeOK, shared, worker, agentHistory
<1>0. Len(local) \in Nat
    BY LenProperties
<1>1. ASSUME NEW t \in Tasks, EnqueueInline(t) PROVE AgentTypeOK'
    BY <1>1, AppendProperties DEF EnqueueInline
<1>2. ASSUME NEW c \in Clients, NEW t \in Tasks, EnqueueAccepted(c, t)
      PROVE  AgentTypeOK'
    BY <1>2, AppendProperties DEF EnqueueAccepted
<1>3. ASSUME NEW c \in Clients, NEW t \in Tasks, EnqueueRejected(c, t)
      PROVE  AgentTypeOK'
    BY <1>3 DEF EnqueueRejected
<1>4. ASSUME NEW c \in Clients, NotifyOne(c) PROVE AgentTypeOK'
    BY <1>4 DEF NotifyOne, Wake
<1>5. CASE BeginShutdown
    BY <1>5 DEF BeginShutdown
<1>6. CASE NotifyAll
    BY <1>6 DEF NotifyAll, Wake
<1>7. CASE Join
    BY <1>7 DEF Join
<1>8. CASE SpuriousWakeup
    BY <1>8 DEF SpuriousWakeup, Wake
<1>9. CASE Sleep
    BY <1>9 DEF Sleep
<1>10. CASE Exit
    BY <1>10 DEF Exit
<1>11. CASE Swap
    <2>1. Len(pending) \in Nat
        BY LenProperties
    <2> QED BY <1>11, <2>1 DEF Swap
<1>12. CASE RunNext
    <2>1. next \in 1 .. Len(local) /\ next + 1 \in 1 .. Len(local) + 1
        BY <1>0, <1>12 DEF RunNext
    <2>2. local[next] \in Tasks
        BY <2>1, ElementOfSeq
    <2> QED BY <1>12, <2>1, <2>2, AppendProperties DEF RunNext
<1>13. CASE FinishTask
    <2>1. running[Len(running)] \in Tasks
          /\ SubSeq(running, 1, Len(running) - 1) \in Seq(Tasks)
        BY <1>13, RangeLast DEF FinishTask
    <2> QED BY <1>13, <2>1 DEF FinishTask
<1>14. CASE ClearLocal
    BY <1>14 DEF ClearLocal
<1>15. CASE UNCHANGED agentVars
    BY <1>15 DEF agentVars
<1> QED
    BY <1>1, <1>2, <1>3, <1>4, <1>5, <1>6, <1>7, <1>8, <1>9, <1>10, <1>11,
       <1>12, <1>13, <1>14, <1>15 DEF AgentNext, Enqueue, AgentStep

\* The order of the accepted tasks is disturbed by the four actions that move
\* a task from one segment to the next.
LEMMA OrderStep ==
    AgentTypeOK /\ LoopInv /\ AcceptedInOrder /\ [AgentNext]_agentVars => AcceptedInOrder'
<1> SUFFICES ASSUME AgentTypeOK, LoopInv, AcceptedInOrder, [AgentNext]_agentVars
             PROVE  AcceptedInOrder'
    OBVIOUS
<1> USE DEF AcceptedInOrder, Remaining
<1>0. /\ pending \in Seq(Tasks)
      /\ local \in Seq(Tasks)
      /\ started \in Seq(Tasks)
      /\ next \in 1 .. Len(local) + 1
      /\ Remaining \in Seq(Tasks)
    BY RemainingShape DEF AgentTypeOK
<1>1. ASSUME NEW c \in Clients, NEW t \in Tasks, EnqueueAccepted(c, t)
      PROVE  AcceptedInOrder'
    <2>1. Append(started \o Remaining \o pending, t)
            = started \o Remaining \o Append(pending, t)
        BY <1>0, AppendToThird
    <2> QED BY <1>1, <2>1 DEF EnqueueAccepted, worker
<1>2. CASE Swap
    <2>1. local = <<>> /\ next = 1
        BY <1>2 DEF Swap, LoopInv
    <2>2. Remaining = <<>>
        BY <1>0, <2>1, RemainingShape
    <2>3. SubSeq(pending, 1, Len(pending)) = pending
        BY <1>0, SubSeqFull
    <2>4. accepted = started \o pending
        BY <1>0, <2>2, ConcatEmptySeq
    <2>5. accepted = started \o pending \o <<>>
        BY <1>0, <2>4, ConcatProperties, ConcatEmptySeq
    <2> QED BY <1>2, <2>1, <2>3, <2>5 DEF Swap, agentHistory
<1>3. CASE RunNext
    <2>1. next \in 1 .. Len(local) + 1 /\ next <= Len(local)
        BY <1>0, <1>3 DEF RunNext
    <2>2. /\ Remaining = <<local[next]>> \o SubSeq(local, next + 1, Len(local))
          /\ local[next] \in Tasks
        BY <1>0, <2>1, RemainingShape
    <2>3. SubSeq(local, next + 1, Len(local)) \in Seq(Tasks)
        <3>1. Len(local) \in Nat
            BY <1>0, LenProperties
        <3>2. next + 1 \in 1 .. Len(local) + 1
            BY <2>1, <3>1
        <3> QED BY <1>0, <3>2, RemainingShape
    <2>4. started \o (<<local[next]>> \o SubSeq(local, next + 1, Len(local)))
            \o pending
          = Append(started, local[next]) \o SubSeq(local, next + 1, Len(local))
            \o pending
        BY <1>0, <2>2, <2>3, MoveToFirst
    <2> QED BY <1>3, <2>2, <2>4 DEF RunNext, shared
<1>4. CASE ClearLocal
    <2>1. next = Len(local) + 1
        <3>1. Len(local) \in Nat
            BY <1>0, LenProperties
        <3> QED BY <1>0, <1>4, <3>1 DEF ClearLocal
    <2>2. Remaining = <<>>
        BY <1>0, <2>1, RemainingShape
    <2>3. SubSeq(<<>>, 1, Len(<<>>)) = <<>>
        BY SubSeqFull
    <2> QED BY <1>4, <2>2, <2>3 DEF ClearLocal, shared, agentHistory
<1>5. ASSUME UNCHANGED <<pending, local, next, accepted, started>>
      PROVE  AcceptedInOrder'
    BY <1>5
<1>6. ASSUME \/ Sleep \/ Exit \/ FinishTask \/ BeginShutdown
             \/ NotifyAll \/ Join \/ SpuriousWakeup \/ UNCHANGED agentVars
             \/ \E c \in Clients : NotifyOne(c)
             \/ \E t \in Tasks : EnqueueInline(t)
             \/ \E c \in Clients, t \in Tasks : EnqueueRejected(c, t)
      PROVE  UNCHANGED <<pending, local, next, accepted, started>>
    BY <1>6 DEF Sleep, Exit, FinishTask, BeginShutdown, NotifyAll, Join,
                SpuriousWakeup, NotifyOne, EnqueueInline, EnqueueRejected,
                agentVars, shared, worker, agentHistory
<1> QED
    BY <1>1, <1>2, <1>3, <1>4, <1>5, <1>6 DEF AgentNext, Enqueue, AgentStep

LEMMA WakeupStep == AgentTypeOK /\ NoLostWakeup /\ [AgentNext]_agentVars => NoLostWakeup'
<1> SUFFICES ASSUME AgentTypeOK, NoLostWakeup, [AgentNext]_agentVars PROVE NoLostWakeup'
    OBVIOUS
<1> USE DEF NoLostWakeup, HasWork, AgentTypeOK
<1>1. ASSUME NEW c \in Clients, NEW t \in Tasks, EnqueueAccepted(c, t)
      PROVE  NoLostWakeup'
    BY <1>1 DEF EnqueueAccepted
<1>2. ASSUME NEW c \in Clients, NotifyOne(c) PROVE NoLostWakeup'
    BY <1>2 DEF NotifyOne, Wake
<1>3. CASE BeginShutdown
    BY <1>3 DEF BeginShutdown
<1>4. CASE NotifyAll
    BY <1>4 DEF NotifyAll, Wake
<1>5. CASE Sleep
    BY <1>5 DEF Sleep, shared
<1>6. CASE Exit \/ Swap \/ ClearLocal
    BY <1>6 DEF Exit, Swap, ClearLocal
<1>7. CASE RunNext
    BY <1>7 DEF RunNext, shared
<1>8. CASE FinishTask
    BY <1>8 DEF FinishTask, shared
<1>9. CASE SpuriousWakeup
    BY <1>9 DEF SpuriousWakeup, Wake
<1>10. CASE Join
    BY <1>10 DEF Join, shared, worker
<1>11. ASSUME NEW t \in Tasks, EnqueueInline(t) PROVE NoLostWakeup'
    BY <1>11 DEF EnqueueInline, shared
<1>12. ASSUME NEW c \in Clients, NEW t \in Tasks, EnqueueRejected(c, t)
       PROVE  NoLostWakeup'
    BY <1>12 DEF EnqueueRejected, shared, worker
<1>13. CASE UNCHANGED agentVars
    BY <1>13 DEF agentVars, shared, worker
<1> QED
    BY <1>1, <1>2, <1>3, <1>4, <1>5, <1>6, <1>7, <1>8, <1>9, <1>10, <1>11,
       <1>12, <1>13 DEF AgentNext, Enqueue, AgentStep

\* The control state of the agent and of the owner; none of it depends on
\* which tasks there are.
LEMMA ControlStep ==
    AgentTypeOK /\ LoopInv /\ GateInv /\ ExitInv /\ JoinInv /\ [AgentNext]_agentVars
        => LoopInv' /\ GateInv' /\ ExitInv' /\ JoinInv'
<1> SUFFICES ASSUME AgentTypeOK, LoopInv, GateInv, ExitInv, JoinInv, [AgentNext]_agentVars
             PROVE  LoopInv' /\ GateInv' /\ ExitInv' /\ JoinInv'
    OBVIOUS
<1> DEFINE Control == LoopInv /\ GateInv /\ ExitInv /\ JoinInv
<1> USE DEF LoopInv, GateInv, ExitInv, JoinInv, Drained, shared, worker
<1>1. ASSUME NEW c \in Clients, NEW t \in Tasks, EnqueueAccepted(c, t)
      PROVE  Control'
    BY <1>1 DEF EnqueueAccepted
<1>2. ASSUME NEW c \in Clients, NotifyOne(c) PROVE Control'
    BY <1>2 DEF NotifyOne, Wake
<1>3. CASE BeginShutdown
    BY <1>3 DEF BeginShutdown
<1>4. CASE NotifyAll
    BY <1>4 DEF NotifyAll, Wake
<1>5. CASE Sleep \/ Exit
    BY <1>5 DEF Sleep, Exit
<1>6. CASE Swap
    BY <1>6 DEF Swap
<1>7. CASE RunNext
    BY <1>7 DEF RunNext
<1>8. CASE FinishTask
    BY <1>8 DEF FinishTask
<1>9. CASE ClearLocal
    BY <1>9 DEF ClearLocal
<1>10. CASE SpuriousWakeup
    BY <1>10 DEF SpuriousWakeup, Wake
<1>11. CASE Join
    BY <1>11 DEF Join
<1>12. ASSUME NEW t \in Tasks, EnqueueInline(t) PROVE Control'
    BY <1>12 DEF EnqueueInline
<1>13. ASSUME NEW c \in Clients, NEW t \in Tasks, EnqueueRejected(c, t)
       PROVE  Control'
    BY <1>13 DEF EnqueueRejected
<1>14. CASE UNCHANGED agentVars
    BY <1>14 DEF agentVars
<1> QED
    BY <1>1, <1>2, <1>3, <1>4, <1>5, <1>6, <1>7, <1>8, <1>9, <1>10, <1>11,
       <1>12, <1>13, <1>14 DEF AgentNext, Enqueue, AgentStep

LEMMA WorkStep == AgentTypeOK /\ WorkInv /\ [AgentNext]_agentVars => WorkInv'
<1> SUFFICES ASSUME AgentTypeOK, WorkInv, [AgentNext]_agentVars PROVE WorkInv'
    OBVIOUS
<1> USE DEF WorkInv
<1>0. started \in Seq(Tasks) /\ running \in Seq(Tasks)
    BY DEF AgentTypeOK
<1>1. ASSUME NEW t \in Tasks, EnqueueInline(t) PROVE WorkInv'
    <2>1. Range(Append(running, t)) = Range(running) \cup {t}
        BY <1>0, RangeAppend
    <2>2. started' = started /\ finished' = finished
          /\ running' = Append(running, t) /\ nested' = nested \cup {t}
        BY <1>1 DEF EnqueueInline
    <2> QED BY <2>1, <2>2
<1>2. CASE RunNext
    <2>1. /\ running = <<>>
          /\ running' = <<local[next]>>
          /\ started' = Append(started, local[next])
          /\ nested' = nested /\ finished' = finished
          /\ next <= Len(local)
        BY <1>2 DEF RunNext
    <2>2. local[next] \in Tasks
        <3>1. Len(local) \in Nat
            BY LenProperties DEF AgentTypeOK
        <3>2. next \in 1 .. Len(local)
            BY <2>1, <3>1 DEF AgentTypeOK
        <3> QED BY <3>2, ElementOfSeq DEF AgentTypeOK
    <2>3. Range(Append(started, local[next])) = Range(started) \cup {local[next]}
        BY <1>0, <2>2, RangeAppend
    <2>4. Range(<<local[next]>>) = {local[next]} /\ Range(<<>>) = {}
        BY DEF Range
    <2> QED BY <2>1, <2>3, <2>4
<1>3. CASE FinishTask
    <2>1. /\ running # <<>>
          /\ finished' = finished \cup {running[Len(running)]}
          /\ running' = SubSeq(running, 1, Len(running) - 1)
          /\ started' = started /\ nested' = nested
        BY <1>3 DEF FinishTask
    <2>2. Range(running) = Range(SubSeq(running, 1, Len(running) - 1))
                             \cup {running[Len(running)]}
        BY <1>0, <2>1, RangeLast
    <2> QED BY <2>1, <2>2
<1>4. ASSUME UNCHANGED <<started, nested, finished, running>>
      PROVE  WorkInv'
    BY <1>4
<1>5. ASSUME \/ Sleep \/ Exit \/ Swap \/ ClearLocal \/ BeginShutdown
             \/ NotifyAll \/ Join \/ SpuriousWakeup \/ UNCHANGED agentVars
             \/ \E c \in Clients : NotifyOne(c)
             \/ \E c \in Clients, t \in Tasks :
                    EnqueueAccepted(c, t) \/ EnqueueRejected(c, t)
      PROVE  UNCHANGED <<started, nested, finished, running>>
    BY <1>5 DEF Sleep, Exit, Swap, ClearLocal, BeginShutdown, NotifyAll, Join,
                SpuriousWakeup, NotifyOne, EnqueueAccepted, EnqueueRejected,
                agentVars, shared, worker, agentHistory
<1> QED BY <1>1, <1>2, <1>3, <1>4, <1>5 DEF AgentNext, Enqueue, AgentStep

LEMMA StepIInv == IInv /\ [AgentNext]_agentVars => IInv'
BY TypeOKStep, OrderStep, WakeupStep, ControlStep, WorkStep DEF IInv

LEMMA Inductive == AgentSpec => []IInv
BY InitIInv, StepIInv, PTL DEF AgentSpec

-----------------------------------------------------------------------------
(* Safety *)

\* Every variable of the agent keeps its type.
THEOREM TypeCorrect == AgentSpec => []AgentTypeOK
<1>1. IInv => AgentTypeOK
    BY DEF IInv
<1> QED BY <1>1, Inductive, PTL

\* enqueue and run() lose, repeat and reorder no accepted task.
THEOREM FirstInFirstOut == AgentSpec => []AcceptedInOrder
<1>1. IInv => AcceptedInOrder
    BY DEF IInv
<1> QED BY <1>1, Inductive, PTL

\* The agent is never in cv_.wait with its predicate true and no notify to
\* come, although both enqueue and shutdown notify after they released the
\* mutex.
THEOREM WakeupsNotLost == AgentSpec => []NoLostWakeup
<1>1. IInv => NoLostWakeup
    BY DEF IInv
<1> QED BY <1>1, Inductive, PTL

\* When shutdown returns every task that enqueue accepted has run.
THEOREM ShutdownDrains == AgentSpec => []DrainedAtJoin
<1>1. IInv => DrainedAtJoin
    <2> SUFFICES ASSUME IInv, closer = "joined" PROVE DrainedAtJoin
        BY DEF DrainedAtJoin
    <2> USE DEF IInv
    <2>1. pending = <<>> /\ local = <<>> /\ next = 1 /\ running = <<>>
        BY DEF JoinInv, ExitInv, LoopInv, Drained
    <2>2. Remaining = <<>>
        BY <2>1, EmptySeq, RemainingShape DEF Remaining
    <2>3. accepted = started
        BY <2>1, <2>2, ConcatEmptySeq DEF AcceptedInOrder, AgentTypeOK
    <2>4. Range(running) = {}
        BY <2>1 DEF Range
    <2> QED BY <2>1, <2>3, <2>4 DEF DrainedAtJoin, WorkInv
<1> QED BY <1>1, Inductive, PTL

-----------------------------------------------------------------------------
(* Refinement of TaskQueue *)

LEMMA ContractInit == AgentInit => Contract!Init
<1> SUFFICES ASSUME AgentInit PROVE Contract!Init
    OBVIOUS
<1>1. Remaining = <<>> /\ Range(<<>>) = {}
    BY DEF AgentInit, Remaining, Range
<1>2. Remaining \o pending = <<>>
    BY <1>1 DEF AgentInit
<1> QED BY <1>1, <1>2 DEF AgentInit, Contract!Init

\* Steps that leave the abstract state alone.
LEMMA ContractStutter ==
    ASSUME IInv, UNCHANGED <<pending, local, next, running, accepted, nested,
                             finished, shutting_down>>,
           (agent' = "exited") <=> (agent = "exited")
    PROVE  UNCHANGED Contract!vars
BY DEF Contract!vars, Remaining

LEMMA ContractStep == IInv /\ [AgentNext]_agentVars => [Contract!Next]_(Contract!vars)
<1> SUFFICES ASSUME IInv, [AgentNext]_agentVars
             PROVE  Contract!Next \/ UNCHANGED Contract!vars
    OBVIOUS
<1>0. /\ AgentTypeOK /\ LoopInv /\ ExitInv /\ WorkInv /\ AcceptedInOrder
      /\ pending \in Seq(Tasks) /\ local \in Seq(Tasks)
      /\ running \in Seq(Tasks) /\ accepted \in Seq(Tasks)
      /\ next \in 1 .. Len(local) + 1
      /\ Remaining \in Seq(Tasks)
    BY RemainingShape DEF IInv, AgentTypeOK, Remaining
<1>1. ASSUME NEW c \in Clients, NEW t \in Tasks, EnqueueAccepted(c, t)
      PROVE  Contract!Post(t)
    <2>1. Append(Remaining \o pending, t) = Remaining \o Append(pending, t)
        BY <1>0, AppendToSecond
    <2>2. Range(Append(accepted, t)) = Range(accepted) \cup {t}
        BY <1>0, RangeAppend
    <2>3. /\ Remaining' = Remaining
          /\ pending' = Append(pending, t)
          /\ accepted' = Append(accepted, t)
          /\ ~shutting_down
          /\ UNCHANGED <<running, nested, finished, shutting_down, agent>>
        BY <1>1 DEF EnqueueAccepted, Remaining, worker
    <2>4. t \notin Range(accepted) \cup nested
        BY <1>1 DEF EnqueueAccepted, Unused
    <2> QED BY <2>1, <2>2, <2>3, <2>4 DEF Contract!Post
<1>2. ASSUME NEW t \in Tasks, EnqueueInline(t) PROVE Contract!Nest(t)
    <2>1. t \notin Range(accepted) \cup nested
        BY <1>2 DEF EnqueueInline, Unused
    <2>2. Remaining' = Remaining
        BY <1>2 DEF EnqueueInline, Remaining
    <2> QED BY <1>2, <2>1, <2>2 DEF EnqueueInline, Contract!Nest, shared
<1>3. ASSUME RunNext PROVE Contract!Begin
    <2>1. next <= Len(local) /\ next \in 1 .. Len(local) + 1
        BY <1>0, <1>3 DEF RunNext
    <2>2. Remaining = <<local[next]>> \o Remaining'
          /\ Remaining' \in Seq(Tasks) /\ local[next] \in Tasks
        <3>1. Len(local) \in Nat
            BY <1>0, LenProperties
        <3>2. next + 1 \in 1 .. Len(local) + 1
            BY <2>1, <3>1
        <3>3. Remaining' = SubSeq(local, next + 1, Len(local))
            BY <1>3 DEF RunNext, Remaining
        <3> QED BY <1>0, <2>1, <3>2, <3>3, RemainingShape DEF Remaining
    <2>3. Remaining \o pending = <<local[next]>> \o (Remaining' \o pending)
        <3>1. <<local[next]>> \in Seq(Tasks) /\ pending \in Seq(Tasks)
            BY <1>0, <2>2
        <3>2. PICK one : one = <<local[next]>>
            OBVIOUS
        <3>3. PICK rest : rest = Remaining'
            OBVIOUS
        <3>4. (one \o rest) \o pending = one \o (rest \o pending)
            BY <2>2, <3>1, <3>2, <3>3, ConcatAssociative
        <3> QED BY <2>2, <3>2, <3>3, <3>4
    <2>4. Remaining' \o pending \in Seq(Tasks)
        BY <1>0, <2>2, ConcatProperties
    <2>5. /\ Remaining \o pending # <<>>
          /\ Head(Remaining \o pending) = local[next]
          /\ Tail(Remaining \o pending) = Remaining' \o pending
        BY <2>2, <2>3, <2>4
    <2> QED BY <1>3, <2>5 DEF RunNext, Contract!Begin, shared
<1>4. ASSUME FinishTask PROVE Contract!End
    <2>1. Remaining' = Remaining
        BY <1>4 DEF FinishTask, Remaining
    <2> QED BY <1>4, <2>1 DEF FinishTask, Contract!End, shared
<1>5. ASSUME BeginShutdown PROVE Contract!Close
    <2>1. Remaining' = Remaining
        BY <1>5 DEF BeginShutdown, Remaining, worker
    <2> QED
        BY <1>5, <2>1 DEF BeginShutdown, Contract!Close, worker, agentHistory
<1>6. ASSUME Exit PROVE Contract!Retire
    <2>1. local = <<>> /\ next = 1 /\ running = <<>> /\ pending = <<>>
        BY <1>0, <1>6 DEF Exit, LoopInv, Drained
    <2>2. Remaining = <<>> /\ Remaining' = Remaining
        BY <1>0, <1>6, <2>1, EmptySeq, RemainingShape DEF Exit, Remaining
    <2>3. accepted = started
        BY <1>0, <2>1, <2>2, ConcatEmptySeq DEF AcceptedInOrder, AgentTypeOK
    <2>4. Range(accepted) \cup nested = finished
        <3>1. Range(running) = {}
            BY <2>1 DEF Range
        <3> QED BY <1>0, <2>3, <3>1 DEF WorkInv
    <2> QED
        BY <1>6, <2>2, <2>4 DEF Exit, Drained, Contract!Retire, shared, agentHistory
<1>7. ASSUME Swap PROVE UNCHANGED Contract!vars
    <2>1. local = <<>> /\ next = 1
        BY <1>0, <1>7 DEF Swap, LoopInv
    <2>2. Remaining = <<>> /\ Remaining' = pending /\ pending' = <<>>
        BY <1>0, <1>7, <2>1, RemainingShape, SubSeqFull DEF Swap, Remaining
    <2>3. Remaining \o pending = pending /\ Remaining' \o pending' = pending
        BY <1>0, <2>2, ConcatEmptySeq
    <2> QED BY <1>7, <2>3 DEF Swap, Contract!vars, agentHistory
<1>8. ASSUME ClearLocal PROVE UNCHANGED Contract!vars
    <2>1. next = Len(local) + 1
        <3>1. Len(local) \in Nat
            BY <1>0, LenProperties
        <3> QED BY <1>0, <1>8, <3>1 DEF ClearLocal
    <2>2. Remaining = <<>> /\ Remaining' = <<>>
        BY <1>0, <1>8, <2>1, RemainingShape, SubSeqFull DEF ClearLocal, Remaining
    <2> QED BY <1>8, <2>2 DEF ClearLocal, Contract!vars, shared, agentHistory
<1>9. ASSUME \/ Sleep \/ NotifyAll \/ Join \/ SpuriousWakeup
             \/ UNCHANGED agentVars
             \/ \E c \in Clients : NotifyOne(c)
             \/ \E c \in Clients, t \in Tasks : EnqueueRejected(c, t)
      PROVE  UNCHANGED Contract!vars
    <2>1. /\ UNCHANGED <<pending, local, next, running, accepted, nested,
                         finished, shutting_down>>
          /\ (agent' = "exited") <=> (agent = "exited")
        BY <1>9 DEF Sleep, NotifyAll, Join, SpuriousWakeup, NotifyOne, Wake,
                    EnqueueRejected, agentVars, shared, worker, agentHistory
    <2> QED BY <2>1, ContractStutter
<1> QED
    BY <1>1, <1>2, <1>3, <1>4, <1>5, <1>6, <1>7, <1>8, <1>9
    DEF AgentNext, Enqueue, AgentStep, Contract!Next

\* The agent implements the task queue its clients rely on: the queue is the
\* uncalled part of local followed by pending_, and the gate is
\* shutting_down_.
THEOREM HostAgentIsATaskQueue == AgentSpec => ImplementsContract
<1>1. AgentSpec => AgentInit /\ [][AgentNext]_agentVars
    BY DEF AgentSpec
<1> QED
    BY <1>1, ContractInit, ContractStep, Inductive, PTL
    DEF ImplementsContract, Contract!Spec

-----------------------------------------------------------------------------
(* Schedule operations and those who wait for them *)

ScheduleTypes ==
    /\ ScheduleTypeOK
    /\ parent \in [Callers -> {"sync_wait", "detached"}]
    /\ stateless \subseteq Callers
    /\ stopped \in [Callers -> BOOLEAN]
    /\ loopDone \in [Callers -> BOOLEAN]
    /\ hostQueue \in Seq(Callers)
    /\ hostPosted \subseteq Callers
    /\ hostClosed \in BOOLEAN

\* A task waits once, until the agent runs it, and one runs at a time; nobody
\* completes a waiting one.
TasksInv ==
    /\ \A i \in DOMAIN hostQueue :
        /\ hostQueue[i] \in hostPosted /\ signals[hostQueue[i]] = <<>>
        /\ \A k \in DOMAIN hostQueue : i # k => hostQueue[i] # hostQueue[k]
    /\ hostStack # <<>> => \E c \in hostPosted :
        hostStack = <<c>> /\ \A i \in DOMAIN hostQueue : hostQueue[i] # c

\* The thread at its place: what was posted, sent and destroyed there.
PlaceOf(c) ==
    /\ op[c] = "none" <=> stage[c] = "connect"
    /\ stage[c] \in {"connect", "start", "enqueue", "refused"} =>
        c \notin hostPosted /\ signals[c] = <<>>
    /\ stage[c] = "notify" => c \in hostPosted
    /\ c \in hostPosted \/ stage[c] \in {"enqueue", "refused"} => c \notin stateless
    /\ stage[c] = "returned" /\ parent[c] = "sync_wait" => loopDone[c]

\* The two ends of an operation: who waits is told, who does not is destroyed.
EndOf(c) ==
    /\ Len(signals[c]) <= 1
    /\ signals[c] = <<"value">> => c \in hostPosted
    /\ op[c] = "destroyed" => signals[c] # <<>>
    /\ parent[c] = "detached" => (op[c] = "alive" => signals[c] = <<>>)
    /\ parent[c] = "sync_wait" =>
        /\ op[c] = "destroyed" => stage[c] = "returned"
        /\ loopDone[c] => \/ signals[c] = <<result[c]>>
                          \/ signals[c] = <<"value">> /\ result[c] = "error"
    /\ loopDone[c] => parent[c] = "sync_wait"

\* The runtime is held by every operation that has a context and by every call
\* into it, and is closed when nobody holds it any more.
HandlesInv ==
    /\ \A c \in Callers :
        /\ OpHandle(c) \in opHolders <=> op[c] = "alive" /\ c \notin stateless
        /\ CallHandle(c) \in opHolders <=> stage[c] \in {"enqueue", "notify"}
        /\ stage[c] = "connect" => User \in opHolders
    /\ hostClosed => opHolders = {}

ScheduleIInv ==
    /\ ScheduleTypes
    /\ TasksInv
    /\ \A c \in Callers : PlaceOf(c) /\ EndOf(c)
    /\ HandlesInv

\* The handles of different callers, and of an operation and a call, differ.
LEMMA HandlesDistinct ==
    ASSUME NEW c \in Callers, NEW d \in Callers
    PROVE  /\ OpHandle(c) = OpHandle(d) <=> c = d
           /\ CallHandle(c) = CallHandle(d) <=> c = d
           /\ OpHandle(c) # CallHandle(d)
           /\ OpHandle(c) # User /\ CallHandle(c) # User
BY DEF OpHandle, CallHandle, User

\* A completion is written down, and ends the wait or the operation.
LEMMA OneSignal ==
    \A x, y : /\ Len(<<x>>) = 1 /\ <<x>> # <<>> /\ Len(<<>>) = 0
              /\ <<x>> = <<y>> => x = y
OBVIOUS

Delivered(c, s) ==
    /\ signals' \in [Callers -> Seq({"value", "error", "stopped"})]
    /\ result' \in [Callers -> {"none", "value", "error", "stopped"}]
    /\ loopDone' \in [Callers -> BOOLEAN]
    /\ op' \in [Callers -> {"none", "alive", "destroyed"}]
    /\ opHolders' \subseteq opHolders
    /\ signals'[c] = <<s>>
    /\ Len(signals'[c]) = 1 /\ signals'[c] # <<>>
    /\ \A d \in Callers \ {c} :
         /\ signals'[d] = signals[d] /\ result'[d] = result[d]
         /\ loopDone'[d] = loopDone[d] /\ op'[d] = op[d]
         /\ OpHandle(d) \in opHolders' <=> OpHandle(d) \in opHolders
    /\ \A d \in Callers : CallHandle(d) \in opHolders' <=> CallHandle(d) \in opHolders
    /\ User \in opHolders' <=> User \in opHolders
    /\ parent[c] = "sync_wait" =>
         /\ loopDone'[c] /\ op'[c] = op[c]
         /\ OpHandle(c) \in opHolders' <=> OpHandle(c) \in opHolders
         /\ result'[c] = s \/ (s = "value" /\ result'[c] = "error")
    /\ parent[c] = "detached" =>
         /\ op'[c] = "destroyed" /\ OpHandle(c) \notin opHolders'
         /\ loopDone'[c] = loopDone[c]

\* A completion writes that down, whichever way the caller waits.
LEMMA DeliverFacts ==
    ASSUME ScheduleIInv, NEW c \in Callers, NEW s \in {"value", "error", "stopped"},
           signals[c] = <<>>, Deliver(c, s)
    PROVE  Delivered(c, s)
<1> USE DEF ScheduleIInv, ScheduleTypes, ScheduleTypeOK, Deliver, Written
<1>1. signals'[c] = Append(<<>>, s)
    OBVIOUS
<1>2. signals'[c] = <<s>> /\ Len(signals'[c]) = 1 /\ signals'[c] # <<>>
    <2>1. Append(<<>>, s) = <<s>> /\ Len(<<s>>) = 1 /\ <<s>> # <<>>
        OBVIOUS
    <2> QED BY <1>1, <2>1, Zenon
<1>3. signals' \in [Callers -> Seq({"value", "error", "stopped"})]
    OBVIOUS
<1>4. /\ result' \in [Callers -> {"none", "value", "error", "stopped"}]
      /\ loopDone' \in [Callers -> BOOLEAN]
      /\ op' \in [Callers -> {"none", "alive", "destroyed"}]
    <2>1. CASE parent[c] = "sync_wait"
        <3>1. PICK r \in Written(s) : result' = [result EXCEPT ![c] = r]
            BY <2>1
        <3>2. r \in {"value", "error", "stopped"}
            OBVIOUS
        <3>3. loopDone' = [loopDone EXCEPT ![c] = TRUE] /\ op' = op
            BY <2>1
        <3> HIDE DEF Deliver
        <3> QED BY <3>1, <3>2, <3>3
    <2>2. CASE parent[c] = "detached"
        BY <2>2
    <2> QED BY <2>1, <2>2
<1>5. \A d \in Callers \ {c} :
        /\ signals'[d] = signals[d] /\ result'[d] = result[d]
        /\ loopDone'[d] = loopDone[d] /\ op'[d] = op[d]
        /\ OpHandle(d) \in opHolders' <=> OpHandle(d) \in opHolders
    BY HandlesDistinct
<1>6. /\ opHolders' \subseteq opHolders
      /\ \A d \in Callers : CallHandle(d) \in opHolders' <=> CallHandle(d) \in opHolders
      /\ User \in opHolders' <=> User \in opHolders
    <2>1. opHolders' = opHolders \/ opHolders' = opHolders \ {OpHandle(c)}
        OBVIOUS
    <2> HIDE DEF ScheduleIInv, Deliver
    <2> QED BY <2>1, HandlesDistinct
<1>7. ASSUME parent[c] = "sync_wait"
      PROVE  /\ loopDone'[c] /\ op'[c] = op[c]
             /\ OpHandle(c) \in opHolders' <=> OpHandle(c) \in opHolders
             /\ result'[c] = s \/ (s = "value" /\ result'[c] = "error")
    BY <1>7
<1>8. ASSUME parent[c] = "detached"
      PROVE  /\ op'[c] = "destroyed" /\ OpHandle(c) \notin opHolders'
             /\ loopDone'[c] = loopDone[c]
    BY <1>8
<1> HIDE DEF ScheduleIInv, ScheduleTypes, ScheduleTypeOK, Deliver, Written
<1> QED BY <1>2, <1>3, <1>4, <1>5, <1>6, <1>7, <1>8, Zenon DEF Delivered


\* Whoever completes an operation, its ends stay together: every operation has
\* been told at most once, and truly.
LEMMA DeliverEnds ==
    ASSUME ScheduleIInv, NEW c \in Callers, NEW s \in {"value", "error", "stopped"},
           signals[c] = <<>>, Delivered(c, s), s = "value" => c \in hostPosted,
           UNCHANGED <<parent, hostPosted>>,
           \A d \in Callers \ {c} : stage'[d] = stage[d],
           NEW d \in Callers
    PROVE  EndOf(d)'
<1> USE DEF ScheduleIInv, Delivered
<1>1. CASE d # c
    <2>1. /\ signals'[d] = signals[d] /\ result'[d] = result[d]
          /\ loopDone'[d] = loopDone[d] /\ op'[d] = op[d]
          /\ stage'[d] = stage[d] /\ parent'[d] = parent[d] /\ hostPosted' = hostPosted
        BY <1>1
    <2>2. EndOf(d)
        OBVIOUS
    <2> HIDE DEF ScheduleIInv, Delivered
    <2> QED BY <2>1, <2>2 DEF EndOf
<1>2. CASE d = c
    <2>1. /\ \A x : signals[c] # <<x>>
          /\ Len(signals'[c]) <= 1 /\ signals'[c] # <<>>
          /\ signals'[c] = <<"value">> => s = "value"
          /\ signals'[c] = <<s>>
        BY OneSignal
    <2>2. op[c] # "destroyed" /\ ~ loopDone[c]
        BY <2>1 DEF EndOf
    <2>3. CASE parent[c] = "sync_wait"
        <3>1. /\ parent'[c] = "sync_wait" /\ op'[c] # "destroyed"
              /\ result'[c] = s \/ (s = "value" /\ result'[c] = "error")
            BY <2>2, <2>3
        <3>2. signals'[c] = <<"value">> => c \in hostPosted'
            BY <2>1
        <3> HIDE DEF ScheduleIInv, Delivered
        <3> QED BY <1>2, <2>1, <3>1, <3>2 DEF EndOf
    <2>4. CASE parent[c] = "detached"
        <3>1. parent'[c] = "detached" /\ op'[c] = "destroyed" /\ ~ loopDone'[c]
            BY <2>2, <2>4 DEF ScheduleTypes
        <3>2. signals'[c] = <<"value">> => c \in hostPosted'
            BY <2>1
        <3> HIDE DEF ScheduleIInv, Delivered
        <3> QED BY <1>2, <2>1, <3>1, <3>2 DEF EndOf
    <2> QED BY <2>3, <2>4 DEF ScheduleTypes
<1> QED BY <1>1, <1>2

\* One lemma per action: each keeps the invariant.
LEMMA ConnectKeeps ==
    ASSUME ScheduleIInv, NEW c \in Callers, Connect(c)
    PROVE  ScheduleIInv'
<1> USE DEF ScheduleIInv, Connect, Goes, agentQueue
<1>1. ScheduleTypes'
    <2>1. OpHandle(c) \in {OpHandle(d) : d \in Callers}
        OBVIOUS
    <2>2. opHolders' \subseteq {User} \cup {OpHandle(d) : d \in Callers} \cup {CallHandle(d) : d \in Callers}
        BY <2>1 DEF ScheduleTypes, ScheduleTypeOK
    <2> QED BY <2>2 DEF ScheduleTypes, ScheduleTypeOK
<1>2. TasksInv'
    BY DEF TasksInv, PlaceOf, ScheduleTypes, ScheduleTypeOK
<1>3. ASSUME NEW d \in Callers PROVE PlaceOf(d)'
    BY DEF PlaceOf, EndOf, ScheduleTypes, ScheduleTypeOK
<1>4. ASSUME NEW d \in Callers PROVE EndOf(d)'
    BY DEF EndOf, PlaceOf, ScheduleTypes, ScheduleTypeOK
<1>5. HandlesInv'
    BY HandlesDistinct DEF HandlesInv, PlaceOf, EndOf, ScheduleTypes, ScheduleTypeOK
<1> QED BY <1>1, <1>2, <1>3, <1>4, <1>5

\* A stop request, or a scheduler without a context, ends the operation in
\* start.
LEMMA StartInlineKeeps ==
    ASSUME ScheduleIInv, NEW c \in Callers, StartInline(c)
    PROVE  ScheduleIInv'
<1> USE DEF ScheduleIInv, StartInline, Goes, agentQueue
<1> DEFINE s == IF stopped[c] THEN "stopped" ELSE "error"
<1>a. c \notin hostPosted /\ signals[c] = <<>> /\ s \in {"value", "error", "stopped"}
    BY DEF PlaceOf
<1>b. /\ Delivered(c, s) /\ s # "value"
      /\ stage[c] = "start" /\ stage' = [stage EXCEPT ![c] = "started"]
      /\ UNCHANGED <<parent, stateless, stopped, hostQueue, hostStack, hostPosted, hostClosed>>
    BY <1>a, DeliverFacts
<1> HIDE DEF StartInline, s
<1>1. ScheduleTypes'
    BY <1>a, <1>b DEF Delivered, ScheduleTypes, ScheduleTypeOK
<1>2. TasksInv'
    BY <1>a, <1>b DEF Delivered, TasksInv, ScheduleTypes, ScheduleTypeOK
<1>3. ASSUME NEW d \in Callers PROVE PlaceOf(d)'
    BY <1>a, <1>b DEF Delivered, PlaceOf, ScheduleTypes, ScheduleTypeOK
<1>4. ASSUME NEW d \in Callers PROVE EndOf(d)'
    <2>1. \A e \in Callers \ {c} : stage'[e] = stage[e]
        BY <1>a, <1>b DEF ScheduleTypes, ScheduleTypeOK
    <2> QED BY <1>a, <1>b, <2>1, DeliverEnds
<1>5. HandlesInv'
    BY <1>a, <1>b DEF Delivered, HandlesInv, PlaceOf, EndOf, ScheduleTypes, ScheduleTypeOK
<1> QED BY <1>1, <1>2, <1>3, <1>4, <1>5

\* The call into the runtime takes a handle of its own.
LEMMA EnterEnqueueKeeps ==
    ASSUME ScheduleIInv, NEW c \in Callers, EnterEnqueue(c)
    PROVE  ScheduleIInv'
<1> USE DEF ScheduleIInv, EnterEnqueue, Goes, agentQueue
<1>1. ScheduleTypes'
    BY HandlesDistinct DEF ScheduleTypes, ScheduleTypeOK
<1>2. TasksInv'
    BY DEF TasksInv, PlaceOf, ScheduleTypes, ScheduleTypeOK
<1>3. ASSUME NEW d \in Callers PROVE PlaceOf(d)'
    BY DEF PlaceOf, EndOf, ScheduleTypes, ScheduleTypeOK
<1>4. ASSUME NEW d \in Callers PROVE EndOf(d)'
    BY DEF EndOf, PlaceOf, ScheduleTypes, ScheduleTypeOK
<1>5. HandlesInv'
    BY HandlesDistinct DEF HandlesInv, PlaceOf, EndOf, ScheduleTypes, ScheduleTypeOK
<1> QED BY <1>1, <1>2, <1>3, <1>4, <1>5

\* A posted task is a new one: its caller posts once.
LEMMA PostTaskKeeps ==
    ASSUME ScheduleIInv, NEW c \in Callers, PostTask(c)
    PROVE  ScheduleIInv'
<1> USE DEF ScheduleIInv, PostTask, Goes, agentQueue, Host!Post
<1>a. hostQueue \in Seq(Callers)
    BY DEF ScheduleTypes
<1>1. ScheduleTypes'
    BY <1>a, AppendProperties DEF ScheduleTypes, ScheduleTypeOK
<1>2. TasksInv'
    BY DEF TasksInv, PlaceOf, ScheduleTypes, ScheduleTypeOK
<1>3. ASSUME NEW d \in Callers PROVE PlaceOf(d)'
    BY DEF PlaceOf, EndOf, ScheduleTypes, ScheduleTypeOK
<1>4. ASSUME NEW d \in Callers PROVE EndOf(d)'
    BY DEF EndOf, PlaceOf, ScheduleTypes, ScheduleTypeOK
<1>5. HandlesInv'
    BY HandlesDistinct DEF HandlesInv, PlaceOf, EndOf, ScheduleTypes, ScheduleTypeOK
<1> QED BY <1>1, <1>2, <1>3, <1>4, <1>5

\* A task that cannot be made is not posted, and the call gives back its
\* handle.
LEMMA FailToPostKeeps ==
    ASSUME ScheduleIInv, NEW c \in Callers, FailToPost(c)
    PROVE  ScheduleIInv'
<1> USE DEF ScheduleIInv, FailToPost, Goes, agentQueue
<1>1. ScheduleTypes'
    BY HandlesDistinct DEF ScheduleTypes, ScheduleTypeOK
<1>2. TasksInv'
    BY DEF TasksInv, PlaceOf, ScheduleTypes, ScheduleTypeOK
<1>3. ASSUME NEW d \in Callers PROVE PlaceOf(d)'
    BY DEF PlaceOf, EndOf, ScheduleTypes, ScheduleTypeOK
<1>4. ASSUME NEW d \in Callers PROVE EndOf(d)'
    BY DEF EndOf, PlaceOf, ScheduleTypes, ScheduleTypeOK
<1>5. HandlesInv'
    BY HandlesDistinct DEF HandlesInv, PlaceOf, EndOf, ScheduleTypes, ScheduleTypeOK
<1> QED BY <1>1, <1>2, <1>3, <1>4, <1>5

\* The call returns its handle; the operation may be gone by then.
LEMMA ReturnQueuedKeeps ==
    ASSUME ScheduleIInv, NEW c \in Callers, ReturnQueued(c)
    PROVE  ScheduleIInv'
<1> USE DEF ScheduleIInv, ReturnQueued, Goes, agentQueue
<1>1. ScheduleTypes'
    BY HandlesDistinct DEF ScheduleTypes, ScheduleTypeOK
<1>2. TasksInv'
    BY DEF TasksInv, PlaceOf, ScheduleTypes, ScheduleTypeOK
<1>3. ASSUME NEW d \in Callers PROVE PlaceOf(d)'
    BY DEF PlaceOf, EndOf, ScheduleTypes, ScheduleTypeOK
<1>4. ASSUME NEW d \in Callers PROVE EndOf(d)'
    BY DEF EndOf, PlaceOf, ScheduleTypes, ScheduleTypeOK
<1>5. HandlesInv'
    BY HandlesDistinct DEF HandlesInv, PlaceOf, EndOf, ScheduleTypes, ScheduleTypeOK
<1> QED BY <1>1, <1>2, <1>3, <1>4, <1>5

\* A refused call completes its operation with an error.
LEMMA ReturnRefusedKeeps ==
    ASSUME ScheduleIInv, NEW c \in Callers, ReturnRefused(c)
    PROVE  ScheduleIInv'
<1> USE DEF ScheduleIInv, ReturnRefused, Goes, agentQueue
<1> DEFINE s == "error"
<1>a. c \notin hostPosted /\ signals[c] = <<>> /\ s \in {"value", "error", "stopped"}
    BY DEF PlaceOf
<1>b. /\ Delivered(c, s) /\ s # "value"
      /\ stage[c] = "refused" /\ stage' = [stage EXCEPT ![c] = "started"]
      /\ UNCHANGED <<parent, stateless, stopped, hostQueue, hostStack, hostPosted, hostClosed>>
    BY <1>a, DeliverFacts
<1> HIDE DEF ReturnRefused, s
<1>1. ScheduleTypes'
    BY <1>a, <1>b DEF Delivered, ScheduleTypes, ScheduleTypeOK
<1>2. TasksInv'
    BY <1>a, <1>b DEF Delivered, TasksInv, ScheduleTypes, ScheduleTypeOK
<1>3. ASSUME NEW d \in Callers PROVE PlaceOf(d)'
    BY <1>a, <1>b DEF Delivered, PlaceOf, ScheduleTypes, ScheduleTypeOK
<1>4. ASSUME NEW d \in Callers PROVE EndOf(d)'
    <2>1. \A e \in Callers \ {c} : stage'[e] = stage[e]
        BY <1>a, <1>b DEF ScheduleTypes, ScheduleTypeOK
    <2> QED BY <1>a, <1>b, <2>1, DeliverEnds
<1>5. HandlesInv'
    BY <1>a, <1>b DEF Delivered, HandlesInv, PlaceOf, EndOf, ScheduleTypes, ScheduleTypeOK
<1> QED BY <1>1, <1>2, <1>3, <1>4, <1>5

\* The loop that waits ends on a completion, and only then destroys the
\* operation.
LEMMA LeaveLoopKeeps ==
    ASSUME ScheduleIInv, NEW c \in Callers, LeaveLoop(c)
    PROVE  ScheduleIInv'
<1> USE DEF ScheduleIInv, LeaveLoop, Goes, agentQueue
<1>1. ScheduleTypes'
    BY HandlesDistinct DEF ScheduleTypes, ScheduleTypeOK
<1>2. TasksInv'
    BY DEF TasksInv, PlaceOf, ScheduleTypes, ScheduleTypeOK
<1>3. ASSUME NEW d \in Callers PROVE PlaceOf(d)'
    BY DEF PlaceOf, EndOf, ScheduleTypes, ScheduleTypeOK
<1>4. ASSUME NEW d \in Callers PROVE EndOf(d)'
    <2>1. CASE d # c
        BY <2>1 DEF EndOf, ScheduleTypes, ScheduleTypeOK
    <2>2. CASE d = c
        <3>1. signals[c] = <<result[c]>> \/ signals[c] = <<"value">>
            BY DEF EndOf
        <3>2. signals[c] # <<>>
            BY <3>1, OneSignal, Zenon
        <3> QED BY <2>2, <3>2 DEF EndOf, ScheduleTypes, ScheduleTypeOK
    <2> QED BY <2>1, <2>2
<1>5. HandlesInv'
    BY HandlesDistinct DEF HandlesInv, PlaceOf, EndOf, ScheduleTypes, ScheduleTypeOK
<1> QED BY <1>1, <1>2, <1>3, <1>4, <1>5

\* A caller that does not wait leaves its operation behind.
LEMMA LeaveDetachedKeeps ==
    ASSUME ScheduleIInv, NEW c \in Callers, LeaveDetached(c)
    PROVE  ScheduleIInv'
<1> USE DEF ScheduleIInv, LeaveDetached, Goes, agentQueue
<1>1. ScheduleTypes'
    BY HandlesDistinct DEF ScheduleTypes, ScheduleTypeOK
<1>2. TasksInv'
    BY DEF TasksInv, PlaceOf, ScheduleTypes, ScheduleTypeOK
<1>3. ASSUME NEW d \in Callers PROVE PlaceOf(d)'
    BY DEF PlaceOf, EndOf, ScheduleTypes, ScheduleTypeOK
<1>4. ASSUME NEW d \in Callers PROVE EndOf(d)'
    BY DEF EndOf, PlaceOf, ScheduleTypes, ScheduleTypeOK
<1>5. HandlesInv'
    BY HandlesDistinct DEF HandlesInv, PlaceOf, EndOf, ScheduleTypes, ScheduleTypeOK
<1> QED BY <1>1, <1>2, <1>3, <1>4, <1>5

\* The agent takes the oldest task, which waits no more.
LEMMA BeginTaskKeeps ==
    ASSUME ScheduleIInv, BeginTask
    PROVE  ScheduleIInv'
<1> USE DEF ScheduleIInv, BeginTask, opVars, Host!Begin
<1>a. hostQueue \in Seq(Callers) /\ hostQueue # <<>>
    BY DEF ScheduleTypes
<1>1. ScheduleTypes'
    BY <1>a, HeadTailProperties DEF ScheduleTypes, ScheduleTypeOK
<1>2. TasksInv'
    BY DEF TasksInv, PlaceOf, ScheduleTypes, ScheduleTypeOK
<1>3. ASSUME NEW d \in Callers PROVE PlaceOf(d)'
    BY DEF PlaceOf, EndOf, ScheduleTypes, ScheduleTypeOK
<1>4. ASSUME NEW d \in Callers PROVE EndOf(d)'
    BY DEF EndOf, PlaceOf, ScheduleTypes, ScheduleTypeOK
<1>5. HandlesInv'
    BY HandlesDistinct DEF HandlesInv, PlaceOf, EndOf, ScheduleTypes, ScheduleTypeOK
<1> QED BY <1>1, <1>2, <1>3, <1>4, <1>5

\* The task completes the operation of its caller, once.
LEMMA CompleteTaskKeeps ==
    ASSUME ScheduleIInv, CompleteTask
    PROVE  ScheduleIInv'
<1> USE DEF ScheduleIInv, CompleteTask
<1> DEFINE c == Head(hostStack)
           s == IF stopped[c] THEN "stopped" ELSE "value"
<1>a. /\ c \in hostPosted /\ c \in Callers /\ signals[c] = <<>>
      /\ s \in {"value", "error", "stopped"}
      /\ \A i \in DOMAIN hostQueue : hostQueue[i] # c
    <2>1. PICK d \in hostPosted : hostStack = <<d>> /\ \A i \in DOMAIN hostQueue : hostQueue[i] # d
        BY DEF TasksInv
    <2> QED BY <2>1 DEF ScheduleTypes
<1>b. Delivered(c, s)
    BY <1>a, DeliverFacts
<1>c. UNCHANGED <<parent, stateless, stage, stopped, hostQueue, hostStack, hostPosted,
                  hostDone, hostClosed, hostGone>>
    BY DEF agentQueue
<1> HIDE DEF CompleteTask, c, s
<1>1. ScheduleTypes'
    BY <1>a, <1>b, <1>c DEF Delivered, ScheduleTypes, ScheduleTypeOK
<1>2. TasksInv'
    BY <1>a, <1>b, <1>c DEF Delivered, TasksInv, ScheduleTypes, ScheduleTypeOK
<1>3. ASSUME NEW d \in Callers PROVE PlaceOf(d)'
    BY <1>a, <1>b, <1>c DEF Delivered, PlaceOf, ScheduleTypes, ScheduleTypeOK
<1>4. ASSUME NEW d \in Callers PROVE EndOf(d)'
    <2>1. \A e \in Callers \ {c} : stage'[e] = stage[e]
        BY <1>a, <1>b, <1>c DEF ScheduleTypes, ScheduleTypeOK
    <2> QED BY <1>a, <1>b, <1>c, <2>1, DeliverEnds
<1>5. HandlesInv'
    <2>1. ASSUME NEW d \in Callers, d # c
          PROVE  OpHandle(d) \in opHolders' <=> op'[d] = "alive" /\ d \notin stateless'
        BY <1>a, <1>b, <1>c, <2>1 DEF Delivered, HandlesInv
    <2>2. OpHandle(c) \in opHolders' <=> op'[c] = "alive" /\ c \notin stateless'
        <3>1. parent[c] = "sync_wait" \/ parent[c] = "detached"
            BY <1>a DEF ScheduleTypes
        <3> QED BY <1>a, <1>b, <1>c, <3>1 DEF Delivered, HandlesInv
    <2>3. ASSUME NEW d \in Callers
          PROVE  /\ CallHandle(d) \in opHolders' <=> stage'[d] \in {"enqueue", "notify"}
                 /\ stage'[d] = "connect" => User \in opHolders'
        BY <1>a, <1>b, <1>c DEF Delivered, HandlesInv
    <2>4. hostClosed' => opHolders' = {}
        BY <1>a, <1>b, <1>c DEF Delivered, HandlesInv
    <2> QED BY <2>1, <2>2, <2>3, <2>4 DEF HandlesInv
<1> QED BY <1>1, <1>2, <1>3, <1>4, <1>5

\* A task that has completed its operation leaves the stack.
LEMMA EndTaskKeeps ==
    ASSUME ScheduleIInv, EndTask
    PROVE  ScheduleIInv'
<1> USE DEF ScheduleIInv, EndTask, opVars, Host!End
<1>1. ScheduleTypes'
    BY HandlesDistinct DEF ScheduleTypes, ScheduleTypeOK
<1>2. TasksInv'
    <2>1. PICK c \in hostPosted : hostStack = <<c>>
        BY DEF TasksInv
    <2>2. hostStack' = <<>>
        <3>1. Len(<<c>>) - 1 = 0 /\ SubSeq(<<c>>, 1, 0) = <<>>
            BY SubSeqEmpty
        <3> QED BY <2>1, <3>1
    <2> QED BY <2>2 DEF TasksInv
<1>3. ASSUME NEW d \in Callers PROVE PlaceOf(d)'
    BY DEF PlaceOf, EndOf, ScheduleTypes, ScheduleTypeOK
<1>4. ASSUME NEW d \in Callers PROVE EndOf(d)'
    BY DEF EndOf, PlaceOf, ScheduleTypes, ScheduleTypeOK
<1>5. HandlesInv'
    BY HandlesDistinct DEF HandlesInv, PlaceOf, EndOf, ScheduleTypes, ScheduleTypeOK
<1> QED BY <1>1, <1>2, <1>3, <1>4, <1>5

\* A stop request completes nothing.
LEMMA RequestStopKeeps ==
    ASSUME ScheduleIInv, NEW c \in Callers, RequestStopOf(c)
    PROVE  ScheduleIInv'
<1> USE DEF ScheduleIInv, RequestStopOf, Goes, agentQueue
<1>1. ScheduleTypes'
    BY HandlesDistinct DEF ScheduleTypes, ScheduleTypeOK
<1>2. TasksInv'
    BY DEF TasksInv, PlaceOf, ScheduleTypes, ScheduleTypeOK
<1>3. ASSUME NEW d \in Callers PROVE PlaceOf(d)'
    BY DEF PlaceOf, EndOf, ScheduleTypes, ScheduleTypeOK
<1>4. ASSUME NEW d \in Callers PROVE EndOf(d)'
    BY DEF EndOf, PlaceOf, ScheduleTypes, ScheduleTypeOK
<1>5. HandlesInv'
    BY HandlesDistinct DEF HandlesInv, PlaceOf, EndOf, ScheduleTypes, ScheduleTypeOK
<1> QED BY <1>1, <1>2, <1>3, <1>4, <1>5

\* The user lets the runtime go; operations keep it.
LEMMA DropContextKeeps ==
    ASSUME ScheduleIInv, DropContext
    PROVE  ScheduleIInv'
<1> USE DEF ScheduleIInv, DropContext, Goes, agentQueue, opVars
<1>1. ScheduleTypes'
    BY HandlesDistinct DEF ScheduleTypes, ScheduleTypeOK
<1>2. TasksInv'
    BY DEF TasksInv, PlaceOf, ScheduleTypes, ScheduleTypeOK
<1>3. ASSUME NEW d \in Callers PROVE PlaceOf(d)'
    BY DEF PlaceOf, EndOf, ScheduleTypes, ScheduleTypeOK
<1>4. ASSUME NEW d \in Callers PROVE EndOf(d)'
    BY DEF EndOf, PlaceOf, ScheduleTypes, ScheduleTypeOK
<1>5. HandlesInv'
    BY HandlesDistinct DEF HandlesInv, PlaceOf, EndOf, ScheduleTypes, ScheduleTypeOK
<1> QED BY <1>1, <1>2, <1>3, <1>4, <1>5

\* The agent closes when the last handle is gone.
LEMMA CloseAgentKeeps ==
    ASSUME ScheduleIInv, CloseAgent
    PROVE  ScheduleIInv'
<1> USE DEF ScheduleIInv, CloseAgent, opVars, Host!Close
<1>1. ScheduleTypes'
    BY HandlesDistinct DEF ScheduleTypes, ScheduleTypeOK
<1>2. TasksInv'
    BY DEF TasksInv, PlaceOf, ScheduleTypes, ScheduleTypeOK
<1>3. ASSUME NEW d \in Callers PROVE PlaceOf(d)'
    BY DEF PlaceOf, EndOf, ScheduleTypes, ScheduleTypeOK
<1>4. ASSUME NEW d \in Callers PROVE EndOf(d)'
    BY DEF EndOf, PlaceOf, ScheduleTypes, ScheduleTypeOK
<1>5. HandlesInv'
    BY HandlesDistinct DEF HandlesInv, PlaceOf, EndOf, ScheduleTypes, ScheduleTypeOK
<1> QED BY <1>1, <1>2, <1>3, <1>4, <1>5

\* It retires when its queue is empty.
LEMMA RetireAgentKeeps ==
    ASSUME ScheduleIInv, RetireAgent
    PROVE  ScheduleIInv'
<1> USE DEF ScheduleIInv, RetireAgent, opVars, Host!Retire
<1>1. ScheduleTypes'
    BY HandlesDistinct DEF ScheduleTypes, ScheduleTypeOK
<1>2. TasksInv'
    BY DEF TasksInv, PlaceOf, ScheduleTypes, ScheduleTypeOK
<1>3. ASSUME NEW d \in Callers PROVE PlaceOf(d)'
    BY DEF PlaceOf, EndOf, ScheduleTypes, ScheduleTypeOK
<1>4. ASSUME NEW d \in Callers PROVE EndOf(d)'
    BY DEF EndOf, PlaceOf, ScheduleTypes, ScheduleTypeOK
<1>5. HandlesInv'
    BY HandlesDistinct DEF HandlesInv, PlaceOf, EndOf, ScheduleTypes, ScheduleTypeOK
<1> QED BY <1>1, <1>2, <1>3, <1>4, <1>5

\* Nobody has connected, posted or completed anything.
LEMMA ScheduleInitial == ScheduleInit => ScheduleIInv
<1> SUFFICES ASSUME ScheduleInit PROVE ScheduleIInv
    OBVIOUS
<1> USE DEF ScheduleInit, Host!Init
<1>1. ScheduleTypes
    <2>1. /\ hostQueue \in Seq(Callers)
          /\ signals \in [Callers -> Seq({"value", "error", "stopped"})]
        OBVIOUS
    <2>2. opHolders \subseteq {User} \cup {OpHandle(c) : c \in Callers} \cup {CallHandle(c) : c \in Callers}
        OBVIOUS
    <2> QED BY <2>1, <2>2 DEF ScheduleTypes, ScheduleTypeOK
<1>2. TasksInv
    BY DEF TasksInv
<1>3. ASSUME NEW c \in Callers PROVE PlaceOf(c) /\ EndOf(c)
    BY DEF PlaceOf, EndOf
<1>4. HandlesInv
    BY HandlesDistinct DEF HandlesInv
<1> QED BY <1>1, <1>2, <1>3, <1>4 DEF ScheduleIInv

\* A stutter keeps the invariant.
LEMMA ScheduleStutters ==
    ASSUME ScheduleIInv, UNCHANGED scheduleVars
    PROVE  ScheduleIInv'
<1> USE DEF scheduleVars, ScheduleIInv
<1>1. ScheduleTypes' = ScheduleTypes
    BY DEF ScheduleTypes, ScheduleTypeOK
<1>2. TasksInv' = TasksInv
    BY DEF TasksInv
<1>3. ASSUME NEW c \in Callers PROVE PlaceOf(c)' /\ EndOf(c)'
    BY DEF PlaceOf, EndOf
<1>4. HandlesInv' = HandlesInv
    BY DEF HandlesInv
<1> QED BY <1>1, <1>2, <1>3, <1>4

\* Every step keeps the invariant.
LEMMA ScheduleStep ==
    ASSUME ScheduleIInv, [ScheduleNext]_scheduleVars
    PROVE  ScheduleIInv'
<1>1. CASE UNCHANGED scheduleVars
    BY <1>1, ScheduleStutters
<1>2. ASSUME NEW c \in Callers, CallerNext(c) PROVE ScheduleIInv'
    BY <1>2, ConnectKeeps, StartInlineKeeps, EnterEnqueueKeeps, PostTaskKeeps, FailToPostKeeps,
       ReturnQueuedKeeps, ReturnRefusedKeeps, LeaveLoopKeeps, LeaveDetachedKeeps DEF CallerNext
<1>3. ASSUME NEW c \in Callers, RequestStopOf(c) PROVE ScheduleIInv'
    BY <1>3, RequestStopKeeps
<1>4. CASE AgentSteps
    BY <1>4, BeginTaskKeeps, CompleteTaskKeeps, EndTaskKeeps DEF AgentSteps
<1>5. CASE DropContext \/ CloseAgent \/ RetireAgent
    BY <1>5, DropContextKeeps, CloseAgentKeeps, RetireAgentKeeps
<1> QED BY <1>1, <1>2, <1>3, <1>4, <1>5 DEF ScheduleNext

\* The property is what the ends of the operations and the handles say.
LEMMA ScheduleImplies == ScheduleIInv => WaitsSound
<1> SUFFICES ASSUME ScheduleIInv PROVE WaitsSound
    OBVIOUS
<1> USE DEF ScheduleIInv
<1>1. ScheduleTypeOK /\ CompletedOnce
    BY DEF ScheduleTypes, CompletedOnce, EndOf
<1>2. UsedWhileAlive
    BY DEF UsedWhileAlive, Touches, TasksInv, PlaceOf, EndOf, HandlesInv, ScheduleTypes, ScheduleTypeOK
<1>3. ToldTheTruth
    <2>1. ASSUME NEW c \in Callers, signals[c] = <<>> PROVE ~ loopDone[c]
        BY <2>1, OneSignal DEF EndOf
    <2> QED BY <2>1 DEF ToldTheTruth, PlaceOf, EndOf
<1>4. NoneLeftBehind
    BY DEF NoneLeftBehind, HandlesInv, PlaceOf, EndOf, ScheduleTypes, ScheduleTypeOK
<1> QED BY <1>1, <1>2, <1>3, <1>4 DEF WaitsSound

\* Whatever threads do with the operations that schedule makes: each is
\* completed at most once, nobody touches one that is destroyed or calls into
\* an agent that is being shut down, sync_wait returns what it was told, and
\* a closed agent left none of them without an end.
THEOREM WaitsAreSound == ScheduleSpec => []WaitsSound
<1>1. ScheduleIInv /\ [ScheduleNext]_scheduleVars => ScheduleIInv'
    BY ScheduleStep
<1> QED BY <1>1, ScheduleInitial, ScheduleImplies, PTL DEF ScheduleSpec
=============================================================================
