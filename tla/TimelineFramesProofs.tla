------------------------- MODULE TimelineFramesProofs -------------------------
(***************************************************************************)
(* Theorems about TimelineFrames, for any number of frames, on one queue   *)
(* or two, about DrawLoop, for any number of draws, about DescriptorSets,  *)
(* for any sets and pipelines of any number of bindings, and about         *)
(* DescriptorHeap, for any devices and tables.                             *)
(***************************************************************************)
EXTENDS TimelineFrames, DrawLoop, DescriptorSets, DescriptorHeap, FiniteSetTheorems,
        SequenceTheorems, WellFoundedInduction, NaturalsInduction, TLAPS

-----------------------------------------------------------------------------
(* The inductive invariant *)

\* Where the main thread is when no frame is under way.
Resting == {"loop", "notify stop", "join", "drain", "done"}

TimelineTypes ==
    /\ oneQueue \in BOOLEAN
    /\ number \in Nat /\ counter \in Nat /\ ticket \in Int
    /\ mainAt \in Resting \cup {"notify", "signal", "wait", "end"}
    /\ at \in [Crew -> {"next", "wait", "record", "gone"}]
    /\ taken \in [Crew -> Int] /\ previous \in [Crew -> Int]
    /\ queues \in [Crew -> Seq([by : Crew, frame : Nat])]
    /\ computed \in Seq(Nat) /\ drawn \in Seq(Nat) /\ presented \in Seq(Nat)

\* The timeline is within the frame that the main thread is at.
ClockInv ==
    /\ mainAt \in Resting \cup {"notify", "signal"} => counter = EndAt(number - 1)
    /\ mainAt = "wait" => counter \in {SubmitAt(number), DrawAt(number), PresentAt(number)}
    /\ mainAt = "end" => counter = PresentAt(number)
    /\ ticket = IF mainAt \in Resting THEN number - 1 ELSE number

\* A worker is at this frame, or done with the last one.
CrewInv ==
    \A w \in Crew :
        /\ at[w] \in {"wait", "record"} => taken[w] = number /\ previous[w] = number - 1
        /\ at[w] \in {"next", "gone"} => taken[w] = previous[w]
        /\ at[w] = "record" => counter >= SubmitAt(number)
        /\ taken[w] = number - 1 \/ (taken[w] = number /\ ticket = number)
        /\ previous[w] = number - 1 \/ (previous[w] = number /\ counter >= SubmitAt(number))

\* Who has submitted tells how far the timeline can be; what is queued follows.
ComputeQueued == previous["compute"] = number /\ counter = SubmitAt(number)
GraphicsQueued == previous["graphics"] = number /\ counter # PresentAt(number)

QueueInv ==
    /\ counter \in {DrawAt(number), PresentAt(number)} => previous["compute"] = number
    /\ counter = PresentAt(number) => previous["graphics"] = number
    /\ oneQueue /\ previous["graphics"] = number => counter # SubmitAt(number)
    /\ \A q \in Crew :
        queues[q] = IF q = QueueOf("compute") /\ ComputeQueued
                    THEN <<[by |-> "compute", frame |-> number]>>
                    ELSE IF q = "graphics" /\ GraphicsQueued
                    THEN <<[by |-> "graphics", frame |-> number]>>
                    ELSE <<>>

\* The frames that are computed, drawn and presented, each once.
InOrder(done, count) == Len(done) = count /\ \A i \in 1 .. count : done[i] = i - 1

CountInv ==
    /\ InOrder(computed, IF counter \in {DrawAt(number), PresentAt(number)}
                         THEN number + 1 ELSE number)
    /\ InOrder(drawn, IF counter = PresentAt(number) THEN number + 1 ELSE number)
    /\ InOrder(presented, IF mainAt = "end" THEN number + 1 ELSE number)

TimelineIInv == TimelineTypes /\ ClockInv /\ CrewInv /\ QueueInv /\ CountInv

-----------------------------------------------------------------------------
(* Helpers *)

\* One more in order.
LEMMA OneMore ==
    ASSUME NEW done \in Seq(Nat), NEW n \in Nat, InOrder(done, n)
    PROVE  Append(done, n) \in Seq(Nat) /\ InOrder(Append(done, n), n + 1)
<1>1. /\ Append(done, n) \in Seq(Nat)
      /\ Len(Append(done, n)) = n + 1
      /\ \A i \in 1 .. n : Append(done, n)[i] = done[i]
      /\ Append(done, n)[n + 1] = n
    BY AppendProperties DEF InOrder
<1> QED BY <1>1 DEF InOrder

\* The crew is two, and so are the queues.
LEMMA TwoOfThem == "compute" \in Crew /\ "graphics" \in Crew /\ "compute" # "graphics"
    BY DEF Crew

\* A step that leaves the frame, the timeline and the crew alone, and moves the
\* main thread within a phase.
LEMMA Moved ==
    ASSUME TimelineIInv,
           UNCHANGED <<oneQueue, number, ticket, presented, at, taken, previous, counter,
                       queues, computed, drawn>>,
           \/ mainAt' = mainAt
           \/ mainAt \in Resting /\ mainAt' \in Resting
           \/ mainAt = "notify" /\ mainAt' = "signal"
    PROVE  TimelineIInv'
<1>1. TimelineTypes'
    BY DEF TimelineIInv, TimelineTypes, Resting
<1>2. ClockInv'
    BY DEF TimelineIInv, ClockInv, Resting, EndAt, SubmitAt, DrawAt, PresentAt
<1>3. CrewInv'
    BY DEF TimelineIInv, CrewInv, SubmitAt
<1>4. QueueInv'
    BY DEF TimelineIInv, QueueInv, SubmitAt, DrawAt, PresentAt, QueueOf, ComputeQueued,
           GraphicsQueued
<1>5. CountInv'
    BY DEF TimelineIInv, CountInv, InOrder, DrawAt, PresentAt, Resting
<1> QED BY <1>1, <1>2, <1>3, <1>4, <1>5 DEF TimelineIInv

-----------------------------------------------------------------------------
(* The steps *)

LEMMA MainKeeps ==
    ASSUME TimelineIInv, MainStep
    PROVE  TimelineIInv'
<1> USE DEF MainGoes, loopVars, ticketVars, crewVars, gpuVars, Resting
<1>1. CASE Publish
    <2>1. /\ mainAt = "loop" /\ mainAt' = "notify" /\ ticket' = number
          /\ UNCHANGED <<oneQueue, number, presented, at, taken, previous, counter, queues,
                         computed, drawn>>
        BY <1>1 DEF Publish
    <2>t. ticket' \in Int
        BY <2>1 DEF TimelineIInv, TimelineTypes
    <2>2. TimelineTypes'
        BY <2>1, <2>t DEF TimelineIInv, TimelineTypes
    <2>3. ClockInv'
        BY <2>1 DEF TimelineIInv, ClockInv
    <2>4. CrewInv'
        BY <2>1 DEF TimelineIInv, CrewInv, ClockInv, SubmitAt, TimelineTypes
    <2>5. QueueInv'
        BY <2>1 DEF TimelineIInv, QueueInv, QueueOf, ComputeQueued, GraphicsQueued
    <2>6. CountInv'
        BY <2>1 DEF TimelineIInv, CountInv
    <2> QED BY <2>2, <2>3, <2>4, <2>5, <2>6 DEF TimelineIInv
<1>2. CASE Notify("notify", "signal") \/ Notify("notify stop", "join")
    BY <1>2, Moved DEF Notify
<1>3. CASE SignalSubmit
    <2>1. /\ mainAt = "signal" /\ mainAt' = "wait" /\ counter' = SubmitAt(number)
          /\ UNCHANGED <<oneQueue, number, ticket, presented, at, taken, previous, queues,
                         computed, drawn>>
        BY <1>3 DEF SignalSubmit, HostSignal
    <2>2. counter = 4 * number /\ counter' = 4 * number + 1 /\ number \in Nat
        BY <2>1 DEF TimelineIInv, ClockInv, EndAt, SubmitAt, TimelineTypes
    <2>3. \A w \in Crew : previous[w] = number - 1
        BY <2>2 DEF TimelineIInv, CrewInv, SubmitAt
    <2>t. counter' \in Nat
        BY <2>2
    <2>4. TimelineTypes'
        BY <2>1, <2>t DEF TimelineIInv, TimelineTypes
    <2>5. ClockInv'
        BY <2>1 DEF TimelineIInv, ClockInv
    <2>6. CrewInv'
        BY <2>1, <2>2 DEF TimelineIInv, CrewInv, SubmitAt
    <2>7. QueueInv'
        BY <2>1, <2>2, <2>3, TwoOfThem
        DEF TimelineIInv, QueueInv, QueueOf, ComputeQueued, GraphicsQueued, SubmitAt, DrawAt,
            PresentAt
    <2>8. CountInv'
        BY <2>1, <2>2 DEF TimelineIInv, CountInv, DrawAt, PresentAt
    <2> QED BY <2>4, <2>5, <2>6, <2>7, <2>8 DEF TimelineIInv
<1>4. CASE PresentFrame
    <2>1. /\ mainAt = "wait" /\ mainAt' = "end" /\ presented' = Append(presented, number)
          /\ counter >= PresentAt(number)
          /\ UNCHANGED <<oneQueue, number, ticket, at, taken, previous, counter, queues,
                         computed, drawn>>
        BY <1>4 DEF PresentFrame
    <2>2. number \in Nat /\ presented \in Seq(Nat) /\ InOrder(presented, number)
        BY <2>1 DEF TimelineIInv, TimelineTypes, CountInv
    <2>3. presented' \in Seq(Nat) /\ InOrder(presented', number + 1)
        BY <2>1, <2>2, OneMore
    <2>4. counter = PresentAt(number)
        BY <2>1, <2>2 DEF TimelineIInv, ClockInv, SubmitAt, DrawAt, PresentAt
    <2>5. TimelineTypes'
        BY <2>1, <2>3 DEF TimelineIInv, TimelineTypes
    <2>6. ClockInv'
        BY <2>1, <2>4 DEF TimelineIInv, ClockInv
    <2>7. CrewInv'
        BY <2>1 DEF TimelineIInv, CrewInv
    <2>8. QueueInv'
        BY <2>1 DEF TimelineIInv, QueueInv, QueueOf, ComputeQueued, GraphicsQueued
    <2>9. CountInv'
        BY <2>1, <2>3 DEF TimelineIInv, CountInv
    <2> QED BY <2>5, <2>6, <2>7, <2>8, <2>9 DEF TimelineIInv
<1>5. CASE SignalEnd
    <2>1. /\ mainAt = "end" /\ mainAt' = "loop" /\ counter' = EndAt(number)
          /\ number' = number + 1
          /\ UNCHANGED <<oneQueue, ticket, presented, at, taken, previous, queues, computed, drawn>>
        BY <1>5 DEF SignalEnd, HostSignal
    <2>2. /\ counter = 4 * number + 3 /\ counter' = 4 * number + 4 /\ number \in Nat
          /\ ticket = number
        BY <2>1 DEF TimelineIInv, ClockInv, EndAt, PresentAt, TimelineTypes
    <2>3. \A w \in Crew : previous[w] = number
        BY <2>2 DEF TimelineIInv, QueueInv, PresentAt, Crew
    <2>4. \A w \in Crew : at[w] \in {"next", "gone"} /\ taken[w] = number
        <3> SUFFICES ASSUME NEW w \in Crew
                     PROVE  at[w] \in {"next", "gone"} /\ taken[w] = number
            OBVIOUS
        <3>1. at[w] \in {"next", "wait", "record", "gone"}
            BY DEF TimelineIInv, TimelineTypes
        <3>2. at[w] \notin {"wait", "record"}
            BY <2>2, <2>3 DEF TimelineIInv, CrewInv
        <3>3. at[w] \in {"next", "gone"}
            BY <3>1, <3>2
        <3> QED BY <2>3, <3>3 DEF TimelineIInv, CrewInv
    <2>5. \A q \in Crew : queues[q] = <<>>
        BY <2>2, TwoOfThem
        DEF TimelineIInv, QueueInv, ComputeQueued, GraphicsQueued, SubmitAt, PresentAt
    <2>t. number' \in Nat /\ counter' \in Nat
        BY <2>1, <2>2
    <2>6. TimelineTypes'
        BY <2>1, <2>t DEF TimelineIInv, TimelineTypes
    <2>7. ClockInv'
        BY <2>1, <2>2 DEF ClockInv, EndAt
    <2>8. CrewInv'
        BY <2>1, <2>2, <2>3, <2>4 DEF CrewInv
    <2>9. QueueInv'
        <3>1. \A w \in Crew : previous'[w] # number'
            BY <2>1, <2>2, <2>3
        <3>2. counter' \notin {DrawAt(number'), PresentAt(number')}
            BY <2>1, <2>2 DEF DrawAt, PresentAt
        <3>3. ~ ComputeQueued' /\ ~ GraphicsQueued'
            BY <3>1, TwoOfThem DEF ComputeQueued, GraphicsQueued
        <3> QED
            BY <2>1, <2>5, <3>1, <3>2, <3>3, TwoOfThem DEF QueueInv
    <2>10. CountInv'
        BY <2>1, <2>2 DEF TimelineIInv, CountInv, DrawAt, PresentAt
    <2> QED BY <2>6, <2>7, <2>8, <2>9, <2>10 DEF TimelineIInv
<1>6. CASE StopTickets
    BY <1>6, Moved DEF StopTickets
<1>7. CASE JoinCrew
    BY <1>7, Moved DEF JoinCrew
<1>8. CASE WaitIdle
    BY <1>8, Moved DEF WaitIdle
<1> QED BY <1>1, <1>2, <1>3, <1>4, <1>5, <1>6, <1>7, <1>8 DEF MainStep

LEMMA CrewKeeps ==
    ASSUME TimelineIInv, NEW w \in Crew, CrewStep(w)
    PROVE  TimelineIInv'
<1> USE DEF CrewGoes, loopVars, ticketVars, crewVars, gpuVars
<1>1. CASE TakeTicket(w)
    <2>1. UNCHANGED <<oneQueue, mainAt, number, ticket, presented, previous, counter, queues,
                      computed, drawn>>
        BY <1>1 DEF TakeTicket
    <2>2. \/ UNCHANGED <<at, taken>>
          \/ at[w] = "next" /\ at' = [at EXCEPT ![w] = "gone"] /\ taken' = taken
          \/ /\ at[w] = "next" /\ at' = [at EXCEPT ![w] = "wait"]
             /\ taken' = [taken EXCEPT ![w] = ticket] /\ IsNews(w)
        BY <1>1 DEF TakeTicket
    <2>3. ASSUME IsNews(w), at[w] = "next"
          PROVE  ticket = number /\ previous[w] = number - 1
        BY <2>3 DEF IsNews, TimelineIInv, CrewInv, ClockInv, TimelineTypes
    <2>4. TimelineTypes'
        BY <2>1, <2>2 DEF TimelineIInv, TimelineTypes
    <2>5. CrewInv'
        BY <2>1, <2>2, <2>3 DEF TimelineIInv, CrewInv, TimelineTypes
    <2>6. ClockInv' /\ CountInv'
        BY <2>1 DEF TimelineIInv, ClockInv, CountInv
    <2>7. QueueInv'
        BY <2>1 DEF TimelineIInv, QueueInv, QueueOf, ComputeQueued, GraphicsQueued
    <2> QED BY <2>4, <2>5, <2>6, <2>7 DEF TimelineIInv
<1>2. CASE RecordCommands(w)
    <2>1. /\ at[w] = "wait" /\ at' = [at EXCEPT ![w] = "record"]
          /\ counter >= SubmitAt(taken[w])
          /\ UNCHANGED <<oneQueue, mainAt, number, ticket, presented, taken, previous, counter,
                         queues, computed, drawn>>
        BY <1>2 DEF RecordCommands
    <2>2. TimelineTypes'
        BY <2>1 DEF TimelineIInv, TimelineTypes
    <2>3. CrewInv'
        BY <2>1 DEF TimelineIInv, CrewInv, TimelineTypes
    <2>4. ClockInv' /\ CountInv'
        BY <2>1 DEF TimelineIInv, ClockInv, CountInv
    <2>5. QueueInv'
        BY <2>1 DEF TimelineIInv, QueueInv, QueueOf, ComputeQueued, GraphicsQueued
    <2> QED BY <2>2, <2>3, <2>4, <2>5 DEF TimelineIInv
<1>3. CASE SubmitCommands(w)
    <2> DEFINE work == [by |-> w, frame |-> number]
    <2>1. /\ at[w] = "record" /\ at' = [at EXCEPT ![w] = "next"]
          /\ taken[w] = number /\ previous[w] = number - 1 /\ counter >= SubmitAt(number)
          /\ queues' = [queues EXCEPT ![QueueOf(w)] = Append(queues[QueueOf(w)], work)]
          /\ previous' = [previous EXCEPT ![w] = number]
          /\ MaySubmit(w)
          /\ UNCHANGED <<oneQueue, mainAt, number, ticket, presented, taken, counter,
                         computed, drawn>>
        BY <1>3 DEF SubmitCommands, TimelineIInv, CrewInv
    <2>2. number \in Nat /\ counter \in Nat /\ QueueOf(w) \in Crew /\ oneQueue \in BOOLEAN
          /\ previous \in [Crew -> Int] /\ at \in [Crew -> {"next", "wait", "record", "gone"}]
        BY TwoOfThem DEF TimelineIInv, TimelineTypes, QueueOf
    <2>3. counter # PresentAt(number)
          /\ (w = "compute" => counter # DrawAt(number))
          /\ (w = "graphics" /\ oneQueue => counter # SubmitAt(number))
        <3>1. w = "compute" => counter # DrawAt(number) /\ counter # PresentAt(number)
            BY <2>1, <2>2 DEF TimelineIInv, QueueInv
        <3>2. w = "graphics" => counter # PresentAt(number)
            BY <2>1, <2>2 DEF TimelineIInv, QueueInv
        <3>3. w = "graphics" /\ oneQueue => counter # SubmitAt(number)
            BY <2>1, <2>2 DEF MaySubmit, DrawAt, SubmitAt
        <3> QED BY <3>1, <3>2, <3>3 DEF Crew
    <2>p. counter = SubmitAt(number) \/ counter = DrawAt(number)
        <3>1. counter # EndAt(number - 1)
            BY <2>1, <2>2 DEF SubmitAt, EndAt
        <3>2. mainAt \in {"wait", "end"}
            BY <3>1 DEF TimelineIInv, TimelineTypes, ClockInv
        <3> QED BY <2>3, <3>2 DEF TimelineIInv, ClockInv
    <2>4. queues[QueueOf(w)] = <<>>
        <3>1. CASE w = "compute"
            <4>1. ~ ComputeQueued
                BY <2>1, <2>2, <3>1 DEF ComputeQueued
            <4>2. QueueOf(w) = "graphics" => oneQueue
                BY <3>1, TwoOfThem DEF QueueOf
            <4>3. QueueOf(w) = "graphics" => ~ GraphicsQueued
                BY <2>1, <2>2, <2>3, <2>p, <3>1, <4>2 DEF GraphicsQueued, TimelineIInv, QueueInv
            <4> QED BY <2>2, <4>1, <4>3 DEF TimelineIInv, QueueInv
        <3>2. CASE w = "graphics"
            <4>1. QueueOf(w) = "graphics" /\ ~ GraphicsQueued
                BY <2>1, <2>2, <3>2 DEF QueueOf, GraphicsQueued
            <4>2. ~ (QueueOf(w) = QueueOf("compute") /\ ComputeQueued)
                BY <2>2, <2>3, <3>2, TwoOfThem DEF QueueOf, ComputeQueued
            <4> QED BY <2>2, <4>1, <4>2 DEF TimelineIInv, QueueInv
        <3> QED BY <3>1, <3>2 DEF Crew
    <2>5. Append(queues[QueueOf(w)], work) = <<work>>
        BY <2>4
    <2>6. work \in [by : Crew, frame : Nat]
        BY <2>2
    <2>7. TimelineTypes'
        BY <2>1, <2>2, <2>5, <2>6 DEF TimelineIInv, TimelineTypes
    <2>8. CrewInv'
        BY <2>1, <2>2 DEF TimelineIInv, CrewInv
    <2>9. ClockInv' /\ CountInv'
        BY <2>1 DEF TimelineIInv, ClockInv, CountInv
    <2>10. QueueInv'
        <3>1. CASE w = "compute"
            BY <2>1, <2>2, <2>3, <2>5, <2>p, <3>1, TwoOfThem
            DEF TimelineIInv, TimelineTypes, QueueInv, QueueOf, ComputeQueued, GraphicsQueued, Crew
        <3>2. CASE w = "graphics"
            BY <2>1, <2>2, <2>3, <2>5, <2>p, <3>2, TwoOfThem
            DEF TimelineIInv, TimelineTypes, QueueInv, QueueOf, ComputeQueued, GraphicsQueued, Crew
        <3> QED BY <3>1, <3>2 DEF Crew
    <2> QED BY <2>7, <2>8, <2>9, <2>10 DEF TimelineIInv
<1> QED BY <1>1, <1>2, <1>3 DEF CrewStep

\* What a queue finishes is the computation or the drawing of the frame that
\* the main thread waits for.
LEMMA WhatIsFinished ==
    ASSUME TimelineIInv, NEW q \in Crew, FinishWork(q)
    PROVE  /\ queues' = [queues EXCEPT ![q] = <<>>]
           /\ UNCHANGED <<oneQueue, mainAt, number, ticket, presented, at, taken, previous>>
           /\ mainAt = "wait" /\ number \in Nat
           /\ \/ /\ q = QueueOf("compute") /\ ComputeQueued
                 /\ counter' = DrawAt(number)
                 /\ computed' = Append(computed, number) /\ drawn' = drawn
              \/ /\ q = "graphics" /\ previous["graphics"] = number
                 /\ counter = DrawAt(number) /\ counter' = PresentAt(number)
                 /\ drawn' = Append(drawn, number) /\ computed' = computed
<1>1. UNCHANGED <<oneQueue, mainAt, number, ticket, presented, at, taken, previous>>
    BY DEF FinishWork, loopVars, ticketVars, crewVars
<1>2. number \in Nat /\ counter \in Nat
    BY DEF TimelineIInv, TimelineTypes
<1>3. CASE q = QueueOf("compute") /\ ComputeQueued
    <2>1. queues[q] = <<[by |-> "compute", frame |-> number]>>
        BY <1>3 DEF TimelineIInv, QueueInv
    <2>2. Head(queues[q]) = [by |-> "compute", frame |-> number] /\ Tail(queues[q]) = <<>>
        BY <2>1
    <2>3. mainAt = "wait"
        BY <1>2, <1>3
        DEF TimelineIInv, TimelineTypes, ClockInv, ComputeQueued, SubmitAt, PresentAt, EndAt
    <2>4. counter' = DrawAt(number) /\ computed' = Append(computed, number) /\ drawn' = drawn
        BY <2>2 DEF FinishWork
    <2>5. queues' = [queues EXCEPT ![q] = <<>>]
        BY <2>2 DEF FinishWork
    <2> QED BY <1>1, <1>2, <1>3, <2>3, <2>4, <2>5
<1>4. CASE ~ (q = QueueOf("compute") /\ ComputeQueued)
    <2>1. q = "graphics" /\ GraphicsQueued
          /\ queues[q] = <<[by |-> "graphics", frame |-> number]>>
        BY <1>4 DEF TimelineIInv, QueueInv, FinishWork
    <2>2. Head(queues[q]) = [by |-> "graphics", frame |-> number] /\ Tail(queues[q]) = <<>>
        BY <2>1
    <2>3. MayExecute([by |-> "graphics", frame |-> number])
        BY <2>2 DEF FinishWork
    <2>4. counter >= DrawAt(number)
        BY <2>3 DEF MayExecute
    <2>5. mainAt = "wait" /\ counter = DrawAt(number)
        BY <1>2, <2>1, <2>4
        DEF TimelineIInv, TimelineTypes, ClockInv, GraphicsQueued, SubmitAt, DrawAt, PresentAt,
            EndAt
    <2> QED BY <1>1, <1>2, <2>1, <2>2, <2>5 DEF FinishWork, GraphicsQueued
<1> QED BY <1>3, <1>4

LEMMA GpuKeeps ==
    ASSUME TimelineIInv, NEW q \in Crew, FinishWork(q)
    PROVE  TimelineIInv'
<1>1. /\ queues' = [queues EXCEPT ![q] = <<>>]
      /\ UNCHANGED <<oneQueue, mainAt, number, ticket, presented, at, taken, previous>>
      /\ mainAt = "wait" /\ number \in Nat
    BY WhatIsFinished
<1>2. CASE /\ q = QueueOf("compute") /\ ComputeQueued
           /\ counter' = DrawAt(number)
           /\ computed' = Append(computed, number) /\ drawn' = drawn
    <2>1. computed \in Seq(Nat) /\ InOrder(computed, number)
        BY <1>1, <1>2
        DEF TimelineIInv, TimelineTypes, CountInv, ComputeQueued, SubmitAt, DrawAt, PresentAt
    <2>2. computed' \in Seq(Nat) /\ InOrder(computed', number + 1)
        BY <1>1, <1>2, <2>1, OneMore
    <2>3. TimelineTypes'
        BY <1>1, <1>2, <2>2 DEF TimelineIInv, TimelineTypes, DrawAt
    <2>4. ClockInv'
        BY <1>1, <1>2 DEF TimelineIInv, ClockInv, Resting
    <2>5. CrewInv'
        BY <1>1, <1>2 DEF TimelineIInv, CrewInv, SubmitAt, DrawAt
    <2>6. QueueInv'
        BY <1>1, <1>2, TwoOfThem
        DEF TimelineIInv, TimelineTypes, QueueInv, QueueOf, ComputeQueued, GraphicsQueued,
            SubmitAt, DrawAt, PresentAt
    <2>7. CountInv'
        BY <1>1, <1>2, <2>2
        DEF TimelineIInv, CountInv, ComputeQueued, SubmitAt, DrawAt, PresentAt
    <2> QED BY <2>3, <2>4, <2>5, <2>6, <2>7 DEF TimelineIInv
<1>3. CASE /\ q = "graphics" /\ previous["graphics"] = number
           /\ counter = DrawAt(number) /\ counter' = PresentAt(number)
           /\ drawn' = Append(drawn, number) /\ computed' = computed
    <2>1. drawn \in Seq(Nat) /\ InOrder(drawn, number)
        BY <1>1, <1>3 DEF TimelineIInv, TimelineTypes, CountInv, DrawAt, PresentAt
    <2>2. drawn' \in Seq(Nat) /\ InOrder(drawn', number + 1)
        BY <1>1, <1>3, <2>1, OneMore
    <2>3. TimelineTypes'
        BY <1>1, <1>3, <2>2 DEF TimelineIInv, TimelineTypes, PresentAt
    <2>4. ClockInv'
        BY <1>1, <1>3 DEF TimelineIInv, ClockInv, Resting
    <2>5. CrewInv'
        BY <1>1, <1>3 DEF TimelineIInv, CrewInv, SubmitAt, PresentAt
    <2>6. QueueInv'
        BY <1>1, <1>3, TwoOfThem
        DEF TimelineIInv, TimelineTypes, QueueInv, QueueOf, ComputeQueued, GraphicsQueued,
            SubmitAt, DrawAt, PresentAt
    <2>7. CountInv'
        BY <1>1, <1>3, <2>2 DEF TimelineIInv, CountInv, DrawAt, PresentAt
    <2> QED BY <2>3, <2>4, <2>5, <2>6, <2>7 DEF TimelineIInv
<1> QED BY <1>2, <1>3, WhatIsFinished

-----------------------------------------------------------------------------
(* Theorems *)

LEMMA TimelineInitially == TimelineInit => TimelineIInv
<1> SUFFICES ASSUME TimelineInit PROVE TimelineIInv
    OBVIOUS
<1>1. TimelineTypes
    BY DEF TimelineInit, TimelineTypes, Resting, NoTicket
<1>2. ClockInv /\ CrewInv
    BY DEF TimelineInit, ClockInv, CrewInv, Resting, NoTicket, EndAt, SubmitAt
<1>3. QueueInv
    BY DEF TimelineInit, QueueInv, ComputeQueued, GraphicsQueued, NoTicket, DrawAt, PresentAt, Crew
<1>4. CountInv
    BY DEF TimelineInit, CountInv, InOrder, DrawAt, PresentAt
<1> QED BY <1>1, <1>2, <1>3, <1>4 DEF TimelineIInv

LEMMA TimelineInvariant == TimelineSpec => []TimelineIInv
<1>1. TimelineIInv /\ [TimelineNext]_timelineVars => TimelineIInv'
    <2>1. ASSUME TimelineIInv, TimelineNext PROVE TimelineIInv'
        BY <2>1, MainKeeps, CrewKeeps, GpuKeeps DEF TimelineNext
    <2>2. ASSUME TimelineIInv, UNCHANGED timelineVars PROVE TimelineIInv'
        BY <2>2, Moved DEF timelineVars, loopVars, ticketVars, crewVars, gpuVars
    <2> QED BY <2>1, <2>2
<1> QED BY <1>1, TimelineInitially, PTL DEF TimelineSpec

\* timeline_semaphore/main.cpp guards the one command buffer of the compute
\* worker and its two images by values of the timeline alone: whoever writes
\* them finds them idle.
THEOREM FrameDataStaysIdle == TimelineSpec => []FrameDataIdle
<1>1. TimelineIInv => ComputeRecordsIdle
    <2> SUFFICES ASSUME TimelineIInv, at["compute"] = "record", NEW q \in Crew,
                        NEW i \in DOMAIN queues[q]
                 PROVE  queues[q][i].by # "compute"
        BY DEF ComputeRecordsIdle
    <2>1. previous["compute"] = number - 1 /\ number \in Nat
        BY TwoOfThem DEF TimelineIInv, CrewInv, TimelineTypes
    <2>2. queues[q] = <<>> \/ queues[q] = <<[by |-> "graphics", frame |-> number]>>
        BY <2>1 DEF TimelineIInv, QueueInv, ComputeQueued
    <2> QED BY <2>2
<1>2. TimelineIInv => ImagesApart
    <2> SUFFICES ASSUME TimelineIInv, NEW a \in Executing, NEW b \in Executing
                 PROVE  a = b
        BY DEF ImagesApart
    <2>1. PICK p \in Crew : queues[p] # <<>> /\ MayExecute(Head(queues[p])) /\ a = Head(queues[p])
        BY DEF Executing
    <2>2. PICK q \in Crew : queues[q] # <<>> /\ MayExecute(Head(queues[q])) /\ b = Head(queues[q])
        BY DEF Executing
    <2>3. number \in Nat /\ counter \in Nat
        BY DEF TimelineIInv, TimelineTypes
    <2>4. ASSUME NEW r \in Crew, queues[r] # <<>>, MayExecute(Head(queues[r]))
          PROVE  Head(queues[r]) = IF ComputeQueued THEN [by |-> "compute", frame |-> number]
                                   ELSE [by |-> "graphics", frame |-> number]
        <3>1. CASE r = QueueOf("compute") /\ ComputeQueued
            <4>1. queues[r] = <<[by |-> "compute", frame |-> number]>>
                BY <3>1 DEF TimelineIInv, QueueInv
            <4> QED BY <3>1, <4>1
        <3>2. CASE ~ (r = QueueOf("compute") /\ ComputeQueued)
            <4>1. queues[r] = <<[by |-> "graphics", frame |-> number]>>
                BY <2>4, <3>2 DEF TimelineIInv, QueueInv
            <4>2. counter >= DrawAt(number)
                BY <2>4, <4>1 DEF MayExecute
            <4>3. ~ ComputeQueued
                BY <2>3, <4>2 DEF ComputeQueued, SubmitAt, DrawAt
            <4> QED BY <4>1, <4>3
        <3> QED BY <3>1, <3>2
    <2> QED BY <2>1, <2>2, <2>4
<1> QED BY <1>1, <1>2, TimelineInvariant, PTL DEF FrameDataIdle

\* The three threads and the GPU signal the four values of a frame in their
\* order, whoever of them runs when: the timeline only rises.
THEOREM TimelineOnlyRises == TimelineSpec => TimelineRises
<1>1. ASSUME TimelineIInv, TimelineNext, counter' # counter
      PROVE  counter' > counter
    <2>1. number \in Nat /\ counter \in Nat
        BY <1>1 DEF TimelineIInv, TimelineTypes
    <2>2. CASE MainStep
        <3>1. SignalSubmit \/ SignalEnd
            BY <1>1, <2>2
            DEF MainStep, Publish, Notify, PresentFrame, StopTickets, JoinCrew, WaitIdle
        <3>2. CASE SignalSubmit
            BY <1>1, <2>1, <3>2
            DEF SignalSubmit, HostSignal, MainGoes, TimelineIInv, ClockInv, SubmitAt, EndAt
        <3>3. CASE SignalEnd
            BY <1>1, <2>1, <3>3
            DEF SignalEnd, HostSignal, MainGoes, TimelineIInv, ClockInv, PresentAt, EndAt
        <3> QED BY <3>1, <3>2, <3>3
    <2>3. ASSUME NEW q \in Crew, FinishWork(q) PROVE counter' > counter
        BY <1>1, <2>1, <2>3, WhatIsFinished DEF ComputeQueued, SubmitAt, DrawAt, PresentAt
    <2>4. ASSUME NEW w \in Crew, CrewStep(w) PROVE counter' = counter
        BY <2>4 DEF CrewStep, TakeTicket, RecordCommands, SubmitCommands
    <2> QED BY <1>1, <2>2, <2>3, <2>4 DEF TimelineNext
<1>2. TimelineIInv /\ [TimelineNext]_timelineVars
        => [counter' # counter => counter' > counter]_timelineVars
    BY <1>1
<1> QED BY <1>2, TimelineInvariant, PTL DEF TimelineSpec, TimelineRises

\* Every frame is computed, drawn and presented once and in this order: the
\* safety half of FramesFlow.
THEOREM FramesInOrder == TimelineSpec => []EachFrameOnce
<1>1. TimelineIInv => EachFrameOnce
    <2> SUFFICES ASSUME TimelineIInv PROVE EachFrameOnce
        OBVIOUS
    <2>1. number \in Nat /\ counter \in Nat
          /\ computed \in Seq(Nat) /\ drawn \in Seq(Nat) /\ presented \in Seq(Nat)
        BY DEF TimelineIInv, TimelineTypes
    <2>2. Len(presented) <= Len(drawn) /\ Len(drawn) <= Len(computed)
        BY <2>1 DEF TimelineIInv, CountInv, InOrder, ClockInv, PresentAt
    <2>3. \A done \in {computed, drawn, presented} : \A i \in 1 .. Len(done) : done[i] = i - 1
        BY <2>1 DEF TimelineIInv, CountInv, InOrder
    <2>4. \A done \in {computed, drawn, presented} : DOMAIN done = 1 .. Len(done)
        BY <2>1, LenProperties
    <2> QED BY <2>2, <2>3, <2>4 DEF EachFrameOnce
<1> QED BY <1>1, TimelineInvariant, PTL

-----------------------------------------------------------------------------
(* The draws of a frame loop *)

\* What may be left of a draw: before it begins its frame, while the frame is
\* its own, and when it has presented it.
Before ==
    {<<"stop?", "begin", "record", "end", "value">>,
     <<"stop?", "begin", "record", "end", "wait">>,
     <<"stop?", "layers?", "begin", "record", "end", "value">>,
     <<"stop?", "begin", "layers?", "record", "end", "wait">>,
     <<"layers?", "begin", "record", "end", "value">>,
     <<"begin", "record", "end", "value">>,
     <<"begin", "record", "end", "wait">>,
     <<"begin", "layers?", "record", "end", "wait">>}
During ==
    {<<"layers?", "record", "end", "wait">>,
     <<"record", "end", "value">>, <<"record", "end", "wait">>,
     <<"end", "value">>, <<"end", "wait">>}
After == {<<"value">>, <<"wait">>}

DrawTypes ==
    /\ draws \in 0 .. MaxDraws /\ waited \in 0 .. MaxDraws /\ frameOpen \in BOOLEAN
    /\ outcomes \in [1 .. MaxDraws -> {{}, {"value"}, {"stopped"}, {"error"}}]
    /\ steps \in Before \cup During \cup After \cup {<<>>}
    /\ begun \subseteq 1 .. draws

\* The draw under way has no outcome yet; it began a frame, or presented it, as
\* far as it got.
UnderWay ==
    /\ steps # <<>> => waited = 0 /\ draws # 0
    /\ waited # 0 => steps = <<>> /\ waited = draws
    /\ steps # <<>> \/ waited # 0 => outcomes[draws] = {}
    /\ \A n \in 1 .. MaxDraws : n > draws => outcomes[n] = {}
    /\ steps \in Before => draws \notin begun
    /\ steps \in During => draws \in begun \ shown /\ frameOpen
    /\ steps \in After \/ waited # 0 => draws \in shown /\ ~ frameOpen
    /\ shown \subseteq begun

OpenInv ==
    frameOpen /\ steps \notin During => \E n \in begun \ shown : outcomes[n] = {"error"}

ValueInv ==
    \A n \in 1 .. MaxDraws : "value" \in outcomes[n] /\ n \in begun => n \in shown

DrawIInv == DrawTypes /\ UnderWay /\ OpenInv /\ ValueInv

\* A draw goes through the three phases in this order.
LEMMA TailsOfDraws ==
    /\ Tail(<<"stop?", "begin", "record", "end", "value">>) = <<"begin", "record", "end", "value">>
    /\ Tail(<<"stop?", "begin", "record", "end", "wait">>) = <<"begin", "record", "end", "wait">>
    /\ Tail(<<"stop?", "layers?", "begin", "record", "end", "value">>) = <<"layers?", "begin", "record", "end", "value">>
    /\ Tail(<<"stop?", "begin", "layers?", "record", "end", "wait">>) = <<"begin", "layers?", "record", "end", "wait">>
    /\ Tail(<<"layers?", "begin", "record", "end", "value">>) = <<"begin", "record", "end", "value">>
    /\ Tail(<<"begin", "record", "end", "value">>) = <<"record", "end", "value">>
    /\ Tail(<<"begin", "record", "end", "wait">>) = <<"record", "end", "wait">>
    /\ Tail(<<"begin", "layers?", "record", "end", "wait">>) = <<"layers?", "record", "end", "wait">>
    /\ Tail(<<"layers?", "record", "end", "wait">>) = <<"record", "end", "wait">>
    /\ Tail(<<"record", "end", "value">>) = <<"end", "value">>
    /\ Tail(<<"record", "end", "wait">>) = <<"end", "wait">>
    /\ Tail(<<"end", "value">>) = <<"value">>
    /\ Tail(<<"end", "wait">>) = <<"wait">>
    /\ Tail(<<"value">>) = <<>>
    /\ Tail(<<"wait">>) = <<>>
OBVIOUS

\* A draw looks at the stop token and its layers before it begins, records
\* and ends while the frame is open, and completes after.
LEMMA StepsAhead ==
    /\ \A s \in Before :
        /\ s # <<>> /\ s \notin During /\ s \notin After
        /\ Head(s) \in {"stop?", "layers?", "begin"}
        /\ Head(s) \in {"stop?", "layers?"} => Tail(s) \in Before
        /\ Head(s) = "begin" => Tail(s) \in During
    /\ \A s \in During :
        /\ s # <<>> /\ s \notin Before /\ s \notin After
        /\ Head(s) \in {"layers?", "record", "end"}
        /\ Head(s) \in {"layers?", "record"} => Tail(s) \in During
        /\ Head(s) = "end" => Tail(s) \in After
        /\ Head(s) = "layers?" => s[Len(s)] = "wait"
    /\ \A s \in After :
        /\ s # <<>> /\ s \notin Before /\ s \notin During
        /\ Head(s) \in {"value", "wait"} /\ Tail(s) = <<>>
    /\ <<>> \notin Before \cup During \cup After
    /\ DrawSenders \subseteq Before
<1>1. \A s \in Before :
        /\ s # <<>> /\ s \notin During /\ s \notin After
        /\ Head(s) \in {"stop?", "layers?", "begin"}
        /\ Head(s) \in {"stop?", "layers?"} => Tail(s) \in Before
        /\ Head(s) = "begin" => Tail(s) \in During
    <2> DEFINE Ahead(s) ==
                    /\ Head(s) \in {"stop?", "layers?"} => Tail(s) \in Before
                    /\ Head(s) = "begin" => Tail(s) \in During
    <2>1. Ahead(<<"stop?", "begin", "record", "end", "value">>)
        BY TailsOfDraws DEF Before, During
    <2>2. Ahead(<<"stop?", "begin", "record", "end", "wait">>)
        BY TailsOfDraws DEF Before, During
    <2>3. Ahead(<<"stop?", "layers?", "begin", "record", "end", "value">>)
        BY TailsOfDraws DEF Before, During
    <2>4. Ahead(<<"stop?", "begin", "layers?", "record", "end", "wait">>)
        BY TailsOfDraws DEF Before, During
    <2>5. Ahead(<<"layers?", "begin", "record", "end", "value">>)
        BY TailsOfDraws DEF Before, During
    <2>6. Ahead(<<"begin", "record", "end", "value">>)
        BY TailsOfDraws DEF Before, During
    <2>7. Ahead(<<"begin", "record", "end", "wait">>)
        BY TailsOfDraws DEF Before, During
    <2>8. Ahead(<<"begin", "layers?", "record", "end", "wait">>)
        BY TailsOfDraws DEF Before, During
    <2> HIDE DEF Ahead
    <2>9. \A s \in Before : Ahead(s)
        BY <2>1, <2>2, <2>3, <2>4, <2>5, <2>6, <2>7, <2>8 DEF Before
    <2>10. \A s \in Before : s # <<>> /\ s \notin During /\ s \notin After
        BY DEF Before, During, After
    <2>11. \A s \in Before : Head(s) \in {"stop?", "layers?", "begin"}
        BY DEF Before
    <2> QED BY <2>9, <2>10, <2>11 DEF Ahead
<1>2. \A s \in During :
        /\ s # <<>> /\ s \notin Before /\ s \notin After
        /\ Head(s) \in {"layers?", "record", "end"}
        /\ Head(s) \in {"layers?", "record"} => Tail(s) \in During
        /\ Head(s) = "end" => Tail(s) \in After
        /\ Head(s) = "layers?" => s[Len(s)] = "wait"
    <2> DEFINE Ahead(s) ==
                    /\ Head(s) \in {"layers?", "record"} => Tail(s) \in During
                    /\ Head(s) = "end" => Tail(s) \in After
    <2>1. Ahead(<<"layers?", "record", "end", "wait">>)
        BY TailsOfDraws DEF During, After
    <2>2. Ahead(<<"record", "end", "value">>)
        BY TailsOfDraws DEF During, After
    <2>3. Ahead(<<"record", "end", "wait">>)
        BY TailsOfDraws DEF During, After
    <2>4. Ahead(<<"end", "value">>)
        BY TailsOfDraws DEF During, After
    <2>5. Ahead(<<"end", "wait">>)
        BY TailsOfDraws DEF During, After
    <2> HIDE DEF Ahead
    <2>6. \A s \in During : Ahead(s)
        BY <2>1, <2>2, <2>3, <2>4, <2>5 DEF During
    <2>7. \A s \in During : s # <<>> /\ s \notin Before /\ s \notin After
        BY DEF Before, During, After
    <2>8. \A s \in During : /\ Head(s) \in {"layers?", "record", "end"}
                            /\ Head(s) = "layers?" => s[Len(s)] = "wait"
        BY DEF During
    <2> QED BY <2>6, <2>7, <2>8 DEF Ahead
<1>3. \A s \in After :
        /\ s # <<>> /\ s \notin Before /\ s \notin During
        /\ Head(s) \in {"value", "wait"} /\ Tail(s) = <<>>
    <2>1. \A s \in After : Tail(s) = <<>>
        BY TailsOfDraws DEF After
    <2>2. \A s \in After : s # <<>> /\ s \notin Before /\ s \notin During
        BY DEF Before, During, After
    <2>3. \A s \in After : Head(s) \in {"value", "wait"}
        BY DEF After
    <2> QED BY <2>1, <2>2, <2>3
<1>4. <<>> \notin Before \cup During \cup After
    BY DEF Before, During, After
<1>5. DrawSenders \subseteq Before
    BY DEF Before, DrawSenders, SyncDraw, AsyncDraw, DrawSender, DrawAsyncSender, DrawMeshSender,
       DrawMeshAsyncSender, DrawBindSender, DrawBindAsyncSender, DrawMeshBindSender,
       DrawMeshBindAsyncSender, DrawLayersSender, DrawLayersAsyncSender
<1> QED BY <1>1, <1>2, <1>3, <1>4, <1>5

\* A completion is the one outcome of the draw under way.
LEMMA CompletedDraw ==
    ASSUME DrawIInv, steps # <<>> \/ waited # 0,
           NEW o \in {"value", "stopped", "error"}, Completes(o)
    PROVE  /\ steps' = <<>> /\ draws \in 1 .. MaxDraws
           /\ outcomes' \in [1 .. MaxDraws -> {{}, {"value"}, {"stopped"}, {"error"}}]
           /\ outcomes'[draws] = {o}
           /\ \A n \in 1 .. MaxDraws : n # draws => outcomes'[n] = outcomes[n]
<1>1. draws \in 1 .. MaxDraws /\ outcomes[draws] = {}
    BY MaxDrawsAssumption DEF DrawIInv, DrawTypes, UnderWay
<1>2. outcomes' = [outcomes EXCEPT ![draws] = {} \cup {o}] /\ steps' = <<>>
    BY <1>1 DEF Completes
<1>3. {} \cup {o} = {o} /\ {o} \in {{}, {"value"}, {"stopped"}, {"error"}}
    OBVIOUS
<1> QED BY <1>1, <1>2, <1>3 DEF DrawIInv, DrawTypes

\* A draw ends: what it tells agrees with its frame.
LEMMA DrawEnds ==
    ASSUME DrawIInv, steps # <<>> \/ waited # 0,
           NEW o \in {"value", "stopped", "error"}, Completes(o),
           draws' = draws, waited' = 0, frameOpen' \in BOOLEAN,
           begun \subseteq begun', begun' \subseteq begun \cup {draws}, shown' = shown,
           o = "value" => draws \in shown \/ draws \notin begun',
           frameOpen' => \/ draws \in begun' \ shown /\ o = "error"
                         \/ frameOpen /\ steps \notin During
    PROVE  DrawIInv'
<1>0. /\ steps' = <<>> /\ draws \in 1 .. MaxDraws
      /\ outcomes' \in [1 .. MaxDraws -> {{}, {"value"}, {"stopped"}, {"error"}}]
      /\ outcomes'[draws] = {o}
      /\ \A n \in 1 .. MaxDraws : n # draws => outcomes'[n] = outcomes[n]
    BY CompletedDraw
<1>1. DrawTypes'
    BY <1>0, MaxDrawsAssumption DEF DrawIInv, DrawTypes
<1>2. UnderWay'
    BY <1>0, StepsAhead, MaxDrawsAssumption DEF DrawIInv, DrawTypes, UnderWay
<1>3. OpenInv'
    <2> SUFFICES ASSUME frameOpen' PROVE \E n \in begun' \ shown' : outcomes'[n] = {"error"}
        BY DEF OpenInv
    <2>1. CASE draws \in begun' \ shown /\ o = "error"
        BY <1>0, <2>1
    <2>2. CASE frameOpen /\ steps \notin During
        <3>1. PICK n \in begun \ shown : outcomes[n] = {"error"}
            BY <2>2 DEF DrawIInv, OpenInv
        <3>2. n # draws
            BY <3>1 DEF DrawIInv, UnderWay
        <3>3. n \in 1 .. MaxDraws
            BY <3>1, MaxDrawsAssumption DEF DrawIInv, DrawTypes
        <3> QED BY <1>0, <3>1, <3>2, <3>3
    <2> QED BY <2>1, <2>2
<1>4. ValueInv'
    BY <1>0 DEF DrawIInv, DrawTypes, ValueInv
<1> QED BY <1>1, <1>2, <1>3, <1>4 DEF DrawIInv

\* The next draw begins with all its steps ahead.
LEMMA StartDrawKeeps ==
    ASSUME DrawIInv, StartDraw
    PROVE  DrawIInv'
<1> USE DEF DrawIInv, StartDraw
<1>0. /\ steps' \in Before /\ steps' \notin During \cup After \cup {<<>>} /\ steps \notin During
      /\ draws \in Nat /\ draws' \in 1 .. MaxDraws /\ draws' = draws + 1
    BY StepsAhead, MaxDrawsAssumption DEF DrawTypes
<1>1. DrawTypes'
    BY <1>0 DEF DrawTypes
<1>2. UnderWay'
    BY <1>0 DEF UnderWay, DrawTypes
<1>3. OpenInv' /\ ValueInv'
    BY <1>0 DEF OpenInv, ValueInv
<1> QED BY <1>1, <1>2, <1>3

\* The stop token is looked at before the frame begins.
LEMMA LookAtStopKeeps ==
    ASSUME DrawIInv, LookAtStop
    PROVE  DrawIInv'
<1>0. steps # <<>> /\ Head(steps) = "stop?" /\ waited = 0
    BY DEF LookAtStop, IsAt, DrawIInv, UnderWay
<1>1. steps \in Before /\ steps \notin During
    BY <1>0, StepsAhead DEF DrawIInv, DrawTypes
<1>2. CASE GoesOn
    BY <1>0, <1>1, <1>2, StepsAhead DEF LookAtStop, GoesOn, DrawIInv, DrawTypes, UnderWay, OpenInv, ValueInv
<1>3. CASE Completes("stopped")
    BY <1>0, <1>1, <1>3, DrawEnds DEF LookAtStop, DrawIInv, DrawTypes
<1> QED BY <1>2, <1>3 DEF LookAtStop

\* No layers: an error, inside the frame or before it.
LEMMA LookAtLayersKeeps ==
    ASSUME DrawIInv, LookAtLayers
    PROVE  DrawIInv'
<1>0. steps # <<>> /\ Head(steps) = "layers?" /\ waited = 0
    BY DEF LookAtLayers, IsAt, DrawIInv, UnderWay
<1>1. \/ steps \in Before /\ Tail(steps) \in Before
      \/ steps \in During /\ Tail(steps) \in During
    BY <1>0, StepsAhead DEF DrawIInv, DrawTypes
<1>2. CASE GoesOn
    BY <1>0, <1>1, <1>2, StepsAhead DEF LookAtLayers, GoesOn, DrawIInv, DrawTypes, UnderWay, OpenInv, ValueInv
<1>3. CASE Completes("error")
    <2>1. steps \in During => draws \in begun \ shown
        BY DEF DrawIInv, UnderWay
    <2> QED BY <1>0, <1>3, <2>1, DrawEnds DEF LookAtLayers, DrawIInv, DrawTypes
<1> QED BY <1>2, <1>3 DEF LookAtLayers

\* The frame begins; or there is none, or an error, with or without a frame
\* that is left open.
LEMMA BeginDrawKeeps ==
    ASSUME DrawIInv, BeginDraw
    PROVE  DrawIInv'
<1>0. steps # <<>> /\ Head(steps) = "begin" /\ waited = 0
    BY DEF BeginDraw, IsAt, DrawIInv, UnderWay
<1>1. /\ steps \in Before /\ Tail(steps) \in During /\ draws \notin begun
      /\ draws \in 1 .. MaxDraws
    BY <1>0, StepsAhead, MaxDrawsAssumption DEF DrawIInv, DrawTypes, UnderWay
<1>2. CASE GoesOn /\ frameOpen' = TRUE /\ begun' = begun \cup {draws}
    BY <1>0, <1>1, <1>2, StepsAhead
       DEF BeginDraw, GoesOn, DrawIInv, DrawTypes, UnderWay, OpenInv, ValueInv
<1>3. CASE ~ frameOpen /\ Completes("value") /\ UNCHANGED <<frameOpen, begun>>
    BY <1>0, <1>1, <1>3, DrawEnds DEF BeginDraw, DrawIInv, DrawTypes
<1>4. CASE Completes("error") /\ UNCHANGED <<frameOpen, begun>>
    BY <1>0, <1>1, <1>4, StepsAhead, DrawEnds DEF BeginDraw, DrawIInv, DrawTypes
<1>5. CASE Completes("error") /\ frameOpen' = TRUE /\ begun' = begun \cup {draws}
    <2>1. draws \in begun' \ shown
        BY <1>1, <1>5 DEF DrawIInv, UnderWay
    <2> QED BY <1>0, <1>5, <2>1, DrawEnds DEF BeginDraw
<1> QED BY <1>2, <1>3, <1>4, <1>5 DEF BeginDraw

\* Recording may fail, and leaves the frame open then.
LEMMA RecordDrawKeeps ==
    ASSUME DrawIInv, RecordDraw
    PROVE  DrawIInv'
<1>0. steps # <<>> /\ Head(steps) = "record" /\ waited = 0
    BY DEF RecordDraw, IsAt, DrawIInv, UnderWay
<1>1. steps \in During /\ Tail(steps) \in During /\ draws \in begun \ shown
    BY <1>0, StepsAhead DEF DrawIInv, DrawTypes, UnderWay
<1>2. CASE GoesOn
    BY <1>0, <1>1, <1>2, StepsAhead DEF RecordDraw, GoesOn, DrawIInv, DrawTypes, UnderWay, OpenInv, ValueInv
<1>3. CASE Completes("error")
    BY <1>0, <1>1, <1>3, DrawEnds DEF RecordDraw, DrawIInv, DrawTypes
<1> QED BY <1>2, <1>3 DEF RecordDraw

\* Ending presents the frame.
LEMMA EndDrawKeeps ==
    ASSUME DrawIInv, EndDraw
    PROVE  DrawIInv'
<1>0. steps # <<>> /\ Head(steps) = "end" /\ waited = 0
    BY DEF EndDraw, IsAt, DrawIInv, UnderWay
<1>1. steps \in During /\ Tail(steps) \in After /\ draws \in begun \ shown
    BY <1>0, StepsAhead DEF DrawIInv, DrawTypes, UnderWay
<1>2. CASE GoesOn /\ frameOpen' = FALSE /\ shown' = shown \cup {draws}
    BY <1>0, <1>1, <1>2, StepsAhead DEF EndDraw, GoesOn, DrawIInv, DrawTypes, UnderWay, OpenInv, ValueInv
<1>3. CASE Completes("error") /\ UNCHANGED <<frameOpen, shown>>
    BY <1>0, <1>1, <1>3, DrawEnds DEF EndDraw, DrawIInv, DrawTypes
<1> QED BY <1>2, <1>3 DEF EndDraw, EndFailed

\* A synchronous draw completes with its value when it was presented.
LEMMA CompleteDrawKeeps ==
    ASSUME DrawIInv, CompleteDraw
    PROVE  DrawIInv'
<1>0. /\ steps # <<>> /\ Head(steps) = "value" /\ waited = 0
      /\ UNCHANGED <<draws, waited, frameOpen, begun, shown>>
    BY DEF CompleteDraw, IsAt, DrawIInv, UnderWay
<1>1. draws \in shown /\ ~ frameOpen
    BY <1>0, StepsAhead DEF DrawIInv, DrawTypes, UnderWay
<1> QED BY <1>0, <1>1, DrawEnds DEF CompleteDraw, DrawIInv, DrawTypes

\* Or is handed to the thread that waits for it.
LEMMA EnqueueDrawKeeps ==
    ASSUME DrawIInv, EnqueueDraw
    PROVE  DrawIInv'
<1>0. /\ steps # <<>> /\ Head(steps) = "wait" /\ waited = 0
      /\ UNCHANGED <<draws, frameOpen, begun, shown>>
    BY DEF EnqueueDraw, IsAt, DrawIInv, UnderWay
<1>1. steps \in After /\ Tail(steps) = <<>> /\ draws \in shown /\ ~ frameOpen
    BY <1>0, StepsAhead DEF DrawIInv, DrawTypes, UnderWay
<1>2. CASE GoesOn /\ waited' = draws
    <2>1. /\ steps' = <<>> /\ outcomes' = outcomes /\ steps' \notin Before \cup During \cup After
          /\ steps \notin During
        BY <1>1, <1>2, StepsAhead DEF GoesOn
    <2>2. DrawTypes'
        BY <1>0, <1>2, <2>1 DEF DrawIInv, DrawTypes
    <2>3. UnderWay'
        BY <1>0, <1>1, <1>2, <2>1 DEF DrawIInv, UnderWay
    <2>4. OpenInv' /\ ValueInv'
        BY <1>0, <1>1, <2>1 DEF DrawIInv, OpenInv, ValueInv
    <2> QED BY <2>2, <2>3, <2>4 DEF DrawIInv
<1>3. CASE Completes("error") /\ waited' = waited
    BY <1>0, <1>1, <1>3, DrawEnds DEF DrawIInv, DrawTypes
<1> QED BY <1>2, <1>3 DEF EnqueueDraw

\* The thread completes it.
LEMMA WaitCallsKeeps ==
    ASSUME DrawIInv, WaitCalls
    PROVE  DrawIInv'
<1>0. waited # 0 /\ waited' = 0 /\ UNCHANGED <<draws, frameOpen, begun, shown>>
    BY DEF WaitCalls
<1>1. draws \in shown /\ ~ frameOpen
    BY <1>0 DEF DrawIInv, UnderWay
<1>2. PICK o \in {"value", "stopped", "error"} : Completes(o)
    BY DEF WaitCalls
<1> QED BY <1>0, <1>1, <1>2, DrawEnds DEF DrawIInv, DrawTypes

\* Every step keeps the invariant.
LEMMA DrawStep ==
    ASSUME DrawIInv, [DrawNext]_drawVars
    PROVE  DrawIInv'
<1>1. CASE UNCHANGED drawVars
    BY <1>1 DEF drawVars, DrawIInv, DrawTypes, UnderWay, OpenInv, ValueInv
<1>2. ASSUME NEW n \in 1 .. MaxDraws, RenderDraw(n) PROVE DrawIInv'
    BY <1>2 DEF RenderDraw, DrawIInv, DrawTypes, UnderWay, OpenInv, ValueInv
<1> QED
    BY <1>1, <1>2, StartDrawKeeps, LookAtStopKeeps, LookAtLayersKeeps, BeginDrawKeeps, RecordDrawKeeps,
       EndDrawKeeps, CompleteDrawKeeps, EnqueueDrawKeeps, WaitCallsKeeps DEF DrawNext, DrawThread

\* No draw yet.
LEMMA DrawInitial == DrawInit => DrawIInv
<1> SUFFICES ASSUME DrawInit PROVE DrawIInv
    OBVIOUS
<1>0. <<>> \notin Before \cup During \cup After
    BY StepsAhead
<1>1. DrawTypes
    <2>1. outcomes \in [1 .. MaxDraws -> {{}, {"value"}, {"stopped"}, {"error"}}]
        BY DEF DrawInit
    <2>2. draws \in 0 .. MaxDraws /\ waited \in 0 .. MaxDraws /\ frameOpen \in BOOLEAN
        <3>1. 0 \in 0 .. MaxDraws
            BY MaxDrawsAssumption
        <3> QED BY <3>1 DEF DrawInit
    <2>3. steps = <<>> /\ begun \subseteq 1 .. draws
        BY DEF DrawInit
    <2> QED BY <2>1, <2>2, <2>3 DEF DrawTypes
<1>2. UnderWay
    BY <1>0 DEF DrawInit, UnderWay
<1>3. OpenInv /\ ValueInv
    BY DEF DrawInit, OpenInv, ValueInv
<1> QED BY <1>1, <1>2, <1>3 DEF DrawIInv

\* The property follows from what became of each draw.
LEMMA DrawImplies == DrawIInv => DrawsTellTruth
<1> SUFFICES ASSUME DrawIInv PROVE DrawsTellTruth
    OBVIOUS
<1>1. ValueIsShown
    BY DEF ValueIsShown, DrawIInv, DrawTypes, ValueInv
<1>2. OpenFrameHasCause
    <2>1. steps = <<>> /\ waited = 0 /\ frameOpen => \E n \in begun \ shown : outcomes[n] = {"error"}
        BY StepsAhead DEF DrawIInv, OpenInv
    <2>2. IsAt("layers?") /\ steps[Len(steps)] = "value" => draws \notin begun
        BY StepsAhead DEF IsAt, DrawIInv, DrawTypes, UnderWay
    <2> QED BY <2>1, <2>2 DEF OpenFrameHasCause
<1> QED BY <1>1, <1>2 DEF DrawsTellTruth

\* A draw that completes with a value has presented the frame that it began
\* and has no other outcome; and a frame is left open only by a draw that
\* began it and failed.
THEOREM DrawsTell == DrawSpec => []DrawsTellTruth
<1>1. DrawIInv /\ [DrawNext]_drawVars => DrawIInv'
    BY DrawStep
<1> QED BY <1>1, DrawInitial, DrawImplies, PTL DEF DrawSpec

-----------------------------------------------------------------------------
(* Numbers *)

\* A set of natural numbers has a first one.
LEMMA FirstNumber ==
    ASSUME NEW S \in SUBSET Nat, S # {}
    PROVE  \E n \in S : \A m \in S : n <= m
<1>1. \E n \in S : \A m \in S : ~ (<<m, n>> \in OpToRel(<, Nat))
    BY WFMin, NatLessThanWellFounded
<1>2. PICK n \in S : \A m \in S : ~ (<<m, n>> \in OpToRel(<, Nat))
    BY <1>1
<1>3. \A m \in S : ~ (m < n)
    BY <1>2 DEF OpToRel
<1> QED
    BY <1>3

\* Induction, for a set: it has every number if it has each whose
\* predecessors it has.
LEMMA AllNumbers ==
    ASSUME NEW S, \A n \in Nat : (\A m \in 0 .. n - 1 : m \in S) => n \in S
    PROVE  \A n \in Nat : n \in S
<1> SUFFICES ASSUME NEW k \in Nat, k \notin S
             PROVE  FALSE
    OBVIOUS
<1>1. Nat \ S # {}
    OBVIOUS
<1>2. PICK n \in Nat \ S : \A m \in Nat \ S : n <= m
    BY <1>1, FirstNumber
<1>3. \A m \in 0 .. n - 1 : m \in S
    BY <1>2
<1> QED
    BY <1>2, <1>3

-----------------------------------------------------------------------------
(* Descriptor sets: what a binding tells the tracker *)

AllResources == UNION {Resources(k) : k \in ResourceKinds}
Entries == [slot : Slots, resource : AllResources]
UseAccesses == {"readonly", "writeonly", "readwrite"}
Uses == [kind : ResourceKinds, access : UseAccesses]
Binds == [set : SetIds \cup {"none"}, metadata : {"none", "partial", "complete"}, uses : Seq(Uses),
          described : BOOLEAN]

\* The pipelines and tables that there are.
PipeGiven ==
    /\ table \in Seq(Entries)
    /\ pipe.binds \in {"compute", "graphics", "heap"} /\ (pipe.opaque <=> pipe.binds = "heap")
    /\ pipe.count \in Nat /\ pipe.slots \in Seq(Slots) /\ pipe.kinds \in Seq(ResourceKinds)
    /\ pipe.binds = "compute" =>
        /\ pipe.accesses \in Seq(Accesses) /\ Len(pipe.accesses) = pipe.count
        /\ Len(pipe.slots) \in {0, pipe.count} /\ Len(pipe.kinds) \in {0, pipe.count}
    /\ pipe.binds = "graphics" => Len(pipe.slots) = pipe.count /\ Len(pipe.kinds) = pipe.count
    /\ pipe.binds = "heap" => pipe.count = 0 /\ pipe.slots = <<>>

\* A pipeline and a table of one schema fit each other, binding by binding.
SchemaGiven ==
    schema # <<>> =>
        /\ pipe.binds = "compute" /\ Fits
        /\ Len(pipe.slots) = pipe.count /\ Len(pipe.kinds) = pipe.count
        /\ \A i \in 1 .. pipe.count :
            /\ table[i].slot = pipe.slots[i] /\ table[i].resource.kind = pipe.kinds[i]
            /\ pipe.kinds[i] = "sampled_image" => pipe.accesses[i] = "readonly"
        /\ \A i, j \in 1 .. pipe.count : i # j => pipe.slots[i] # pipe.slots[j]

SetTypes ==
    /\ holder \in [SetIds -> {"pool", "caller", "step", "lost"}] /\ written \in SUBSET SetIds
    /\ bind \in Binds

\* What a binding says of pipeline and table.
TellsTruth(b) ==
    /\ b.described => (b.metadata = "complete" <=> Agree)
    /\ ~ b.described /\ b.metadata = "complete" => ~ pipe.opaque /\ Touched = {}
    /\ b.metadata = "complete" /\ b.described =>
        /\ Len(b.uses) = Cardinality(Touched)
        /\ \A i \in Touched : \E u \in Range(b.uses) :
            u = [kind |-> BindingKind(i), access |-> BindingAccess(i)]

\* A described set is the caller's and was written.
BoundHeld ==
    bind.described /\ bind.set \in SetIds => bind.set \in written /\ holder[bind.set] = "caller"

Sized == ~ pipe.opaque /\ Len(table) = pipe.count

SetsInv == PipeGiven /\ SchemaGiven /\ SetTypes /\ TellsTruth(bind) /\ BoundHeld

\* The loop of BindTable over the first m entries of a table.
IsBound(T, b, m, g) ==
    g = [n \in 0 .. m |-> IF n = 0 THEN [seen |-> {}, bind |-> b]
                          ELSE BindEntry(g[n - 1], T[n])]

\* An entry is right for binding i.
Right(i, e) ==
    /\ i \in BindingIndex(e.slot) /\ BindingKind(i) = e.resource.kind
    /\ e.resource.kind # "sampler" => e.resource.tracked
    /\ e.resource.kind = "sampled_image" => BindingAccess(i) = "readonly"

SeenBy(n) == {i \in 1 .. pipe.count : \E k \in 1 .. n : i \in BindingIndex(table[k].slot)}

AllRight(n) ==
    /\ \A k \in 1 .. n : \E i \in 1 .. pipe.count : Right(i, table[k])
    /\ \A k, l \in 1 .. n : \A i \in 1 .. pipe.count :
        i \in BindingIndex(table[k].slot) /\ i \in BindingIndex(table[l].slot) => k = l

ToTrack(S) == {i \in S : BindingKind(i) # "sampler"}

UsesOfAll(b, S) ==
    /\ Len(b.uses) = Cardinality(ToTrack(S))
    /\ \A i \in ToTrack(S) : \E u \in 1 .. Len(b.uses) :
        b.uses[u] = [kind |-> BindingKind(i), access |-> BindingAccess(i)]

\* What the loop has after n entries.
IsBinding(b, s) ==
    /\ b \in Binds /\ b.set = s /\ b.described
    /\ b.metadata \in {"complete", "partial"}

BoundUpTo(acc, s, n) ==
    /\ acc = [seen |-> acc.seen, bind |-> acc.bind]
    /\ acc.seen \in SUBSET SeenBy(n) /\ IsBinding(acc.bind, s)
    /\ acc.bind.metadata = "complete" <=> Sized /\ AllRight(n)
    /\ acc.bind.metadata = "complete" => acc.seen = SeenBy(n) /\ UsesOfAll(acc.bind, acc.seen)

-----------------------------------------------------------------------------

LEMMA BoundExists ==
    ASSUME NEW T, NEW b
    PROVE  \A m \in Nat : \E g : IsBound(T, b, m, g)
<1> DEFINE Good == {m \in Nat : \E g : IsBound(T, b, m, g)}
<1>1. ASSUME NEW m \in Nat, \A k \in 0 .. m - 1 : k \in Good
      PROVE  m \in Good
    <2>1. CASE m = 0
        <3>1. PICK g : g = [n \in 0 .. 0 |-> [seen |-> {}, bind |-> b]]
            OBVIOUS
        <3>2. IsBound(T, b, 0, g)
            BY <3>1 DEF IsBound
        <3> QED
            BY <2>1, <3>2
    <2>2. CASE m # 0
        <3>1. m - 1 \in Good
            BY <1>1, <2>2
        <3>2. PICK h : h = [n \in 0 .. m - 1 |-> IF n = 0 THEN [seen |-> {}, bind |-> b]
                                                 ELSE BindEntry(h[n - 1], T[n])]
            BY <3>1 DEF IsBound
        <3>3. PICK g : g = [n \in 0 .. m |-> IF n = m THEN BindEntry(h[m - 1], T[m]) ELSE h[n]]
            OBVIOUS
        <3>4. ASSUME NEW n \in 0 .. m
              PROVE  g[n] = IF n = 0 THEN [seen |-> {}, bind |-> b] ELSE BindEntry(g[n - 1], T[n])
            <4>1. CASE n = 0
                BY <2>2, <3>2, <3>3, <4>1
            <4>2. CASE n # 0
                <5>1. n - 1 \in 0 .. m - 1 /\ n - 1 \in 0 .. m /\ n - 1 # m
                    BY <4>2
                <5>2. g[n - 1] = h[n - 1]
                    BY <3>3, <5>1
                <5>3. CASE n = m
                    <6>1. g[n] = BindEntry(h[m - 1], T[m])
                        BY <3>3, <5>3
                    <6> QED
                        BY <4>2, <5>2, <5>3, <6>1
                <5>4. CASE n # m
                    <6>1. n \in 0 .. m - 1 /\ g[n] = h[n]
                        BY <3>3, <5>4
                    <6>2. h[n] = BindEntry(h[n - 1], T[n])
                        BY <3>2, <4>2, <6>1
                    <6> QED
                        BY <4>2, <5>2, <6>1, <6>2
                <5> QED
                    BY <5>3, <5>4
            <4> QED
                BY <4>1, <4>2
        <3>5. g = [n \in 0 .. m |-> IF n = 0 THEN [seen |-> {}, bind |-> b]
                                    ELSE BindEntry(g[n - 1], T[n])]
            BY <3>3, <3>4
        <3>6. IsBound(T, b, m, g)
            BY <3>5 DEF IsBound
        <3> QED
            BY <3>6
    <2> QED
        BY <2>1, <2>2
<1> HIDE DEF Good
<1>2. \A m \in Nat : m \in Good
    BY <1>1, AllNumbers
<1> QED
    BY <1>2 DEF Good

LEMMA IndexIsOne ==
    ASSUME PipeGiven, NEW slot \in Slots
    PROVE  /\ BindingIndex(slot) \subseteq 1 .. pipe.count
           /\ \A i, j \in BindingIndex(slot) : i = j
<1>1. slot \in Nat
    BY DescriptorsAssumption DEF DescriptorsAssumption
<1>2. CASE pipe.slots = <<>> /\ pipe.binds # "graphics"
    BY <1>1, <1>2 DEF BindingIndex
<1>3. CASE ~ (pipe.slots = <<>> /\ pipe.binds # "graphics")
    <2>1. DOMAIN pipe.slots = 1 .. Len(pipe.slots) /\ Len(pipe.slots) \in Nat
        BY DEF PipeGiven
    <2>2. BindingIndex(slot) = {i \in 1 .. Len(pipe.slots) :
            pipe.slots[i] = slot /\ \A j \in 1 .. i - 1 : pipe.slots[j] # slot}
        BY <1>3, <2>1 DEF BindingIndex
    <2>3. Len(pipe.slots) \in {0, pipe.count}
        <3>1. CASE pipe.binds = "heap"
            BY <1>3, <3>1 DEF PipeGiven
        <3> QED
            BY <3>1 DEF PipeGiven
    <2>4. pipe.count \in Nat
        BY DEF PipeGiven
    <2>5. ASSUME NEW i \in BindingIndex(slot), NEW j \in BindingIndex(slot), i < j
          PROVE  FALSE
        BY <2>1, <2>2, <2>5
    <2>6. BindingIndex(slot) \subseteq 1 .. Len(pipe.slots)
        BY <2>2
    <2> QED
        BY <2>1, <2>3, <2>4, <2>5, <2>6
<1> QED
    BY <1>2, <1>3

LEMMA KindsAndAccesses ==
    ASSUME PipeGiven, NEW i \in 1 .. pipe.count
    PROVE  BindingKind(i) \in ResourceKinds /\ BindingAccess(i) \in UseAccesses
<1>1. pipe.binds # "heap" /\ pipe.count \in Nat /\ pipe.kinds \in Seq(ResourceKinds)
    BY DEF PipeGiven
<1>2. BindingKind(i) \in ResourceKinds
    <2>1. CASE pipe.kinds = <<>>
        BY <2>1 DEF BindingKind, ResourceKinds
    <2>2. CASE pipe.kinds # <<>>
        <3>1. Len(pipe.kinds) = pipe.count
            BY <1>1, <2>2 DEF PipeGiven
        <3> QED
            BY <1>1, <2>2, <3>1 DEF BindingKind
    <2> QED
        BY <2>1, <2>2
<1>3. BindingAccess(i) \in UseAccesses
    <2>1. CASE pipe.binds = "compute"
        <3>1. pipe.accesses[i] \in Accesses
            BY <2>1 DEF PipeGiven
        <3> QED
            BY <2>1, <3>1, DescriptorsAssumption DEF BindingAccess, UseAccesses, DescriptorsAssumption
    <2>2. CASE pipe.binds # "compute"
        BY <2>2 DEF BindingAccess, UseAccesses
    <2> QED
        BY <2>1, <2>2
<1> QED
    BY <1>2, <1>3

LEMMA EntryTypes ==
    ASSUME NEW e \in Entries
    PROVE  /\ e.slot \in Slots /\ e.resource.kind \in ResourceKinds /\ e.resource.tracked \in BOOLEAN
           /\ e.resource.kind = "sampler" => e.resource.tracked
<1>1. e.slot \in Slots /\ e.resource \in AllResources
    BY DEF Entries
<1>2. PICK k \in ResourceKinds : e.resource \in Resources(k)
    BY <1>1 DEF AllResources
<1> QED
    BY <1>1, <1>2 DEF Resources

LEMMA BindTypes ==
    ASSUME NEW b \in Binds
    PROVE  /\ b.set \in SetIds \cup {"none"} /\ b.metadata \in {"none", "partial", "complete"}
           /\ b.uses \in Seq(Uses) /\ Len(b.uses) \in Nat /\ b.described \in BOOLEAN
<1>1. b.uses \in Seq(Uses)
    BY DEF Binds
<1> QED
    BY <1>1 DEF Binds

\* A binding that was told too little stays partial.
LEMMA PartialIs ==
    ASSUME NEW b, NEW s, IsBinding(b, s)
    PROVE  IsBinding(Partial(b), s) /\ Partial(b).metadata = "partial" /\ Partial(b).uses = b.uses
<1>1. b \in Binds
    BY DEF IsBinding
<1> QED
    BY <1>1 DEF IsBinding, Partial, Binds

\* What append_resource_use makes of a binding.
LEMMA AppendIs ==
    ASSUME PipeGiven, NEW b, NEW s, IsBinding(b, s), NEW e \in Entries, NEW i \in 1 .. pipe.count,
           NEW c, c = AppendResourceUse(b, e.resource, BindingAccess(i)),
           NEW fit \in BOOLEAN,
           fit <=> /\ e.resource.kind # "sampler" => e.resource.tracked
                   /\ e.resource.kind = "sampled_image" => BindingAccess(i) = "readonly"
    PROVE  /\ IsBinding(c, s)
           /\ c.metadata = "complete" <=> b.metadata = "complete" /\ fit
           /\ fit => c.uses = IF e.resource.kind = "sampler" THEN b.uses
                              ELSE Append(b.uses, [kind |-> e.resource.kind, access |-> BindingAccess(i)])
<1>1. b \in Binds /\ b.metadata \in {"complete", "partial"} /\ b.uses \in Seq(Uses)
    BY BindTypes DEF IsBinding
<1>2. e.resource.kind \in ResourceKinds /\ e.resource.tracked \in BOOLEAN
      /\ (e.resource.kind = "sampler" => e.resource.tracked)
    BY EntryTypes
<1>3. BindingAccess(i) \in UseAccesses
    BY KindsAndAccesses
<1>4. CASE e.resource.kind = "sampler"
    <2>1. c = b /\ fit
        BY <1>4 DEF AppendResourceUse
    <2> QED
        BY <1>1, <1>4, <2>1
<1>5. CASE e.resource.kind # "sampler" /\ ~ fit
    <2>1. c = Partial(b)
        BY <1>2, <1>5 DEF AppendResourceUse
    <2> QED
        BY <1>5, <2>1, PartialIs
<1>6. CASE e.resource.kind # "sampler" /\ fit
    <2>1. PICK u : u = [kind |-> e.resource.kind, access |-> BindingAccess(i)]
        OBVIOUS
    <2>2. u \in Uses
        BY <1>2, <1>3, <2>1 DEF Uses
    <2>3. c = [b EXCEPT !.uses = Append(@, u)]
        BY <1>2, <1>6, <2>1 DEF AppendResourceUse
    <2>4. Append(b.uses, u) \in Seq(Uses)
        BY <1>1, <2>2
    <2>5. c \in Binds /\ c.set = b.set /\ c.described = b.described /\ c.metadata = b.metadata
          /\ c.uses = Append(b.uses, u)
        BY <1>1, <2>3, <2>4 DEF Binds
    <2> QED
        BY <1>1, <1>6, <2>1, <2>5 DEF IsBinding
<1> QED
    BY <1>4, <1>5, <1>6

\* What the first n entries say, and one more.
LEMMA OneEntryMore ==
    ASSUME PipeGiven, NEW n \in 1 .. Len(table)
    PROVE  /\ table[n] \in Entries
           /\ SeenBy(n) = SeenBy(n - 1) \cup BindingIndex(table[n].slot)
           /\ AllRight(n) <=>
                /\ AllRight(n - 1) /\ \E i \in 1 .. pipe.count : Right(i, table[n])
                /\ BindingIndex(table[n].slot) \cap SeenBy(n - 1) = {}
<1>1. table \in Seq(Entries) /\ Len(table) \in Nat
    BY DEF PipeGiven
<1>2. table[n] \in Entries
    BY <1>1
<1>3. BindingIndex(table[n].slot) \subseteq 1 .. pipe.count
    BY <1>2, EntryTypes, IndexIsOne
<1>4. \A k : k \in 1 .. n <=> k \in 1 .. n - 1 \/ k = n
    BY <1>1
<1>5. n \notin 1 .. n - 1 /\ n \in 1 .. n
    BY <1>1
<1>6. SeenBy(n) = SeenBy(n - 1) \cup BindingIndex(table[n].slot)
    BY <1>3, <1>4 DEF SeenBy
<1>7. ASSUME AllRight(n)
      PROVE  /\ AllRight(n - 1) /\ \E i \in 1 .. pipe.count : Right(i, table[n])
             /\ BindingIndex(table[n].slot) \cap SeenBy(n - 1) = {}
    <2>1. AllRight(n - 1) /\ \E i \in 1 .. pipe.count : Right(i, table[n])
        BY <1>4, <1>7 DEF AllRight
    <2>2. ASSUME NEW i \in BindingIndex(table[n].slot), i \in SeenBy(n - 1)
          PROVE  FALSE
        <3>1. PICK k \in 1 .. n - 1 : i \in BindingIndex(table[k].slot)
            BY <2>2 DEF SeenBy
        <3>2. k = n
            BY <1>3, <1>4, <1>7, <2>2, <3>1 DEF AllRight
        <3> QED
            BY <1>5, <3>1, <3>2
    <2> QED
        BY <2>1, <2>2
<1>8. ASSUME AllRight(n - 1), \E i \in 1 .. pipe.count : Right(i, table[n]),
             BindingIndex(table[n].slot) \cap SeenBy(n - 1) = {}
      PROVE  AllRight(n)
    <2>1. \A k \in 1 .. n : \E i \in 1 .. pipe.count : Right(i, table[k])
        BY <1>4, <1>8 DEF AllRight
    <2>2. ASSUME NEW k \in 1 .. n - 1, NEW i \in 1 .. pipe.count,
                 i \in BindingIndex(table[n].slot), i \in BindingIndex(table[k].slot)
          PROVE  FALSE
        BY <1>8, <2>2 DEF SeenBy
    <2>3. ASSUME NEW k \in 1 .. n, NEW l \in 1 .. n, NEW i \in 1 .. pipe.count,
                 i \in BindingIndex(table[k].slot), i \in BindingIndex(table[l].slot)
          PROVE  k = l
        <3>1. CASE k \in 1 .. n - 1 /\ l \in 1 .. n - 1
            BY <1>8, <2>3, <3>1 DEF AllRight
        <3> QED
            BY <1>4, <2>2, <2>3, <3>1
    <2> QED
        BY <2>1, <2>3 DEF AllRight
<1> QED
    BY <1>2, <1>6, <1>7, <1>8

\* One resource more to be tracked.
LEMMA OneUseMore ==
    ASSUME PipeGiven, NEW S \in SUBSET (1 .. pipe.count), NEW i \in (1 .. pipe.count) \ S,
           NEW b, NEW s, IsBinding(b, s), UsesOfAll(b, S),
           NEW c, c.uses = IF BindingKind(i) = "sampler" THEN b.uses
                           ELSE Append(b.uses, [kind |-> BindingKind(i), access |-> BindingAccess(i)])
    PROVE  UsesOfAll(c, S \cup {i})
<1>1. b.uses \in Seq(Uses) /\ Len(b.uses) \in Nat
    BY BindTypes DEF IsBinding
<1>2. CASE BindingKind(i) = "sampler"
    <2>1. ToTrack(S \cup {i}) = ToTrack(S)
        BY <1>2 DEF ToTrack
    <2>2. c.uses = b.uses
        BY <1>2
    <2> QED
        BY <2>1, <2>2 DEF UsesOfAll
<1>3. CASE BindingKind(i) # "sampler"
    <2>1. PICK u : u = [kind |-> BindingKind(i), access |-> BindingAccess(i)]
        OBVIOUS
    <2>2. u \in Uses
        BY <2>1, KindsAndAccesses DEF Uses
    <2>3. ToTrack(S \cup {i}) = ToTrack(S) \cup {i} /\ i \notin ToTrack(S)
        BY <1>3 DEF ToTrack
    <2>4. IsFiniteSet(ToTrack(S))
        <3>1. IsFiniteSet(1 .. pipe.count)
            <4>1. pipe.count \in Int /\ 1 \in Int
                BY DEF PipeGiven
            <4> QED
                BY <4>1, FS_Interval
        <3>2. ToTrack(S) \in SUBSET (1 .. pipe.count)
            BY DEF ToTrack
        <3> QED
            BY <3>1, <3>2, FS_Subset
    <2>5. Cardinality(ToTrack(S) \cup {i}) = Cardinality(ToTrack(S)) + 1
        BY <2>3, <2>4, FS_AddElement
    <2>6. c.uses = Append(b.uses, u)
        BY <1>3, <2>1
    <2>7. /\ Len(c.uses) = Len(b.uses) + 1 /\ c.uses[Len(b.uses) + 1] = u
          /\ \A k \in 1 .. Len(b.uses) : c.uses[k] = b.uses[k]
        <3>1. PICK B : B = b.uses
            OBVIOUS
        <3>2. PICK C : C = c.uses
            OBVIOUS
        <3>3. B \in Seq(Uses) /\ C = Append(B, u)
            BY <1>1, <2>6, <3>1, <3>2
        <3>4. Len(C) = Len(B) + 1 /\ C[Len(B) + 1] = u /\ \A k \in 1 .. Len(B) : C[k] = B[k]
            BY <2>2, <3>3, AppendProperties
        <3> QED
            BY <3>1, <3>2, <3>4
    <2>8. ASSUME NEW j \in ToTrack(S \cup {i})
          PROVE  \E k \in 1 .. Len(c.uses) :
                    c.uses[k] = [kind |-> BindingKind(j), access |-> BindingAccess(j)]
        <3>1. CASE j = i
            <4>1. Len(b.uses) + 1 \in 1 .. Len(c.uses)
                BY <1>1, <2>7
            <4> QED
                BY <2>1, <2>7, <3>1, <4>1
        <3>2. CASE j \in ToTrack(S)
            <4>1. PICK k \in 1 .. Len(b.uses) :
                    b.uses[k] = [kind |-> BindingKind(j), access |-> BindingAccess(j)]
                BY <3>2 DEF UsesOfAll
            <4>2. k \in 1 .. Len(c.uses)
                BY <1>1, <2>7
            <4> QED
                BY <2>7, <4>1, <4>2
        <3> QED
            BY <2>3, <3>1, <3>2
    <2> QED
        BY <2>3, <2>5, <2>7, <2>8 DEF UsesOfAll
<1> QED
    BY <1>2, <1>3

LEMMA BindEntryKeeps ==
    ASSUME PipeGiven, NEW s, NEW n \in 1 .. Len(table), NEW acc, BoundUpTo(acc, s, n - 1)
    PROVE  BoundUpTo(BindEntry(acc, table[n]), s, n)
<1>1. PICK e, S, b, I : /\ e = table[n] /\ S = acc.seen /\ b = acc.bind /\ I = BindingIndex(e.slot)
                        /\ acc = [seen |-> S, bind |-> b]
    BY DEF BoundUpTo
<1>2. /\ e \in Entries /\ SeenBy(n) = SeenBy(n - 1) \cup I
      /\ AllRight(n) <=> /\ AllRight(n - 1) /\ \E i \in 1 .. pipe.count : Right(i, e)
                         /\ I \cap SeenBy(n - 1) = {}
    BY <1>1, OneEntryMore
<1>3. I \subseteq 1 .. pipe.count /\ \A i, j \in I : i = j
    BY <1>1, <1>2, EntryTypes, IndexIsOne
<1>4. /\ S \subseteq SeenBy(n - 1) /\ IsBinding(b, s)
      /\ b.metadata = "complete" <=> Sized /\ AllRight(n - 1)
      /\ b.metadata = "complete" => S = SeenBy(n - 1) /\ UsesOfAll(b, S)
    BY <1>1 DEF BoundUpTo
<1>5. \A i : Right(i, e) => i \in I
    BY <1>1 DEF Right
<1>6. ASSUME NEW T, T \subseteq SeenBy(n), NEW c, IsBinding(c, s),
             c.metadata = "complete" <=> Sized /\ AllRight(n),
             c.metadata = "complete" => T = SeenBy(n) /\ UsesOfAll(c, T)
      PROVE  BoundUpTo([seen |-> T, bind |-> c], s, n)
    BY <1>6 DEF BoundUpTo
<1>7. Partial(b).metadata = "partial" /\ IsBinding(Partial(b), s)
    BY <1>4, PartialIs
<1>8. CASE I \ S = {}
    <2>1. BindEntry(acc, e) = [seen |-> S, bind |-> Partial(b)]
        BY <1>1, <1>8 DEF BindEntry
    <2>2. ~ (Sized /\ AllRight(n))
        BY <1>2, <1>4, <1>5, <1>8
    <2>3. S \subseteq SeenBy(n)
        BY <1>2, <1>4
    <2> QED
        BY <1>1, <1>6, <1>7, <2>1, <2>2, <2>3
<1>9. CASE I \ S # {}
    <2>1. PICK i : i = CHOOSE j \in I \ S : TRUE
        OBVIOUS
    <2>2. i \in I /\ i \notin S /\ i \in 1 .. pipe.count
        BY <1>3, <1>9, <2>1
    <2>3. \A j : Right(j, e) => j = i
        BY <1>3, <1>5, <2>2
    <2>4. I = {i}
        BY <1>3, <2>2
    <2>5. CASE BindingKind(i) # e.resource.kind
        <3>1. PICK T : T = IF pipe.binds = "graphics" THEN S ELSE S \cup {i}
            OBVIOUS
        <3>2. BindEntry(acc, e) = [seen |-> T, bind |-> Partial(b)]
            BY <1>1, <1>9, <2>1, <2>5, <3>1 DEF BindEntry
        <3>3. ~ AllRight(n)
            BY <1>2, <2>3, <2>5 DEF Right
        <3>4. T \subseteq SeenBy(n)
            BY <1>2, <1>4, <2>2, <3>1
        <3> QED
            BY <1>1, <1>6, <1>7, <3>2, <3>3, <3>4
    <2>6. CASE BindingKind(i) = e.resource.kind
        <3>1. PICK c : c = AppendResourceUse(b, e.resource, BindingAccess(i))
            OBVIOUS
        <3>2. BindEntry(acc, e) = [seen |-> S \cup {i}, bind |-> c]
            BY <1>1, <1>9, <2>1, <2>6, <3>1 DEF BindEntry
        <3>3. PICK fit \in BOOLEAN :
                fit <=> /\ e.resource.kind # "sampler" => e.resource.tracked
                        /\ e.resource.kind = "sampled_image" => BindingAccess(i) = "readonly"
            OBVIOUS
        <3>4. /\ IsBinding(c, s) /\ (c.metadata = "complete" <=> b.metadata = "complete" /\ fit)
              /\ fit => c.uses = IF e.resource.kind = "sampler" THEN b.uses
                                 ELSE Append(b.uses, [kind |-> e.resource.kind, access |-> BindingAccess(i)])
            BY <1>2, <1>4, <2>2, <3>1, <3>3, AppendIs
        <3>5. (\E j \in 1 .. pipe.count : Right(j, e)) <=> fit
            BY <1>1, <2>2, <2>3, <2>6, <3>3 DEF Right
        <3>6. c.metadata = "complete" <=> Sized /\ AllRight(n)
            BY <1>2, <1>4, <2>2, <2>4, <3>4, <3>5
        <3>7. ASSUME c.metadata = "complete"
              PROVE  S \cup {i} = SeenBy(n) /\ UsesOfAll(c, S \cup {i})
            <4>1. fit /\ S = SeenBy(n - 1) /\ UsesOfAll(b, S)
                BY <1>4, <3>4, <3>7
            <4>2. S \in SUBSET (1 .. pipe.count) /\ i \in (1 .. pipe.count) \ S
                BY <2>2, <4>1 DEF SeenBy
            <4>3. UsesOfAll(c, S \cup {i})
                BY <1>4, <2>6, <3>4, <4>1, <4>2, OneUseMore
            <4> QED
                BY <1>2, <2>4, <4>1, <4>3
        <3>8. S \cup {i} \subseteq SeenBy(n)
            BY <1>2, <1>4, <2>2
        <3> QED
            BY <1>1, <1>6, <3>2, <3>4, <3>6, <3>7, <3>8
    <2> QED
        BY <2>5, <2>6
<1> QED
    BY <1>8, <1>9

\* The loop over the table, and what it comes to.
LEMMA TableIsBound ==
    ASSUME PipeGiven, NEW s \in SetIds \cup {"none"}, NEW b, b = BindTable(s)
    PROVE  /\ IsBinding(b, s)
           /\ b.metadata = "complete" <=>
                Sized /\ AllRight(Len(table)) /\ SeenBy(Len(table)) = 1 .. pipe.count
           /\ b.metadata = "complete" => UsesOfAll(b, 1 .. pipe.count)
<1>1. PICK m \in Nat : m = Len(table)
    BY DEF PipeGiven
<1>2. PICK d : d = [BindSet(s) EXCEPT !.metadata = IF Sized THEN "complete" ELSE "partial",
                                      !.described = TRUE]
    OBVIOUS
<1>3. /\ d.set = s /\ d.described /\ d.metadata = (IF Sized THEN "complete" ELSE "partial")
      /\ d.uses = <<>> /\ d \in Binds
    <2>1. PICK e : e = BindSet(s)
        OBVIOUS
    <2>2. PICK x : x = (IF ~ pipe.opaque /\ pipe.count = 0 THEN "complete" ELSE "none")
        OBVIOUS
    <2>3. e = [set |-> s, metadata |-> x, uses |-> <<>>, described |-> FALSE]
        BY <2>1, <2>2 DEF BindSet, NoBind
    <2>4. PICK y : y = (IF Sized THEN "complete" ELSE "partial")
        OBVIOUS
    <2>5. d = [set |-> s, metadata |-> y, uses |-> <<>>, described |-> TRUE]
        <3>1. d = [e EXCEPT !.metadata = y, !.described = TRUE]
            BY <1>2, <2>1, <2>4
        <3> QED
            BY <2>3, <3>1
    <2>6. <<>> \in Seq(Uses)
        OBVIOUS
    <2>7. y \in {"none", "partial", "complete"}
        BY <2>4
    <2> QED
        BY <2>4, <2>5, <2>6, <2>7 DEF Binds
<1>4. \E g : IsBound(table, d, m, g)
    BY BoundExists
<1>5. PICK g : IsBound(table, d, m, g)
               /\ b = IF g[m].seen = 1 .. pipe.count THEN g[m].bind ELSE Partial(g[m].bind)
    <2>1. PICK g : g = CHOOSE a : IsBound(table, d, m, a)
        OBVIOUS
    <2>2. IsBound(table, d, m, g)
        BY <1>4, <2>1
    <2>3. b = IF g[m].seen = 1 .. pipe.count THEN g[m].bind ELSE Partial(g[m].bind)
        BY <1>1, <1>2, <2>1 DEF BindTable, IsBound, Sized
    <2> QED
        BY <2>2, <2>3
<1>6. g[0] = [seen |-> {}, bind |-> d] /\ \A n \in 1 .. m : g[n] = BindEntry(g[n - 1], table[n])
    <2>1. \A n \in 0 .. m : g[n] = IF n = 0 THEN [seen |-> {}, bind |-> d]
                                   ELSE BindEntry(g[n - 1], table[n])
        BY <1>5 DEF IsBound
    <2>2. 0 \in 0 .. m /\ \A n \in 1 .. m : n \in 0 .. m /\ n # 0
        BY <1>1
    <2> QED
        BY <2>1, <2>2
<1> DEFINE Good == {n \in Nat : n \in 0 .. m => BoundUpTo(g[n], s, n)}
<1>7. ASSUME NEW n \in Nat, \A k \in 0 .. n - 1 : k \in Good
      PROVE  n \in Good
    <2> SUFFICES ASSUME n \in 0 .. m
                 PROVE  BoundUpTo(g[n], s, n)
        OBVIOUS
    <2>1. CASE n = 0
        <3>1. SeenBy(0) = {} /\ AllRight(0)
            BY DEF SeenBy, AllRight
        <3>2. ToTrack({}) = {} /\ Cardinality({}) = 0
            BY FS_EmptySet DEF ToTrack
        <3>3. UsesOfAll(d, {})
            BY <1>3, <3>2 DEF UsesOfAll
        <3>4. IsBinding(d, s)
            BY <1>3 DEF IsBinding
        <3>5. BoundUpTo([seen |-> {}, bind |-> d], s, 0)
            BY <1>3, <3>1, <3>3, <3>4 DEF BoundUpTo
        <3> QED
            BY <1>6, <2>1, <3>5
    <2>2. CASE n # 0
        <3>1. n - 1 \in Good /\ n - 1 \in 0 .. m /\ n \in 1 .. m
            BY <1>7, <2>2
        <3>2. BoundUpTo(g[n - 1], s, n - 1)
            BY <3>1
        <3> HIDE DEF Good
        <3> QED
            BY <1>1, <1>6, <3>1, <3>2, BindEntryKeeps
    <2> QED
        BY <2>1, <2>2
<1> HIDE DEF Good
<1>8. m \in Good
    BY <1>1, <1>7, AllNumbers
<1>9. BoundUpTo(g[m], s, m)
    BY <1>8 DEF Good
<1>10. PICK S, c : S = g[m].seen /\ c = g[m].bind
    OBVIOUS
<1>11. /\ S \subseteq SeenBy(m) /\ IsBinding(c, s)
       /\ c.metadata = "complete" <=> Sized /\ AllRight(m)
       /\ c.metadata = "complete" => S = SeenBy(m) /\ UsesOfAll(c, S)
    BY <1>9, <1>10 DEF BoundUpTo
<1>12. SeenBy(m) \subseteq 1 .. pipe.count
    BY DEF SeenBy
<1>13. CASE S = 1 .. pipe.count
    <2>1. b = c
        BY <1>5, <1>10, <1>13
    <2> QED
        BY <1>1, <1>11, <1>12, <1>13, <2>1
<1>14. CASE S # 1 .. pipe.count
    <2>1. b = Partial(c)
        BY <1>5, <1>10, <1>14
    <2>2. IsBinding(b, s) /\ b.metadata = "partial"
        BY <1>11, <2>1, PartialIs
    <2> QED
        BY <1>1, <1>11, <1>14, <2>2
<1> QED
    BY <1>13, <1>14

\* Which entry is meant for which binding.
LEMMA SlotsAndBindings ==
    ASSUME PipeGiven, NEW i \in 1 .. pipe.count, NEW slot \in Slots
    PROVE  /\ i \in BindingIndex(slot) => slot = IF pipe.slots = <<>> THEN i - 1 ELSE pipe.slots[i]
           /\ slot = (IF pipe.slots = <<>> THEN i - 1 ELSE pipe.slots[i]) =>
                \/ i \in BindingIndex(slot)
                \/ \E j \in 1 .. i - 1 : pipe.slots # <<>> /\ pipe.slots[j] = slot
<1>1. slot \in Nat /\ pipe.count \in Nat /\ pipe.slots \in Seq(Slots)
    BY DescriptorsAssumption DEF DescriptorsAssumption, PipeGiven
<1>2. pipe.slots = <<>> => pipe.binds # "graphics"
    BY <1>1 DEF PipeGiven
<1>3. CASE pipe.slots = <<>>
    BY <1>1, <1>2, <1>3 DEF BindingIndex
<1>4. CASE pipe.slots # <<>>
    <2>1. Len(pipe.slots) = pipe.count
        BY <1>1, <1>4 DEF PipeGiven
    <2>2. DOMAIN pipe.slots = 1 .. pipe.count
        BY <1>1, <2>1
    <2>3. BindingIndex(slot) = {k \in 1 .. pipe.count :
            pipe.slots[k] = slot /\ \A j \in 1 .. k - 1 : pipe.slots[j] # slot}
        BY <1>4, <2>2 DEF BindingIndex
    <2> QED
        BY <1>4, <2>3
<1> QED
    BY <1>3, <1>4

\* Table and shader agree just when every entry is right and every binding has
\* one.
LEMMA AgreeIs ==
    ASSUME PipeGiven
    PROVE  Agree <=> Sized /\ AllRight(Len(table)) /\ SeenBy(Len(table)) = 1 .. pipe.count
<1>1. PICK m, c : m = Len(table) /\ c = pipe.count
    OBVIOUS
<1>2. /\ m \in Nat /\ c \in Nat /\ DOMAIN table = 1 .. m
      /\ \A k \in 1 .. m : table[k] \in Entries
    BY <1>1 DEF PipeGiven
<1>3. \A k \in 1 .. m : /\ table[k].slot \in Slots /\ table[k].resource.tracked \in BOOLEAN
                        /\ table[k].resource.kind = "sampler" => table[k].resource.tracked
    BY <1>2, EntryTypes
<1>4. PICK slotOf : slotOf = [i \in 1 .. c |-> IF pipe.slots = <<>> THEN i - 1 ELSE pipe.slots[i]]
    OBVIOUS
<1>5. \A i \in 1 .. c : \A k \in 1 .. m :
        i \in BindingIndex(table[k].slot) => table[k].slot = slotOf[i]
    BY <1>1, <1>3, <1>4, SlotsAndBindings
<1>6. PICK ok : ok = [i \in 1 .. c |-> [k \in 1 .. m |->
            /\ table[k].resource.kind = BindingKind(i) /\ table[k].resource.tracked
            /\ table[k].resource.kind = "sampled_image" => BindingAccess(i) = "readonly"]]
    OBVIOUS
<1>7. \A i \in 1 .. c, k \in 1 .. m :
        Right(i, table[k]) <=> i \in BindingIndex(table[k].slot) /\ ok[i][k]
    BY <1>3, <1>6 DEF Right
<1>8. Agree <=>
        /\ Sized
        /\ \E place \in [1 .. c -> 1 .. m] : \A i \in 1 .. c :
            /\ table[place[i]].slot = slotOf[i] /\ ok[i][place[i]]
            /\ \A k \in 1 .. m : table[k].slot = slotOf[i] => k = place[i]
            /\ \A j \in 1 .. c : place[j] = place[i] => j = i
    <2>0. Agree <=>
            /\ Sized
            /\ \E place \in [1 .. pipe.count -> DOMAIN table] : \A i \in 1 .. pipe.count :
                /\ table[place[i]].slot = (IF pipe.slots = <<>> THEN i - 1 ELSE pipe.slots[i])
                /\ table[place[i]].resource.kind = BindingKind(i) /\ table[place[i]].resource.tracked
                /\ table[place[i]].resource.kind = "sampled_image" => BindingAccess(i) = "readonly"
                /\ \A k \in DOMAIN table :
                    table[k].slot = (IF pipe.slots = <<>> THEN i - 1 ELSE pipe.slots[i]) => k = place[i]
                /\ \A j \in 1 .. pipe.count : place[j] = place[i] => j = i
        BY DEF Agree, Fits, Sized
    <2>1. Agree <=>
            /\ Sized
            /\ \E place \in [1 .. c -> 1 .. m] : \A i \in 1 .. c :
                /\ table[place[i]].slot = (IF pipe.slots = <<>> THEN i - 1 ELSE pipe.slots[i])
                /\ table[place[i]].resource.kind = BindingKind(i) /\ table[place[i]].resource.tracked
                /\ table[place[i]].resource.kind = "sampled_image" => BindingAccess(i) = "readonly"
                /\ \A k \in 1 .. m :
                    table[k].slot = (IF pipe.slots = <<>> THEN i - 1 ELSE pipe.slots[i]) => k = place[i]
                /\ \A j \in 1 .. c : place[j] = place[i] => j = i
        BY <1>1, <1>2, <2>0
    <2>2. ASSUME NEW place \in [1 .. c -> 1 .. m], NEW i \in 1 .. c
          PROVE  /\ slotOf[i] = IF pipe.slots = <<>> THEN i - 1 ELSE pipe.slots[i]
                 /\ ok[i][place[i]] <=>
                    /\ table[place[i]].resource.kind = BindingKind(i) /\ table[place[i]].resource.tracked
                    /\ table[place[i]].resource.kind = "sampled_image" => BindingAccess(i) = "readonly"
        BY <1>4, <1>6
    <2> QED
        BY <2>1, <2>2
<1>9. ASSUME Sized, AllRight(m), SeenBy(m) = 1 .. c
      PROVE  Agree
    <2>1. \A i \in 1 .. c : \E k \in 1 .. m : i \in BindingIndex(table[k].slot)
        BY <1>1, <1>9 DEF SeenBy
    <2>2. PICK place : place = [i \in 1 .. c |-> CHOOSE k \in 1 .. m : i \in BindingIndex(table[k].slot)]
        OBVIOUS
    <2>3. \A i \in 1 .. c : place[i] \in 1 .. m /\ i \in BindingIndex(table[place[i]].slot)
        BY <2>1, <2>2
    <2>4. place \in [1 .. c -> 1 .. m]
        BY <2>2, <2>3
    <2>5. \A k \in 1 .. m : \A i, j \in BindingIndex(table[k].slot) : i = j
        BY <1>3, IndexIsOne
    <2>6. ASSUME NEW i \in 1 .. c
          PROVE  /\ table[place[i]].slot = slotOf[i] /\ ok[i][place[i]]
                 /\ \A k \in 1 .. m : table[k].slot = slotOf[i] => k = place[i]
                 /\ \A j \in 1 .. c : place[j] = place[i] => j = i
        <3>1. table[place[i]].slot = slotOf[i]
            BY <1>5, <2>3
        <3>2. PICK j \in 1 .. c : Right(j, table[place[i]])
            BY <1>1, <1>9, <2>3 DEF AllRight
        <3>3. j = i
            BY <2>3, <2>5, <3>2 DEF Right
        <3>4. ok[i][place[i]]
            BY <1>7, <2>3, <3>2, <3>3
        <3>5. ASSUME NEW k \in 1 .. m, table[k].slot = slotOf[i]
              PROVE  k = place[i]
            <4>1. i \in BindingIndex(table[k].slot)
                BY <2>3, <3>1, <3>5
            <4> QED
                BY <1>1, <1>9, <2>3, <4>1 DEF AllRight
        <3>6. \A l \in 1 .. c : place[l] = place[i] => l = i
            BY <2>3, <2>5
        <3> QED
            BY <3>1, <3>4, <3>5, <3>6
    <2> QED
        BY <1>8, <1>9, <2>4, <2>6
<1>10. ASSUME Agree
       PROVE  Sized /\ AllRight(m) /\ SeenBy(m) = 1 .. c
    <2>1. PICK place \in [1 .. c -> 1 .. m] : \A i \in 1 .. c :
            /\ table[place[i]].slot = slotOf[i] /\ ok[i][place[i]]
            /\ \A k \in 1 .. m : table[k].slot = slotOf[i] => k = place[i]
            /\ \A j \in 1 .. c : place[j] = place[i] => j = i
        BY <1>8, <1>10
    <2>2. Sized /\ m = c
        BY <1>1, <1>8, <1>10 DEF Sized
    <2>3. ASSUME NEW i \in 1 .. c
          PROVE  i \in BindingIndex(table[place[i]].slot)
        <3>1. table[place[i]].slot \in Slots /\ table[place[i]].slot = slotOf[i]
            BY <1>3, <2>1
        <3>2. ASSUME NEW j \in 1 .. i - 1, pipe.slots # <<>>, pipe.slots[j] = table[place[i]].slot
              PROVE  FALSE
            <4>1. j \in 1 .. c /\ j # i
                BY <1>2
            <4>2. slotOf[j] = slotOf[i]
                BY <1>4, <3>1, <3>2, <4>1
            <4>3. table[place[j]].slot = slotOf[i] /\ place[j] \in 1 .. m
                BY <2>1, <4>1, <4>2
            <4>4. place[j] = place[i]
                BY <2>1, <4>3
            <4> QED
                BY <2>1, <4>1, <4>4
        <3>3. table[place[i]].slot = (IF pipe.slots = <<>> THEN i - 1 ELSE pipe.slots[i])
            BY <1>4, <3>1
        <3>4. \/ i \in BindingIndex(table[place[i]].slot)
              \/ \E j \in 1 .. i - 1 : pipe.slots # <<>> /\ pipe.slots[j] = table[place[i]].slot
            BY <1>1, <3>1, <3>3, SlotsAndBindings
        <3> QED
            BY <3>2, <3>4
    <2>4. \A k \in 1 .. m : \E i \in 1 .. c : place[i] = k
        <3>1. place \in Injection(1 .. c, 1 .. m)
            BY <2>1 DEF Injection, IsInjective
        <3>2. IsFiniteSet(1 .. c) /\ IsFiniteSet(1 .. m) /\ Cardinality(1 .. c) = Cardinality(1 .. m)
            <4>1. 1 \in Int /\ c \in Int
                BY <1>2
            <4> QED
                BY <2>2, <4>1, FS_Interval
        <3>3. place \in Surjection(1 .. c, 1 .. m)
            BY <3>1, <3>2, FS_Injection
        <3> QED
            BY <3>3 DEF Surjection
    <2>5. AllRight(m)
        <3>1. ASSUME NEW k \in 1 .. m
              PROVE  \E i \in 1 .. c : Right(i, table[k])
            <4>1. PICK i \in 1 .. c : place[i] = k
                BY <2>4
            <4> QED
                BY <1>7, <2>1, <2>3, <4>1
        <3>2. ASSUME NEW k \in 1 .. m, NEW l \in 1 .. m, NEW i \in 1 .. c,
                     i \in BindingIndex(table[k].slot), i \in BindingIndex(table[l].slot)
              PROVE  k = l
            <4>1. table[k].slot = slotOf[i] /\ table[l].slot = slotOf[i]
                BY <1>5, <3>2
            <4> QED
                BY <2>1, <4>1
        <3> QED
            BY <1>1, <3>1, <3>2 DEF AllRight
    <2>6. SeenBy(m) = 1 .. c
        BY <1>1, <2>1, <2>3 DEF SeenBy
    <2> QED
        BY <2>2, <2>5, <2>6
<1> QED
    BY <1>1, <1>9, <1>10

\* A binding with a table tells the truth.
LEMMA TableTells ==
    ASSUME PipeGiven, NEW s \in SetIds \cup {"none"}, NEW b, b = BindTable(s)
    PROVE  b \in Binds /\ b.set = s /\ b.described /\ TellsTruth(b)
<1>1. /\ IsBinding(b, s) /\ (b.metadata = "complete" <=> Agree)
      /\ b.metadata = "complete" => UsesOfAll(b, 1 .. pipe.count)
    BY TableIsBound, AgreeIs
<1>2. b.uses \in Seq(Uses) /\ DOMAIN b.uses = 1 .. Len(b.uses)
    BY <1>1, BindTypes DEF IsBinding
<1>3. Touched = ToTrack(1 .. pipe.count)
    BY DEF Touched, ToTrack
<1>4. ASSUME b.metadata = "complete"
      PROVE  /\ Len(b.uses) = Cardinality(Touched)
             /\ \A i \in Touched : \E u \in Range(b.uses) :
                  u = [kind |-> BindingKind(i), access |-> BindingAccess(i)]
    <2>1. UsesOfAll(b, 1 .. pipe.count)
        BY <1>1, <1>4
    <2>2. ASSUME NEW i \in Touched
          PROVE  \E u \in Range(b.uses) : u = [kind |-> BindingKind(i), access |-> BindingAccess(i)]
        <3>1. PICK k \in 1 .. Len(b.uses) :
                b.uses[k] = [kind |-> BindingKind(i), access |-> BindingAccess(i)]
            BY <1>3, <2>1, <2>2 DEF UsesOfAll
        <3>2. b.uses[k] \in Range(b.uses)
            BY <1>2, <3>1 DEF Range
        <3> QED
            BY <3>1, <3>2
    <2> QED
        BY <1>3, <2>1, <2>2 DEF UsesOfAll
<1> QED
    BY <1>1, <1>4 DEF TellsTruth, IsBinding

\* So does one without: it says something of pipelines without bindings only.
LEMMA SetTells ==
    ASSUME PipeGiven, NEW s \in SetIds \cup {"none"}, NEW b, b = BindSet(s)
    PROVE  b \in Binds /\ ~ b.described /\ TellsTruth(b)
<1>1. PICK x : x = (IF ~ pipe.opaque /\ pipe.count = 0 THEN "complete" ELSE "none")
    OBVIOUS
<1>2. b = [set |-> s, metadata |-> x, uses |-> <<>>, described |-> FALSE]
    BY <1>1 DEF BindSet, NoBind
<1>3. <<>> \in Seq(Uses) /\ x \in {"none", "partial", "complete"}
    BY <1>1
<1>4. b \in Binds /\ ~ b.described /\ b.metadata = x
    BY <1>2, <1>3 DEF Binds
<1>5. x = "complete" => ~ pipe.opaque /\ Touched = {}
    BY <1>1 DEF Touched
<1> QED
    BY <1>4, <1>5 DEF TellsTruth

-----------------------------------------------------------------------------
(* The initial states *)

LEMMA BoundedIsSeq ==
    ASSUME NEW S, NEW n \in Nat, NEW q \in BoundedSeq(S, n)
    PROVE  q \in Seq(S)
<1>1. PICK m \in 0 .. n : q \in [1 .. m -> S]
    BY DEF BoundedSeq, SeqOf
<1> QED
    BY <1>1

LEMMA MappedSeq ==
    ASSUME NEW S, NEW T, NEW q \in Seq(S), NEW f, f = [i \in DOMAIN q |-> f[i]],
           \A i \in DOMAIN q : f[i] \in T
    PROVE  f \in Seq(T) /\ Len(f) = Len(q)
<1>1. PICK m \in Nat : m = Len(q) /\ DOMAIN q = 1 .. m
    OBVIOUS
<1>2. f \in [1 .. m -> T]
    BY <1>1
<1> QED
    BY <1>1, <1>2

LEMMA ComputeGiven ==
    ASSUME pipe \in ComputePipelines, table \in ResourceTables
    PROVE  PipeGiven
<1>1. MaxBindings \in Nat
    BY DescriptorsAssumption DEF DescriptorsAssumption
<1>2. PICK l \in BoundedSeq(Accesses, MaxBindings) \X BoundedSeq(Slots, MaxBindings)
                 \X BoundedSeq(ResourceKinds, MaxBindings) :
            /\ Len(l[2]) \in {0, Len(l[1])} /\ Len(l[3]) \in {0, Len(l[1])}
            /\ pipe = Pipeline("compute", l[1], l[2], l[3])
    BY DEF ComputePipelines
<1>3. PICK a, s, k : a = l[1] /\ s = l[2] /\ k = l[3]
    OBVIOUS
<1>4. a \in Seq(Accesses) /\ s \in Seq(Slots) /\ k \in Seq(ResourceKinds)
    BY <1>1, <1>2, <1>3, BoundedIsSeq
<1>5. pipe = [binds |-> "compute", opaque |-> FALSE, accesses |-> a, slots |-> s, kinds |-> k,
              count |-> Len(a)]
    BY <1>2, <1>3 DEF Pipeline
<1>6. table \in Seq(Entries)
    BY <1>1, BoundedIsSeq DEF ResourceTables, Entries, AllResources
<1>7. Len(a) \in Nat /\ Len(s) \in {0, Len(a)} /\ Len(k) \in {0, Len(a)}
    BY <1>2, <1>3, <1>4
<1> QED
    BY <1>4, <1>5, <1>6, <1>7 DEF PipeGiven

LEMMA GraphicsGiven ==
    ASSUME pipe \in GraphicsPipelines, table \in ResourceTables
    PROVE  PipeGiven
<1>1. MaxBindings \in Nat
    BY DescriptorsAssumption DEF DescriptorsAssumption
<1>2. PICK t \in ResourceTables :
        pipe = Pipeline("graphics", <<>>, [i \in DOMAIN t |-> t[i].slot],
                        [i \in DOMAIN t |-> t[i].resource.kind])
    BY DEF GraphicsPipelines
<1>3. PICK s : s = [i \in DOMAIN t |-> t[i].slot]
    OBVIOUS
<1>4. PICK k : k = [i \in DOMAIN t |-> t[i].resource.kind]
    OBVIOUS
<1>5. table \in Seq(Entries) /\ t \in Seq(Entries)
    BY <1>1, BoundedIsSeq DEF ResourceTables, Entries, AllResources
<1>6. \A i \in DOMAIN t : t[i] \in Entries
    BY <1>5
<1>7. s \in Seq(Slots) /\ Len(s) = Len(t)
    <2>1. \A i \in DOMAIN t : s[i] \in Slots
        BY <1>3, <1>6, EntryTypes
    <2>2. s = [i \in DOMAIN t |-> s[i]]
        BY <1>3
    <2> QED
        BY <1>5, <2>1, <2>2, MappedSeq
<1>8. k \in Seq(ResourceKinds) /\ Len(k) = Len(t)
    <2>1. \A i \in DOMAIN t : k[i] \in ResourceKinds
        BY <1>4, <1>6, EntryTypes
    <2>2. k = [i \in DOMAIN t |-> k[i]]
        BY <1>4
    <2> QED
        BY <1>5, <2>1, <2>2, MappedSeq
<1>9. pipe = [binds |-> "graphics", opaque |-> FALSE, accesses |-> <<>>, slots |-> s, kinds |-> k,
              count |-> Len(s)]
    BY <1>2, <1>3, <1>4 DEF Pipeline
<1>10. Len(s) \in Nat
    BY <1>7
<1> QED
    BY <1>5, <1>7, <1>8, <1>9, <1>10 DEF PipeGiven

LEMMA HeapGiven ==
    ASSUME pipe = HeapPipeline, table \in ResourceTables
    PROVE  PipeGiven
<1>1. MaxBindings \in Nat
    BY DescriptorsAssumption DEF DescriptorsAssumption
<1>2. table \in Seq(Entries)
    BY <1>1, BoundedIsSeq DEF ResourceTables, Entries, AllResources
<1>3. pipe = [binds |-> "heap", opaque |-> TRUE, accesses |-> <<>>, slots |-> <<>>, kinds |-> <<>>,
              count |-> 0]
    BY DEF HeapPipeline, Pipeline
<1>4. <<>> \in Seq(Slots) /\ <<>> \in Seq(ResourceKinds)
    OBVIOUS
<1> QED
    BY <1>2, <1>3, <1>4 DEF PipeGiven

LEMMA OneSchemaGiven ==
    ASSUME schema \in Schemas \ {<<>>}, pipe = SchemaPipeline(schema), table \in SchemaTables(schema)
    PROVE  PipeGiven /\ SchemaGiven
<1>1. MaxBindings \in Nat
    BY DescriptorsAssumption DEF DescriptorsAssumption
<1> DEFINE Points == [slot : Slots, kind : ResourceKinds, access : Accesses]
<1>2. /\ schema \in BoundedSeq(Points, MaxBindings)
      /\ \A i, j \in DOMAIN schema : i < j => schema[i].slot < schema[j].slot
      /\ \A i \in DOMAIN schema : schema[i].kind = "sampled_image" => schema[i].access = "readonly"
    BY DEF Schemas
<1>3. schema \in Seq(Points)
    BY <1>1, <1>2, BoundedIsSeq
<1>4. PICK m \in Nat : m = Len(schema) /\ DOMAIN schema = 1 .. m
    BY <1>3
<1>5. \A i \in 1 .. m : /\ schema[i].slot \in Slots /\ schema[i].kind \in ResourceKinds
                        /\ schema[i].access \in Accesses
    <2>1. \A i \in 1 .. m : schema[i] \in Points
        <3> HIDE DEF Points
        <3> QED
            BY <1>3, <1>4, ElementOfSeq
    <2> QED
        BY <2>1
<1>6. PICK a : a = [i \in 1 .. m |-> schema[i].access]
    OBVIOUS
<1>7. PICK s : s = [i \in 1 .. m |-> schema[i].slot]
    OBVIOUS
<1>8. PICK k : k = [i \in 1 .. m |-> schema[i].kind]
    OBVIOUS
<1>9. /\ a \in Seq(Accesses) /\ Len(a) = m /\ s \in Seq(Slots) /\ Len(s) = m
      /\ k \in Seq(ResourceKinds) /\ Len(k) = m
    <2>1. a \in [1 .. m -> Accesses] /\ s \in [1 .. m -> Slots] /\ k \in [1 .. m -> ResourceKinds]
        BY <1>5, <1>6, <1>7, <1>8
    <2> QED
        BY <2>1
<1>10. pipe = [binds |-> "compute", opaque |-> FALSE, accesses |-> a, slots |-> s, kinds |-> k,
               count |-> m]
    BY <1>4, <1>6, <1>7, <1>8, <1>9 DEF SchemaPipeline, Pipeline
<1>11. /\ table \in [1 .. m -> Entries]
       /\ \A i \in 1 .. m : table[i].slot = s[i] /\ table[i].resource.kind = k[i]
    BY <1>4, <1>7, <1>8 DEF SchemaTables, Entries, AllResources
<1>12. table \in Seq(Entries) /\ Len(table) = m
    BY <1>11
<1>13. PipeGiven
    BY <1>9, <1>10, <1>12 DEF PipeGiven
<1>14. \A i, j \in 1 .. m : i # j => s[i] # s[j]
    <2>1. \A i \in 1 .. m : s[i] \in Nat
        BY <1>5, <1>7, DescriptorsAssumption DEF DescriptorsAssumption
    <2>2. \A i, j \in 1 .. m : i < j => s[i] < s[j]
        BY <1>2, <1>4, <1>7
    <2> QED
        BY <2>1, <2>2
<1>15. \A i \in 1 .. m : k[i] = "sampled_image" => a[i] = "readonly"
    BY <1>2, <1>4, <1>6, <1>8
<1>16. SchemaGiven
    BY <1>9, <1>10, <1>11, <1>12, <1>14, <1>15 DEF SchemaGiven, Fits
<1> QED
    BY <1>13, <1>16

LEMMA SetsInitially == SetsInit => SetsInv
<1> SUFFICES ASSUME SetsInit
             PROVE  SetsInv
    OBVIOUS
<1>1. PipeGiven /\ SchemaGiven
    <2>1. CASE schema = <<>>
        <3>1. SchemaGiven
            BY <2>1 DEF SchemaGiven
        <3> QED
            BY <2>1, <3>1, ComputeGiven, GraphicsGiven, HeapGiven DEF SetsInit
    <2>2. CASE schema # <<>>
        BY <2>2, OneSchemaGiven DEF SetsInit
    <2> QED
        BY <2>1, <2>2
<1>2. bind = [set |-> "none", metadata |-> "none", uses |-> <<>>, described |-> FALSE]
    BY DEF SetsInit, NoBind
<1>3. <<>> \in Seq(Uses)
    OBVIOUS
<1>4. SetTypes
    BY <1>2, <1>3 DEF SetTypes, SetsInit, Binds
<1>5. TellsTruth(bind) /\ BoundHeld
    BY <1>2 DEF TellsTruth, BoundHeld
<1> QED
    BY <1>1, <1>4, <1>5 DEF SetsInv

-----------------------------------------------------------------------------
(* The steps *)

SameGiven == UNCHANGED <<pipe, table, schema>>

LEMMA GivenStays ==
    ASSUME SameGiven
    PROVE  /\ PipeGiven => PipeGiven'
           /\ SchemaGiven => SchemaGiven'
<1>1. pipe' = pipe /\ table' = table /\ schema' = schema
    BY DEF SameGiven
<1>2. PipeGiven => PipeGiven'
    BY <1>1 DEF PipeGiven
<1>3. SchemaGiven => SchemaGiven'
    BY <1>1 DEF SchemaGiven, Fits
<1> QED
    BY <1>2, <1>3

LEMMA TruthStays ==
    ASSUME SameGiven, NEW b, TellsTruth(b)
    PROVE  TellsTruth(b)'
<1>1. pipe' = pipe /\ table' = table
    BY DEF SameGiven
<1>2. \A i : BindingKind(i)' = BindingKind(i)
    BY <1>1 DEF BindingKind
<1>3. \A i : BindingAccess(i)' = BindingAccess(i)
    BY <1>1 DEF BindingAccess
<1>4. Agree' <=> Agree
    <2> DEFINE Named(i) == IF pipe.slots = <<>> THEN i - 1 ELSE pipe.slots[i]
               FitFor(k, i) == /\ table[k].slot = Named(i) /\ table[k].resource.kind = BindingKind(i)
                               /\ table[k].resource.tracked
                               /\ table[k].resource.kind = "sampled_image" =>
                                    BindingAccess(i) = "readonly"
               Alone(k, i) == \A l \in DOMAIN table : table[l].slot = Named(i) => l = k
               Once(place, i) == \A j \in 1 .. pipe.count : place[j] = place[i] => j = i
               Matched(place) == \A i \in 1 .. pipe.count :
                    FitFor(place[i], i) /\ Alone(place[i], i) /\ Once(place, i)
    <2>1. Agree <=> /\ ~ pipe.opaque /\ Fits
                    /\ \E place \in [1 .. pipe.count -> DOMAIN table] : Matched(place)
        BY Zenon DEF Agree
    <2>2. Agree' <=> /\ ~ pipe'.opaque /\ Fits'
                     /\ \E place \in [1 .. pipe'.count -> DOMAIN table'] : Matched(place)'
        BY Zenon DEF Agree
    <2>3. Fits' <=> Fits
        BY <1>1 DEF Fits
    <2>4. \A place : Matched(place)' <=> Matched(place)
        BY <1>1, <1>2, <1>3
    <2> HIDE DEF Matched
    <2> QED
        BY <1>1, <2>1, <2>2, <2>3, <2>4
<1>5. Touched' = Touched
    BY <1>1, <1>2 DEF Touched
<1> QED
    BY <1>1, <1>2, <1>3, <1>4, <1>5 DEF TellsTruth

\* A step that makes a binding, or leaves the last one.
LEMMA BindingMade ==
    ASSUME SetsInv, SameGiven, SetTypes', BoundHeld',
           \/ bind' = bind
           \/ bind' = NoBind
           \/ \E s \in SetIds \cup {"none"} : bind' = BindTable(s) \/ bind' = BindSet(s)
    PROVE  SetsInv'
<1>1. PICK b : b = bind'
    OBVIOUS
<1>2. PipeGiven /\ SchemaGiven /\ TellsTruth(bind)
    BY DEF SetsInv
<1>3. TellsTruth(b)
    <2>1. CASE bind' = bind
        BY <1>1, <1>2, <2>1 DEF TellsTruth
    <2>2. CASE bind' = NoBind
        BY <1>1, <2>2 DEF TellsTruth, NoBind
    <2>3. CASE \E s \in SetIds \cup {"none"} : bind' = BindTable(s) \/ bind' = BindSet(s)
        BY <1>1, <1>2, <2>3, TableTells, SetTells
    <2> QED
        BY <2>1, <2>2, <2>3
<1>4. TellsTruth(b)'
    BY <1>3, TruthStays
<1>5. TellsTruth(bind)'
    BY <1>1, <1>4 DEF TellsTruth
<1> QED
    BY <1>2, <1>5, GivenStays DEF SetsInv

\* The fields of a new binding.
LEMMA MadeTypes ==
    ASSUME PipeGiven, NEW s \in SetIds \cup {"none"}, NEW b
    PROVE  /\ b = BindTable(s) => b \in Binds /\ b.set = s
           /\ b = BindSet(s) => b \in Binds /\ ~ b.described
           /\ b = NoBind => b \in Binds /\ ~ b.described
<1>1. b = NoBind => b \in Binds /\ ~ b.described
    <2>1. <<>> \in Seq(Uses)
        OBVIOUS
    <2> QED
        BY <2>1 DEF NoBind, Binds
<1> QED
    BY <1>1, TableTells, SetTells

LEMMA AllocateSetKeeps ==
    ASSUME SetsInv, NEW s \in SetIds, AllocateSet(s)
    PROVE  SetsInv'
<1>1. SetTypes /\ BoundHeld
    BY DEF SetsInv
<1>2. SetTypes'
    BY <1>1 DEF SetTypes, AllocateSet
<1>3. BoundHeld'
    BY <1>1 DEF SetTypes, BoundHeld, AllocateSet
<1> QED
    BY <1>2, <1>3, BindingMade DEF AllocateSet, SameGiven

LEMMA UpdateSetKeeps ==
    ASSUME SetsInv, NEW s \in SetIds, UpdateSet(s)
    PROVE  SetsInv'
<1>1. SetTypes /\ BoundHeld
    BY DEF SetsInv
<1>2. SetTypes'
    BY <1>1 DEF SetTypes, UpdateSet
<1>3. BoundHeld'
    BY <1>1 DEF SetTypes, BoundHeld, UpdateSet
<1> QED
    BY <1>2, <1>3, BindingMade DEF UpdateSet, SameGiven

LEMMA FreeSetKeeps ==
    ASSUME SetsInv, NEW s \in SetIds, FreeSet(s)
    PROVE  SetsInv'
<1>1. PipeGiven /\ SetTypes /\ BoundHeld
    BY DEF SetsInv
<1>2. bind' \in Binds /\ (bind.set = s => ~ bind'.described)
    <2>1. PICK b : b = bind'
        OBVIOUS
    <2>2. b = (IF bind.set = s THEN NoBind ELSE bind)
        BY <2>1 DEF FreeSet
    <2> QED
        BY <1>1, <2>1, <2>2, MadeTypes DEF SetTypes
<1>3. SetTypes'
    BY <1>1, <1>2 DEF SetTypes, FreeSet
<1>4. BoundHeld'
    BY <1>1, <1>2 DEF SetTypes, BoundHeld, FreeSet
<1> QED
    BY <1>3, <1>4, BindingMade DEF FreeSet, SameGiven

LEMMA BindResourcesFactoryKeeps ==
    ASSUME SetsInv, NEW s \in SetIds, BindResourcesFactory(s)
    PROVE  SetsInv'
<1>1. PipeGiven /\ SetTypes /\ BoundHeld
    BY DEF SetsInv
<1>2. SameGiven
    BY DEF BindResourcesFactory, SameGiven
<1>3. CASE Fits
    <2>1. PICK b : b = bind' /\ b = BindTable(s)
        BY <1>3 DEF BindResourcesFactory
    <2>2. b \in Binds /\ b.set = s
        BY <1>1, <2>1, MadeTypes
    <2>3. holder' = [holder EXCEPT ![s] = "caller"] /\ written' = written \cup {s}
        BY <1>3 DEF BindResourcesFactory
    <2>4. SetTypes'
        BY <1>1, <2>1, <2>2, <2>3 DEF SetTypes
    <2>5. BoundHeld'
        BY <1>1, <2>1, <2>2, <2>3 DEF SetTypes, BoundHeld
    <2> QED
        BY <1>2, <2>1, <2>4, <2>5, BindingMade
<1>4. CASE ~ Fits
    <2>1. UNCHANGED <<holder, written, bind>>
        BY <1>4 DEF BindResourcesFactory
    <2>2. SetTypes' /\ BoundHeld'
        BY <1>1, <2>1 DEF SetTypes, BoundHeld
    <2> QED
        BY <1>2, <2>1, <2>2, BindingMade
<1> QED
    BY <1>3, <1>4

LEMMA BindStorageFactoryKeeps ==
    ASSUME SetsInv, NEW s \in SetIds, BindStorageFactory(s)
    PROVE  SetsInv'
<1>1. PipeGiven /\ SetTypes /\ BoundHeld
    BY DEF SetsInv
<1>2. SameGiven /\ holder[s] = "pool"
    BY DEF BindStorageFactory, SameGiven
<1>3. CASE Fits
    <2>1. PICK b : b = bind' /\ b = BindTable(s)
        BY <1>3 DEF BindStorageFactory
    <2>2. b \in Binds /\ b.set = s
        BY <1>1, <2>1, MadeTypes
    <2>3. holder' = [holder EXCEPT ![s] = "caller"] /\ written' = written \cup {s}
        BY <1>3 DEF BindStorageFactory
    <2>4. SetTypes'
        BY <1>1, <2>1, <2>2, <2>3 DEF SetTypes
    <2>5. BoundHeld'
        BY <1>1, <2>1, <2>2, <2>3 DEF SetTypes, BoundHeld
    <2> QED
        BY <1>2, <2>1, <2>4, <2>5, BindingMade
<1>4. CASE ~ Fits
    <2>1. holder' = [holder EXCEPT ![s] = "lost"] /\ written' = written \ {s} /\ bind' = bind
        BY <1>4 DEF BindStorageFactory
    <2>2. SetTypes' /\ BoundHeld'
        BY <1>1, <1>2, <2>1 DEF SetTypes, BoundHeld
    <2> QED
        BY <1>2, <2>1, <2>2, BindingMade
<1> QED
    BY <1>3, <1>4

LEMMA MakeBindKeeps ==
    ASSUME SetsInv, NEW s \in SetIds \cup {"none"}, MakeBind(s)
    PROVE  SetsInv'
<1>1. PipeGiven /\ SetTypes /\ BoundHeld
    BY DEF SetsInv
<1>2. SameGiven /\ holder' = holder /\ written' = written
    BY DEF MakeBind, SameGiven
<1>3. (s \in SetIds /\ holder[s] = "caller") \/ s \notin SetIds
    BY DescriptorsAssumption DEF MakeBind, DescriptorsAssumption
<1>4. CASE s \in written /\ bind' = BindTable(s)
    <2>1. PICK b : b = bind' /\ b = BindTable(s)
        BY <1>4
    <2>2. b \in Binds /\ b.set = s
        BY <1>1, <2>1, MadeTypes
    <2>3. SetTypes'
        BY <1>1, <1>2, <2>1, <2>2 DEF SetTypes
    <2>4. BoundHeld'
        BY <1>1, <1>2, <1>3, <1>4, <2>1, <2>2 DEF SetTypes, BoundHeld
    <2> QED
        BY <1>2, <2>1, <2>3, <2>4, BindingMade
<1>5. CASE bind' = BindSet(s)
    <2>1. PICK b : b = bind' /\ b = BindSet(s)
        BY <1>5
    <2>2. b \in Binds /\ ~ b.described
        BY <1>1, <2>1, MadeTypes
    <2>3. SetTypes' /\ BoundHeld'
        BY <1>1, <1>2, <2>1, <2>2 DEF SetTypes, BoundHeld
    <2> QED
        BY <1>2, <2>1, <2>3, BindingMade
<1> QED
    BY <1>4, <1>5 DEF MakeBind

LEMMA RecordBindStepKeeps ==
    ASSUME SetsInv, NEW s \in SetIds, RecordBindStep(s)
    PROVE  SetsInv'
<1>1. PipeGiven /\ SetTypes /\ BoundHeld
    BY DEF SetsInv
<1>2. SameGiven /\ bind' = bind
    BY DEF RecordBindStep, SameGiven
<1>3. PICK released : released = [t \in SetIds |-> IF holder[t] = "step" THEN "pool" ELSE holder[t]]
    OBVIOUS
<1>4. /\ released[s] = "pool"
      /\ \/ holder' = [released EXCEPT ![s] = "step"] /\ written' = written \cup {s}
         \/ holder' = released /\ written' = written
    BY <1>3 DEF RecordBindStep
<1>5. /\ released \in [SetIds -> {"pool", "caller", "step", "lost"}]
      /\ \A t \in SetIds : holder[t] = "caller" => released[t] = "caller"
    BY <1>1, <1>3 DEF SetTypes
<1>6. SetTypes'
    BY <1>1, <1>2, <1>4, <1>5 DEF SetTypes
<1>7. BoundHeld'
    BY <1>1, <1>2, <1>4, <1>5 DEF SetTypes, BoundHeld
<1> QED
    BY <1>2, <1>6, <1>7, BindingMade

LEMMA ReleaseBindStepKeeps ==
    ASSUME SetsInv, ReleaseBindStep
    PROVE  SetsInv'
<1>1. SetTypes /\ BoundHeld
    BY DEF SetsInv
<1>2. SetTypes'
    BY <1>1 DEF SetTypes, ReleaseBindStep
<1>3. BoundHeld'
    BY <1>1 DEF SetTypes, BoundHeld, ReleaseBindStep
<1> QED
    BY <1>2, <1>3, BindingMade DEF ReleaseBindStep, SameGiven

LEMMA SetsStep == SetsInv /\ [SetsNext]_setVars => SetsInv'
<1> SUFFICES ASSUME SetsInv, [SetsNext]_setVars
             PROVE  SetsInv'
    OBVIOUS
<1>1. CASE UNCHANGED setVars
    <2>1. SetTypes' /\ BoundHeld'
        BY <1>1 DEF SetsInv, SetTypes, BoundHeld, setVars
    <2> QED
        BY <1>1, <2>1, BindingMade DEF setVars, SameGiven
<1>2. CASE SetsNext
    BY <1>2, AllocateSetKeeps, UpdateSetKeeps, FreeSetKeeps, BindResourcesFactoryKeeps,
       BindStorageFactoryKeeps, MakeBindKeeps, RecordBindStepKeeps, ReleaseBindStepKeeps DEF SetsNext
<1> QED
    BY <1>1, <1>2

\* What is of one schema agrees, once it can be tracked.
LEMMA SchemasAgree ==
    ASSUME SetsInv, schema # <<>>, \A i \in DOMAIN table : table[i].resource.tracked
    PROVE  Agree
<1>1. PipeGiven /\ SchemaGiven
    BY DEF SetsInv
<1>2. PICK m \in Nat : m = pipe.count /\ m = Len(table) /\ DOMAIN table = 1 .. m
    BY <1>1 DEF PipeGiven, SchemaGiven, Fits
<1>3. Len(pipe.slots) = m /\ Len(pipe.kinds) = m /\ pipe.binds = "compute"
    BY <1>1, <1>2 DEF SchemaGiven
<1>4. PICK place : place = [i \in 1 .. m |-> i]
    OBVIOUS
<1>5. ASSUME NEW i \in 1 .. m
      PROVE  /\ table[place[i]].slot = (IF pipe.slots = <<>> THEN i - 1 ELSE pipe.slots[i])
             /\ table[place[i]].resource.kind = BindingKind(i) /\ table[place[i]].resource.tracked
             /\ table[place[i]].resource.kind = "sampled_image" => BindingAccess(i) = "readonly"
             /\ \A k \in DOMAIN table :
                  table[k].slot = (IF pipe.slots = <<>> THEN i - 1 ELSE pipe.slots[i]) => k = place[i]
             /\ \A j \in 1 .. pipe.count : place[j] = place[i] => j = i
    <2>1. pipe.slots # <<>> /\ pipe.kinds # <<>>
        BY <1>2, <1>3
    <2>2. BindingKind(i) = pipe.kinds[i] /\ BindingAccess(i) = pipe.accesses[i]
        <3>1. BindingKind(i) = pipe.kinds[i]
            BY <1>3, <2>1 DEF BindingKind
        <3>2. BindingAccess(i) = pipe.accesses[i]
            BY <1>3, <2>1 DEF BindingAccess
        <3> QED
            BY <3>1, <3>2
    <2>3. place[i] = i /\ \A k \in 1 .. m : place[k] = k
        BY <1>4
    <2>4. \A k \in 1 .. m : /\ table[k].slot = pipe.slots[k] /\ table[k].resource.kind = pipe.kinds[k]
                            /\ pipe.kinds[k] = "sampled_image" => pipe.accesses[k] = "readonly"
        BY <1>1, <1>2 DEF SchemaGiven
    <2>5. \A k, l \in 1 .. m : k # l => pipe.slots[k] # pipe.slots[l]
        BY <1>1, <1>2 DEF SchemaGiven
    <2> QED
        BY <1>2, <2>1, <2>2, <2>3, <2>4, <2>5
<1>6. place \in [1 .. pipe.count -> DOMAIN table]
    BY <1>2, <1>4
<1>7. ~ pipe.opaque /\ Fits
    BY <1>1, <1>3 DEF PipeGiven, SchemaGiven
<1> QED
    BY <1>2, <1>5, <1>6, <1>7 DEF Agree

\* A binding's metadata is complete just when table and shader agree, and then
\* says everything that the shader does: for any pipelines, tables, schemas and
\* sets (bind_resources.cpp, pass.cpp).
THEOREM MetadataIsTruthful == SetsSpec => []MetadataTruthful
<1>1. SetsInv => MetadataTruthful
    <2> SUFFICES ASSUME SetsInv
                 PROVE  MetadataTruthful
        OBVIOUS
    <2>1. TellsTruth(bind) /\ BoundHeld
        BY DEF SetsInv
    <2>2. schema # <<>> /\ bind.described /\ (\A i \in DOMAIN table : table[i].resource.tracked) =>
            bind.metadata = "complete"
        BY <2>1, SchemasAgree DEF TellsTruth
    <2> QED
        BY <2>1, <2>2 DEF TellsTruth, BoundHeld, MetadataTruthful
<1> QED
    BY <1>1, SetsInitially, SetsStep, PTL DEF SetsSpec

-----------------------------------------------------------------------------
(* Descriptor heaps: what a shader finds at an index *)

HeapEntries == [slot : Nat, kind : HeapKinds]
TheHeaps == {"resource", "sampler"}

\* The first m calls of the loop of EntriesOf over a table.
IsListing(t, kinds, m, g) ==
    g = [n \in 0 .. m |-> IF n = 0 THEN <<>>
                          ELSE IF t[n].kind \in kinds THEN Append(g[n - 1], n) ELSE g[n - 1]]

\* The same of the loop that lowers a table.
IsLowering(s, env, failing, m, g) ==
    g = [n \in 0 .. m |-> IF n = 0 THEN Start ELSE LowerEntry(s, env, failing, g[n - 1], n)]

LEMMA ListingExists ==
    ASSUME NEW t, NEW kinds
    PROVE  \A m \in Nat : \E g : IsListing(t, kinds, m, g)
<1> DEFINE Good == {m \in Nat : \E g : IsListing(t, kinds, m, g)}
<1>1. ASSUME NEW m \in Nat, \A k \in 0 .. m - 1 : k \in Good
      PROVE  m \in Good
    <2>1. CASE m = 0
        <3>1. PICK g : g = [n \in 0 .. 0 |-> <<>>]
            OBVIOUS
        <3>2. IsListing(t, kinds, 0, g)
            BY <3>1 DEF IsListing
        <3> QED
            BY <2>1, <3>2
    <2>2. CASE m # 0
        <3>1. m - 1 \in Good
            BY <1>1, <2>2
        <3>2. PICK h : h = [n \in 0 .. m - 1 |->
                               IF n = 0 THEN <<>>
                               ELSE IF t[n].kind \in kinds THEN Append(h[n - 1], n) ELSE h[n - 1]]
            BY <3>1 DEF IsListing
        <3>x. PICK x : x = IF t[m].kind \in kinds THEN Append(h[m - 1], m) ELSE h[m - 1]
            OBVIOUS
        <3>3. PICK g : g = [n \in 0 .. m |-> IF n = m THEN x ELSE h[n]]
            OBVIOUS
        <3>4. ASSUME NEW n \in 0 .. m
              PROVE  g[n] = IF n = 0 THEN <<>>
                            ELSE IF t[n].kind \in kinds THEN Append(g[n - 1], n) ELSE g[n - 1]
            <4>1. CASE n = 0
                BY <2>2, <3>2, <3>3, <4>1
            <4>2. CASE n # 0
                <5>1. n - 1 \in 0 .. m - 1 /\ n - 1 \in 0 .. m /\ n - 1 # m
                    BY <4>2
                <5>2. g[n - 1] = h[n - 1]
                    BY <3>3, <5>1
                <5>3. CASE n = m
                    BY <3>x, <3>3, <4>2, <5>2, <5>3
                <5>4. CASE n # m
                    <6>1. n \in 0 .. m - 1 /\ g[n] = h[n]
                        BY <3>3, <5>4
                    <6>2. h[n] = IF t[n].kind \in kinds THEN Append(h[n - 1], n) ELSE h[n - 1]
                        BY <3>2, <4>2, <6>1
                    <6> QED
                        BY <4>2, <5>2, <6>1, <6>2
                <5> QED
                    BY <5>3, <5>4
            <4> QED
                BY <4>1, <4>2
        <3>5. IsListing(t, kinds, m, g)
            BY <3>3, <3>4 DEF IsListing
        <3> QED
            BY <3>5
    <2> QED
        BY <2>1, <2>2
<1> HIDE DEF Good
<1>2. \A m \in Nat : m \in Good
    BY <1>1, AllNumbers
<1> QED
    BY <1>2 DEF Good

LEMMA LoweringExists ==
    ASSUME NEW s, NEW env, NEW failing
    PROVE  \A m \in Nat : \E g : IsLowering(s, env, failing, m, g)
<1> DEFINE Good == {m \in Nat : \E g : IsLowering(s, env, failing, m, g)}
<1>1. ASSUME NEW m \in Nat, \A k \in 0 .. m - 1 : k \in Good
      PROVE  m \in Good
    <2>1. CASE m = 0
        <3>1. PICK g : g = [n \in 0 .. 0 |-> Start]
            OBVIOUS
        <3>2. IsLowering(s, env, failing, 0, g)
            BY <3>1 DEF IsLowering
        <3> QED
            BY <2>1, <3>2
    <2>2. CASE m # 0
        <3>1. m - 1 \in Good
            BY <1>1, <2>2
        <3>2. PICK h : h = [n \in 0 .. m - 1 |-> IF n = 0 THEN Start
                                                 ELSE LowerEntry(s, env, failing, h[n - 1], n)]
            BY <3>1 DEF IsLowering
        <3>x. PICK x : x = LowerEntry(s, env, failing, h[m - 1], m)
            OBVIOUS
        <3>3. PICK g : g = [n \in 0 .. m |-> IF n = m THEN x ELSE h[n]]
            OBVIOUS
        <3>4. ASSUME NEW n \in 0 .. m
              PROVE  g[n] = IF n = 0 THEN Start ELSE LowerEntry(s, env, failing, g[n - 1], n)
            <4>1. CASE n = 0
                BY <2>2, <3>2, <3>3, <4>1
            <4>2. CASE n # 0
                <5>1. n - 1 \in 0 .. m - 1 /\ n - 1 \in 0 .. m /\ n - 1 # m
                    BY <4>2
                <5>2. g[n - 1] = h[n - 1]
                    BY <3>3, <5>1
                <5>3. CASE n = m
                    <6>1. g[n] = x
                        BY <3>3, <5>3
                    <6> QED
                        BY <3>x, <4>2, <5>2, <5>3, <6>1
                <5>4. CASE n # m
                    <6>1. n \in 0 .. m - 1 /\ g[n] = h[n]
                        BY <3>3, <5>4
                    <6>2. h[n] = LowerEntry(s, env, failing, h[n - 1], n)
                        BY <3>2, <4>2, <6>1
                    <6> QED
                        BY <4>2, <5>2, <6>1, <6>2
                <5> QED
                    BY <5>3, <5>4
            <4> QED
                BY <4>1, <4>2
        <3>5. g = [n \in 0 .. m |-> IF n = 0 THEN Start
                                    ELSE LowerEntry(s, env, failing, g[n - 1], n)]
            BY <3>3, <3>4
        <3>6. IsLowering(s, env, failing, m, g)
            BY <3>5 DEF IsLowering
        <3> QED
            BY <3>6
    <2> QED
        BY <2>1, <2>2
<1> HIDE DEF Good
<1>2. \A m \in Nat : m \in Good
    BY <1>1, AllNumbers
<1> QED
    BY <1>2 DEF Good

\* How many of the first n entries are in a listing, which has these in order.
IsCount(t, kinds, list, c) ==
    /\ c \in [0 .. Len(t) -> Nat] /\ c[0] = 0
    /\ list \in Seq(1 .. Len(t)) /\ Len(list) = c[Len(t)]
    /\ \A p \in 1 .. Len(t) :
        /\ c[p] = c[p - 1] + (IF t[p].kind \in kinds THEN 1 ELSE 0)
        /\ t[p].kind \in kinds => c[p] \in 1 .. Len(list) /\ list[c[p]] = p

LEMMA EntriesAreCounted ==
    ASSUME NEW s \in HeapSteps, NEW m \in Nat, m = Len(tables[s]), NEW kinds
    PROVE  \E c : IsCount(tables[s], kinds, EntriesOf(s, kinds), c)
<1>1. PICK t : t = tables[s]
    OBVIOUS
<1>2. PICK g : g = CHOOSE a : IsListing(t, kinds, m, a)
    OBVIOUS
<1>3. IsListing(t, kinds, m, g)
    <2>1. \E a : IsListing(t, kinds, m, a)
        BY ListingExists
    <2> QED
        BY <1>2, <2>1
<1>4. EntriesOf(s, kinds) = g[m]
    BY <1>1, <1>2 DEF EntriesOf, IsListing
<1>5. /\ g[0] = <<>>
      /\ \A n \in 1 .. m : g[n] = IF t[n].kind \in kinds THEN Append(g[n - 1], n) ELSE g[n - 1]
    <2>1. \A n \in 0 .. m : g[n] = IF n = 0 THEN <<>>
                                   ELSE IF t[n].kind \in kinds THEN Append(g[n - 1], n) ELSE g[n - 1]
        BY <1>3 DEF IsListing
    <2>2. 0 \in 0 .. m /\ \A n \in 1 .. m : n \in 0 .. m /\ n # 0
        OBVIOUS
    <2> QED
        BY <2>1, <2>2
<1> DEFINE Fine(n) == /\ g[n] \in Seq(1 .. m)
                      /\ \A p \in 1 .. n : /\ Len(g[p]) <= Len(g[n])
                                           /\ t[p].kind \in kinds =>
                                                Len(g[p]) \in 1 .. Len(g[n]) /\ g[n][Len(g[p])] = p
           Good == {n \in Nat : n \in 0 .. m => Fine(n)}
<1>6. ASSUME NEW n \in Nat, \A k \in 0 .. n - 1 : k \in Good
      PROVE  n \in Good
    <2> SUFFICES ASSUME n \in 0 .. m
                 PROVE  Fine(n)
        OBVIOUS
    <2>1. CASE n = 0
        <3>1. <<>> \in Seq(1 .. m) /\ 1 .. 0 = {}
            OBVIOUS
        <3> QED
            BY <1>5, <2>1, <3>1
    <2>2. CASE n # 0
        <3>0. n - 1 \in 0 .. n - 1 /\ n - 1 \in 0 .. m /\ n \in 1 .. m
            BY <2>2
        <3> HIDE DEF Good
        <3>1. n - 1 \in Good /\ n - 1 \in 0 .. m /\ n \in 1 .. m
            BY <1>6, <3>0
        <3> USE DEF Good
        <3>2. Fine(n - 1)
            BY <3>1
        <3>3. PICK h : h = g[n - 1]
            OBVIOUS
        <3>4. h \in Seq(1 .. m) /\ Len(h) \in Nat
            BY <3>2, <3>3
        <3>5. CASE t[n].kind \in kinds
            <4>1. g[n] = Append(h, n)
                BY <1>5, <3>1, <3>3, <3>5
            <4>2. /\ g[n] \in Seq(1 .. m) /\ Len(g[n]) = Len(h) + 1 /\ g[n][Len(h) + 1] = n
                  /\ \A i \in 1 .. Len(h) : g[n][i] = h[i]
                BY <3>1, <3>4, <4>1, AppendProperties
            <4>3. ASSUME NEW p \in 1 .. n
                  PROVE  /\ Len(g[p]) <= Len(g[n])
                         /\ t[p].kind \in kinds =>
                                Len(g[p]) \in 1 .. Len(g[n]) /\ g[n][Len(g[p])] = p
                <5>1. CASE p = n
                    BY <3>4, <4>2, <5>1
                <5>2. CASE p # n
                    <6>1. p \in 1 .. n - 1
                        BY <5>2
                    <6>2. /\ Len(g[p]) <= Len(h)
                          /\ t[p].kind \in kinds =>
                                Len(g[p]) \in 1 .. Len(h) /\ h[Len(g[p])] = p
                        BY <3>2, <3>3, <6>1
                    <6>3. Len(g[p]) \in Nat
                        <7>1. p \in Good /\ p \in 0 .. m
                            BY <1>6, <6>1
                        <7> QED
                            BY <7>1, LenProperties
                    <6> QED
                        BY <3>4, <4>2, <6>2, <6>3
                <5> QED
                    BY <5>1, <5>2
            <4> QED
                BY <4>2, <4>3
        <3>6. CASE t[n].kind \notin kinds
            <4>1. g[n] = h
                BY <1>5, <3>1, <3>3, <3>6
            <4>2. \A p \in 1 .. n : p = n \/ p \in 1 .. n - 1
                OBVIOUS
            <4> QED
                BY <3>2, <3>3, <3>4, <3>6, <4>1, <4>2
        <3> QED
            BY <3>5, <3>6
    <2> QED
        BY <2>1, <2>2
<1> HIDE DEF Good
<1>7. \A n \in Nat : n \in Good
    BY <1>6, AllNumbers
<1>8. \A n \in 0 .. m : Fine(n)
    BY <1>7 DEF Good
<1>9. PICK c : c = [n \in 0 .. m |-> Len(g[n])]
    OBVIOUS
<1>10. c \in [0 .. m -> Nat]
    BY <1>8, <1>9, LenProperties
<1>11. ASSUME NEW p \in 1 .. m
       PROVE  /\ c[p] = c[p - 1] + (IF t[p].kind \in kinds THEN 1 ELSE 0)
              /\ t[p].kind \in kinds => c[p] \in 1 .. Len(g[m]) /\ g[m][c[p]] = p
    <2>1. p \in 0 .. m /\ p - 1 \in 0 .. m /\ m \in 0 .. m
        OBVIOUS
    <2>2. c[p] = Len(g[p]) /\ c[p - 1] = Len(g[p - 1]) /\ Fine(m) /\ g[p - 1] \in Seq(1 .. m)
        BY <1>8, <1>9, <2>1
    <2>3. Len(Append(g[p - 1], p)) = Len(g[p - 1]) + 1
        BY <2>2, AppendProperties
    <2>4. c[p - 1] \in Nat
        BY <1>10, <2>1
    <2>5. CASE t[p].kind \in kinds
        <3>1. g[p] = Append(g[p - 1], p)
            BY <1>5, <2>5
        <3> QED
            BY <2>2, <2>3, <2>4, <2>5, <3>1
    <2>6. CASE t[p].kind \notin kinds
        <3>1. g[p] = g[p - 1]
            BY <1>5, <2>6
        <3> QED
            BY <2>2, <2>4, <2>6, <3>1
    <2> QED
        BY <2>5, <2>6
<1>12. c[0] = 0 /\ Len(g[m]) = c[m] /\ g[m] \in Seq(1 .. m)
    <2>1. 0 \in 0 .. m /\ m \in 0 .. m /\ Len(<<>>) = 0
        OBVIOUS
    <2> QED
        BY <1>5, <1>8, <1>9, <2>1
<1>13. IsCount(t, kinds, g[m], c)
    BY <1>1, <1>10, <1>11, <1>12 DEF IsCount
<1> QED
    BY <1>1, <1>4, <1>13

-----------------------------------------------------------------------------
(* The inductive invariant *)

Descriptors == {Nothing} \cup (HeapSteps \X HeapKinds \X Nat)
LargerOf(a, b) == IF a > b THEN a ELSE b

DeviceGiven ==
    /\ props \in [buffer : Nat, image : Nat, sampler : Nat, descriptor : Nat, heap : Nat,
                  reserved : Nat]
    /\ tables \in [HeapSteps -> Seq(HeapEntries)]

\* The slots of a heap are as far apart as its descriptors are long; the
\* sampler heap is made last, and nothing is lowered before.
LayoutGiven ==
    /\ layout = NoLayout \/ layout.stride = LargerOf(props.buffer, props.image)
    /\ heaps \in [TheHeaps -> Seq(Descriptors)]
    /\ \A h \in TheHeaps : heaps[h] # <<>> => layout # NoLayout
    /\ heaps["sampler"] # <<>> => heaps["resource"] # <<>>

\* No two entries of either step have one index of one heap.
IndicesGiven ==
    /\ lowered \in [HeapSteps -> [state : {"not yet", "failed", "lowered"},
                                  map : Seq([slot : Nat, index : Nat])]]
    /\ given = [s \in HeapSteps |-> given[s]]
    /\ \A s \in HeapSteps :
        IF lowered[s].state = "not yet" THEN given[s] = <<>>
        ELSE given[s] \in [DOMAIN tables[s] -> 0 .. HeapSlots] /\ heaps["sampler"] # <<>>
    /\ \A s, t \in HeapSteps : \A p \in DOMAIN given[s], q \in DOMAIN given[t] :
        /\ HeapOf(tables[s][p].kind) = HeapOf(tables[t][q].kind)
        /\ given[s][p] = given[t][q]
        => s = t /\ p = q

\* A step that was lowered finds what it wrote.
LoweredFound ==
    \A s \in HeapSteps : lowered[s].state = "lowered" =>
        \A p \in DOMAIN tables[s] :
            /\ IndexFor(lowered[s].map, tables[s][p].slot) = {given[s][p]}
            /\ \A b \in Destination(tables[s][p].kind, given[s][p]) :
                heaps[HeapOf(tables[s][p].kind)][b] = <<s, tables[s][p].kind, p>>

\* Nothing is written but at the indices that were given.
WrittenInPlace ==
    \A h \in TheHeaps : \A b \in DOMAIN heaps[h] :
        \/ heaps[h][b] = Nothing
        \/ \E s \in HeapSteps : \E p \in DOMAIN given[s] :
            /\ HeapOf(tables[s][p].kind) = h
            /\ b \in Destination(tables[s][p].kind, given[s][p])

HeapInv == DeviceGiven /\ LayoutGiven /\ IndicesGiven /\ LoweredFound /\ WrittenInPlace

-----------------------------------------------------------------------------
(* Layout *)

LEMMA SlotsApart ==
    ASSUME NEW i \in Nat, NEW j \in Nat, NEW k \in Nat, i < j
    PROVE  i * k + k <= j * k
<1>1. PICK d \in Nat : j = i + 1 + d
    <2>1. j - i - 1 \in Nat /\ j = i + 1 + (j - i - 1)
        OBVIOUS
    <2> QED
        BY <2>1
<1>2. (i + 1 + d) * k = i * k + k + d * k
    OBVIOUS
<1>3. d * k \in Nat /\ i * k \in Nat
    OBVIOUS
<1> QED
    BY <1>1, <1>2, <1>3

LEMMA AlignUpIsAbove ==
    ASSUME NEW value \in Nat, NEW alignment \in Nat
    PROVE  AlignUp(value, alignment) \in Nat /\ AlignUp(value, alignment) >= value
<1>1. CASE alignment = 0
    BY <1>1 DEF AlignUp
<1>2. CASE alignment # 0
    <2>1. PICK x \in Nat : x = value + alignment - 1
        BY <1>2
    <2>2. PICK q, r : q = x \div alignment /\ r = x % alignment
        OBVIOUS
    <2>3. q \in Nat /\ r \in 0 .. alignment - 1 /\ x = alignment * q + r
        BY <1>2, <2>2
    <2>4. q * alignment = alignment * q /\ q * alignment \in Nat
        BY <2>3
    <2>5. AlignUp(value, alignment) = q * alignment
        BY <1>2, <2>1, <2>2 DEF AlignUp
    <2> QED
        BY <2>1, <2>3, <2>4, <2>5
<1> QED
    BY <1>1, <1>2

\* How long a descriptor is.
LEMMA DescriptorsFit ==
    ASSUME DeviceGiven, LayoutGiven, layout # NoLayout, NEW k \in HeapKinds
    PROVE  /\ SizeOf(k) \in Nat /\ HeapOf(k) \in TheHeaps
           /\ Stride(HeapOf(k)) \in Nat /\ SizeOf(k) <= Stride(HeapOf(k))
<1>1. props.buffer \in Nat /\ props.image \in Nat /\ props.sampler \in Nat
    BY DEF DeviceGiven
<1>2. CASE k = "sampler"
    <2>1. SizeOf(k) = props.sampler /\ HeapOf(k) = "sampler"
        BY <1>2 DEF SizeOf, HeapOf, Images
    <2>2. Stride(HeapOf(k)) = props.sampler
        BY <2>1 DEF Stride
    <2> QED
        BY <1>1, <2>1, <2>2 DEF TheHeaps
<1>3. CASE k # "sampler"
    <2>1. HeapOf(k) = "resource"
        BY <1>3 DEF HeapOf
    <2>2. Stride(HeapOf(k)) = layout.stride
        BY <2>1 DEF Stride
    <2>3. SizeOf(k) = IF k \in Images THEN props.image ELSE props.buffer
        BY <1>3 DEF SizeOf
    <2>4. layout.stride = LargerOf(props.buffer, props.image)
        BY DEF LayoutGiven
    <2> QED
        BY <1>1, <2>1, <2>2, <2>3, <2>4 DEF LargerOf, TheHeaps
<1> QED
    BY <1>2, <1>3

\* Where a descriptor is.
LEMMA DestinationIs ==
    ASSUME DeviceGiven, LayoutGiven, layout # NoLayout, NEW k \in HeapKinds, NEW i \in Nat
    PROVE  /\ Destination(k, i) \subseteq 1 .. Len(heaps[HeapOf(k)])
           /\ \A b \in Destination(k, i) :
                /\ b \in Nat /\ i * Stride(HeapOf(k)) \in Nat
                /\ i * Stride(HeapOf(k)) < b
                /\ b <= i * Stride(HeapOf(k)) + Stride(HeapOf(k))
<1>1. PICK size \in Nat, h \in TheHeaps, d \in Nat :
        size = SizeOf(k) /\ h = HeapOf(k) /\ d = Stride(h) /\ size <= d
    BY DescriptorsFit
<1>2. PICK o \in Nat : o = i * d
    BY <1>1
<1>3. PICK n \in Nat : n = Len(heaps[h])
    BY <1>1 DEF LayoutGiven
<1>4. PICK D : D = Destination(k, i)
               /\ D = IF size = 0 \/ o + size > n THEN {} ELSE o + 1 .. o + size
    BY <1>1, <1>2, <1>3 DEF Destination
<1>d. D = {} \/ (D = o + 1 .. o + size /\ o + size <= n)
    <2>1. CASE size = 0 \/ o + size > n
        BY <1>4, <2>1
    <2>2. CASE ~ (size = 0 \/ o + size > n)
        <3>1. D = o + 1 .. o + size
            BY <1>4, <2>2
        <3>2. o + size <= n
            BY <1>1, <1>2, <1>3, <2>2
        <3> QED
            BY <3>1, <3>2
    <2> QED
        BY <2>1, <2>2
<1>5. D \subseteq 1 .. n
    BY <1>1, <1>2, <1>3, <1>d
<1>6. ASSUME NEW b \in D
      PROVE  b \in Nat /\ o < b /\ b <= o + d
    BY <1>1, <1>2, <1>3, <1>d
<1> QED
    BY <1>1, <1>2, <1>3, <1>4, <1>5, <1>6

LEMMA DestinationsApart ==
    ASSUME DeviceGiven, LayoutGiven, layout # NoLayout, NEW k \in HeapKinds, NEW l \in HeapKinds,
           NEW i \in Nat, NEW j \in Nat, HeapOf(k) = HeapOf(l), i # j
    PROVE  Destination(k, i) \cap Destination(l, j) = {}
<1>1. PICK d \in Nat : d = Stride(HeapOf(k))
    BY DescriptorsFit
<1>2. PICK x, y \in Nat : x = i * d /\ y = j * d
    BY <1>1
<1>3. x + d <= y \/ y + d <= x
    <2>1. i < j \/ j < i
        OBVIOUS
    <2> QED
        BY <1>1, <1>2, <2>1, SlotsApart
<1> SUFFICES ASSUME NEW b \in Destination(k, i), b \in Destination(l, j)
             PROVE  FALSE
    OBVIOUS
<1>4. b \in Nat /\ x < b /\ b <= x + d
    BY <1>1, <1>2, DestinationIs
<1>5. y < b /\ b <= y + d
    BY <1>1, <1>2, DestinationIs
<1> QED
    BY <1>1, <1>2, <1>3, <1>4, <1>5

\* The range that the device keeps is beyond the slots.
LEMMA ReservedIsBeyond ==
    ASSUME DeviceGiven, LayoutGiven, layout # NoLayout, NEW k \in HeapKinds, NEW i \in Nat,
           i < HeapSlots, NEW b \in Destination(k, i)
    PROVE  b <= ReservedOffset(HeapOf(k))
<1>1. PICK d \in Nat : d = Stride(HeapOf(k))
    BY DescriptorsFit
<1>2. PICK x, y \in Nat : x = i * d /\ y = HeapSlots * d /\ y = d * HeapSlots
    BY <1>1, HeapAssumption
<1>3. x + d <= y
    BY <1>1, <1>2, HeapAssumption, SlotsApart
<1>4. b \in Nat /\ b <= x + d
    BY <1>1, <1>2, DestinationIs
<1>5. AlignUp(y, props.heap) \in Nat /\ AlignUp(y, props.heap) >= y
    BY AlignUpIsAbove DEF DeviceGiven
<1>6. ReservedOffset(HeapOf(k)) = AlignUp(y, props.heap)
    BY <1>1, <1>2 DEF ReservedOffset
<1> QED
    BY <1>1, <1>2, <1>3, <1>4, <1>5, <1>6

-----------------------------------------------------------------------------
(* The loop that lowers a table *)

\* The step s lowers its m entries at these indices; c has the counts of the
\* three listings.
Listed(s, kinds, c) == IsCount(tables[s], kinds, EntriesOf(s, kinds), c)

Lowering(s, m, index, env, c) ==
    /\ DeviceGiven /\ LayoutGiven /\ layout # NoLayout
    /\ m \in Nat /\ m = Len(tables[s]) /\ index \in [1 .. m -> 0 .. HeapSlots]
    /\ \A p, q \in 1 .. m :
        p # q /\ HeapOf(tables[s][p].kind) = HeapOf(tables[s][q].kind) => index[p] # index[q]
    /\ env = Env(s, index)
    /\ Listed(s, NotSamplers, c.resource) /\ Listed(s, Images, c.image)
    /\ Listed(s, {"sampler"}, c.sampler)

\* Only the bytes of the first n entries have changed.
ChangedWithin(s, index, H, n) ==
    /\ H \in [TheHeaps -> Seq(Descriptors)]
    /\ \A h \in TheHeaps : Len(H[h]) = Len(heaps[h])
    /\ \A h \in TheHeaps : \A b \in 1 .. Len(heaps[h]) :
        \/ H[h][b] = heaps[h][b]
        \/ \E p \in 1 .. n : /\ HeapOf(tables[s][p].kind) = h
                             /\ b \in Destination(tables[s][p].kind, index[p])

\* The first n entries are written and mapped.
WrittenUpTo(s, index, H, n) ==
    \A p \in 1 .. n : \A b \in Destination(tables[s][p].kind, index[p]) :
        H[HeapOf(tables[s][p].kind)][b] = <<s, tables[s][p].kind, p>>
MappedUpTo(s, index, map, n) ==
    /\ map \in Seq([slot : Nat, index : Nat]) /\ Len(map) = n
    /\ \A p \in 1 .. n : map[p] = [slot |-> tables[s][p].slot, index |-> index[p]]
    /\ \A p, q \in 1 .. n : tables[s][p].slot = tables[s][q].slot => p = q

LoweredUpTo(s, index, c, acc, n) ==
    /\ acc = [ok |-> acc.ok, heaps |-> acc.heaps, map |-> acc.map,
              resource |-> acc.resource, image |-> acc.image, sampler |-> acc.sampler]
    /\ ChangedWithin(s, index, acc.heaps, n)
    /\ acc.ok =>
        /\ WrittenUpTo(s, index, acc.heaps, n) /\ MappedUpTo(s, index, acc.map, n)
        /\ acc.resource = c.resource[n] + 1 /\ acc.image = c.image[n] + 1
        /\ acc.sampler = c.sampler[n] + 1

\* One descriptor more.
Overwritten(H, h, D, v) == [H EXCEPT ![h] = [b \in DOMAIN @ |-> IF b \in D THEN v ELSE @[b]]]

LEMMA WriteOne ==
    ASSUME NEW H \in [TheHeaps -> Seq(Descriptors)], NEW h \in TheHeaps, NEW D,
           NEW v \in Descriptors, NEW G,
           G = Overwritten(H, h, D, v)
    PROVE  /\ G \in [TheHeaps -> Seq(Descriptors)]
           /\ \A k \in TheHeaps : Len(G[k]) = Len(H[k])
           /\ \A k \in TheHeaps : \A b \in 1 .. Len(H[k]) :
                G[k][b] = IF k = h /\ b \in D THEN v ELSE H[k][b]
<1>1. PICK n \in Nat : n = Len(H[h]) /\ DOMAIN H[h] = 1 .. n
    BY LenProperties
<1>2. PICK x : x = [b \in 1 .. n |-> IF b \in D THEN v ELSE H[h][b]]
    OBVIOUS
<1>3. G = [H EXCEPT ![h] = x]
    BY <1>1, <1>2 DEF Overwritten
<1>4. \A b \in 1 .. n : H[h][b] \in Descriptors
    BY <1>1, ElementOfSeq
<1>5. x \in [1 .. n -> Descriptors]
    BY <1>2, <1>4
<1>6. x \in Seq(Descriptors) /\ Len(x) = n
    BY <1>1, <1>5
<1>7. G[h] = x /\ \A k \in TheHeaps : k # h => G[k] = H[k]
    BY <1>3
<1>8. G \in [TheHeaps -> Seq(Descriptors)]
    BY <1>3, <1>6
<1>9. \A k \in TheHeaps : Len(G[k]) = Len(H[k])
    BY <1>1, <1>6, <1>7
<1>10. ASSUME NEW k \in TheHeaps, NEW b \in 1 .. Len(H[k])
       PROVE  G[k][b] = IF k = h /\ b \in D THEN v ELSE H[k][b]
    <2>1. CASE k = h
        <3>1. b \in 1 .. n /\ G[k] = x
            BY <1>1, <1>7, <2>1
        <3> QED
            BY <1>2, <2>1, <3>1
    <2>2. CASE k # h
        BY <1>7, <2>2
    <2> QED
        BY <2>1, <2>2
<1> QED
    BY <1>8, <1>9, <1>10

\* A position tells the entry that it is at.
LEMMA CountIs ==
    ASSUME NEW t, NEW m \in Nat, m = Len(t), NEW kinds, NEW list, NEW c, IsCount(t, kinds, list, c),
           NEW n \in 1 .. m
    PROVE  /\ c[n - 1] \in Nat /\ c[n] = c[n - 1] + (IF t[n].kind \in kinds THEN 1 ELSE 0)
           /\ t[n].kind \in kinds => c[n] \in DOMAIN list /\ list[c[n]] = n
<1>1. n - 1 \in 0 .. m
    OBVIOUS
<1>2. /\ c \in [0 .. m -> Nat] /\ list \in Seq(1 .. m)
      /\ c[n] = c[n - 1] + (IF t[n].kind \in kinds THEN 1 ELSE 0)
      /\ t[n].kind \in kinds => c[n] \in 1 .. Len(list) /\ list[c[n]] = n
    BY DEF IsCount
<1>3. DOMAIN list = 1 .. Len(list)
    BY <1>2, LenProperties
<1> QED
    BY <1>1, <1>2, <1>3

\* What the next entry is lowered with.
LEMMA EntryTold ==
    ASSUME NEW s \in HeapSteps, NEW m, NEW index, NEW env, NEW c, Lowering(s, m, index, env, c),
           NEW n \in 1 .. m, NEW acc, LoweredUpTo(s, index, c, acc, n - 1), acc.ok,
           NEW k \in HeapKinds, k = tables[s][n].kind
    PROVE  /\ k = "sampler" => env.samplers[acc.sampler] = index[n] /\ env.infos[acc.sampler] = n
           /\ k # "sampler" => env.indices[acc.resource] = index[n]
           /\ k \in Images => env.views[acc.image] = n
<1>1. PICK t : t = tables[s]
    OBVIOUS
<1>2. m \in Nat /\ m = Len(t) /\ env = Env(s, index) /\ t[n].kind = k
    BY <1>1 DEF Lowering
<1>3. PICK r, i, a : r = EntriesOf(s, NotSamplers) /\ i = EntriesOf(s, Images)
                     /\ a = EntriesOf(s, {"sampler"})
    OBVIOUS
<1>4. /\ env.indices = [x \in DOMAIN r |-> index[r[x]]]
      /\ env.samplers = [x \in DOMAIN a |-> index[a[x]]]
      /\ env.views = i /\ env.infos = a
    BY <1>2, <1>3 DEF Env
<1>5. /\ IsCount(t, NotSamplers, r, c.resource) /\ IsCount(t, Images, i, c.image)
      /\ IsCount(t, {"sampler"}, a, c.sampler)
    BY <1>1, <1>3 DEF Lowering, Listed
<1>6. /\ acc.resource = c.resource[n - 1] + 1 /\ acc.image = c.image[n - 1] + 1
      /\ acc.sampler = c.sampler[n - 1] + 1
    BY DEF LoweredUpTo
<1>7. ASSUME k = "sampler"
      PROVE  env.samplers[acc.sampler] = index[n] /\ env.infos[acc.sampler] = n
    <2>1. c.sampler[n] = acc.sampler /\ c.sampler[n] \in DOMAIN a /\ a[c.sampler[n]] = n
        BY <1>2, <1>5, <1>6, <1>7, CountIs
    <2> QED
        BY <1>4, <2>1
<1>8. ASSUME k # "sampler"
      PROVE  env.indices[acc.resource] = index[n]
    <2>1. k \in NotSamplers
        BY <1>8 DEF NotSamplers
    <2>2. c.resource[n] = acc.resource /\ c.resource[n] \in DOMAIN r /\ r[c.resource[n]] = n
        <3>1. PICK d : d = c.resource
            OBVIOUS
        <3>2. IsCount(t, NotSamplers, r, d) /\ t[n].kind \in NotSamplers /\ m \in Nat /\ m = Len(t)
            BY <1>2, <1>5, <2>1, <3>1
        <3>3. d[n - 1] \in Nat /\ d[n] = d[n - 1] + 1 /\ d[n] \in DOMAIN r /\ r[d[n]] = n
            BY <3>2, CountIs
        <3> QED
            BY <1>6, <3>1, <3>3
    <2> QED
        BY <1>4, <2>2
<1>9. ASSUME k \in Images
      PROVE  env.views[acc.image] = n
    <2>1. c.image[n] = acc.image /\ c.image[n] \in DOMAIN i /\ i[c.image[n]] = n
        <3>1. PICK d : d = c.image
            OBVIOUS
        <3>2. IsCount(t, Images, i, d) /\ t[n].kind \in Images /\ m \in Nat /\ m = Len(t)
            BY <1>2, <1>5, <1>9, <3>1
        <3>3. d[n - 1] \in Nat /\ d[n] = d[n - 1] + 1 /\ d[n] \in DOMAIN i /\ i[d[n]] = n
            BY <3>2, CountIs
        <3> QED
            BY <1>6, <3>1, <3>3
    <2> QED
        BY <1>4, <2>1
<1> QED
    BY <1>7, <1>8, <1>9

\* What LowerEntry does with it.
LEMMA LowerEntryIs ==
    ASSUME NEW s \in HeapSteps, NEW m, NEW index, NEW env, NEW c, Lowering(s, m, index, env, c),
           NEW n \in 1 .. m, NEW acc, LoweredUpTo(s, index, c, acc, n - 1), NEW failing,
           NEW k \in HeapKinds, k = tables[s][n].kind
    PROVE  \/ LowerEntry(s, env, failing, acc, n) = [acc EXCEPT !.ok = FALSE]
           \/ /\ acc.ok
              /\ \A q \in DOMAIN acc.map : acc.map[q].slot # tables[s][n].slot
              /\ LowerEntry(s, env, failing, acc, n) =
                    [ok |-> TRUE,
                     heaps |-> Overwritten(acc.heaps, HeapOf(k), Destination(k, index[n]),
                                           <<s, k, n>>),
                     map |-> Append(acc.map, [slot |-> tables[s][n].slot, index |-> index[n]]),
                     resource |-> acc.resource + (IF k # "sampler" THEN 1 ELSE 0),
                     image |-> acc.image + (IF k \in Images THEN 1 ELSE 0),
                     sampler |-> acc.sampler + (IF k = "sampler" THEN 1 ELSE 0)]
<1>1. PICK e : e = tables[s][n] /\ e.kind = k
    OBVIOUS
<1>2. CASE ~ acc.ok
    BY <1>2 DEF LowerEntry
<1>3. CASE acc.ok
    <2>1. /\ k = "sampler" => env.samplers[acc.sampler] = index[n] /\ env.infos[acc.sampler] = n
          /\ k # "sampler" => env.indices[acc.resource] = index[n]
          /\ k \in Images => env.views[acc.image] = n
        BY <1>3, EntryTold
    <2>2. PICK i : i = IF e.kind = "sampler" THEN env.samplers[acc.sampler]
                       ELSE env.indices[acc.resource]
        OBVIOUS
    <2>3. PICK w : w = CASE e.kind = "sampler" -> env.infos[acc.sampler]
                         [] e.kind \in Images -> env.views[acc.image]
                         [] OTHER -> n
        OBVIOUS
    <2>4. i = index[n]
        BY <1>1, <2>1, <2>2
    <2>5. w = n
        <3>1. k = "sampler" => k \notin Images
            BY DEF Images
        <3> QED
            BY <1>1, <2>1, <2>3, <3>1
    <2>6. PICK new : new =
                    [ok |-> TRUE,
                     heaps |-> [acc.heaps EXCEPT ![HeapOf(e.kind)] =
                                    [b \in DOMAIN @ |-> IF b \in Destination(e.kind, i)
                                                        THEN <<s, e.kind, w>> ELSE @[b]]],
                     map |-> Append(acc.map, [slot |-> e.slot, index |-> i]),
                     resource |-> acc.resource + (IF e.kind # "sampler" THEN 1 ELSE 0),
                     image |-> acc.image + (IF e.kind \in Images THEN 1 ELSE 0),
                     sampler |-> acc.sampler + (IF e.kind = "sampler" THEN 1 ELSE 0)]
        OBVIOUS
    <2>7. CASE \/ n = failing
               \/ \E q \in DOMAIN acc.map : acc.map[q].slot = e.slot
               \/ Destination(e.kind, i) = {}
        <3>1. LowerEntry(s, env, failing, acc, n) = [acc EXCEPT !.ok = FALSE]
            BY <1>1, <2>2, <2>7 DEF LowerEntry
        <3> QED
            BY <3>1
    <2>8. CASE ~ (\/ n = failing
                  \/ \E q \in DOMAIN acc.map : acc.map[q].slot = e.slot
                  \/ Destination(e.kind, i) = {})
        <3>1. LowerEntry(s, env, failing, acc, n) = new
            BY <1>1, <1>3, <2>2, <2>3, <2>6, <2>8 DEF LowerEntry
        <3>2. new = [ok |-> TRUE,
                     heaps |-> [acc.heaps EXCEPT ![HeapOf(k)] =
                                    [b \in DOMAIN @ |-> IF b \in Destination(k, index[n])
                                                        THEN <<s, k, n>> ELSE @[b]]],
                     map |-> Append(acc.map, [slot |-> e.slot, index |-> index[n]]),
                     resource |-> acc.resource + (IF k # "sampler" THEN 1 ELSE 0),
                     image |-> acc.image + (IF k \in Images THEN 1 ELSE 0),
                     sampler |-> acc.sampler + (IF k = "sampler" THEN 1 ELSE 0)]
            BY <1>1, <2>4, <2>5, <2>6
        <3>3. [acc.heaps EXCEPT ![HeapOf(k)] = [b \in DOMAIN @ |-> IF b \in Destination(k, index[n])
                                                                   THEN <<s, k, n>> ELSE @[b]]]
              = Overwritten(acc.heaps, HeapOf(k), Destination(k, index[n]), <<s, k, n>>)
            BY DEF Overwritten
        <3> QED
            BY <1>1, <1>3, <2>8, <3>1, <3>2, <3>3
    <2> QED
        BY <2>7, <2>8
<1> QED
    BY <1>2, <1>3

\* The kind of an entry, and its bytes, which are apart from those of the others.
LEMMA EntryBytes ==
    ASSUME NEW s \in HeapSteps, NEW m, NEW index, NEW env, NEW c, Lowering(s, m, index, env, c),
           NEW n \in 1 .. m
    PROVE  /\ tables[s][n].kind \in HeapKinds /\ tables[s][n].slot \in Nat
           /\ HeapOf(tables[s][n].kind) \in TheHeaps /\ index[n] \in Nat
           /\ Destination(tables[s][n].kind, index[n])
                \subseteq 1 .. Len(heaps[HeapOf(tables[s][n].kind)])
           /\ \A p \in 1 .. m :
                p # n /\ HeapOf(tables[s][p].kind) = HeapOf(tables[s][n].kind) =>
                    Destination(tables[s][p].kind, index[p])
                        \cap Destination(tables[s][n].kind, index[n]) = {}
<1>1. /\ DeviceGiven /\ LayoutGiven /\ layout # NoLayout /\ m \in Nat
      /\ m = Len(tables[s]) /\ index \in [1 .. m -> 0 .. HeapSlots]
    BY DEF Lowering
<1>2. \A p \in 1 .. m : tables[s][p] \in HeapEntries
    <2>1. tables[s] \in Seq(HeapEntries)
        BY <1>1 DEF DeviceGiven
    <2> QED
        BY <1>1, <2>1, ElementOfSeq
<1>3. \A p \in 1 .. m : tables[s][p].kind \in HeapKinds /\ index[p] \in Nat
    BY <1>1, <1>2, HeapAssumption DEF HeapEntries
<1>4. tables[s][n].slot \in Nat
    BY <1>2 DEF HeapEntries
<1>5. HeapOf(tables[s][n].kind) \in TheHeaps
    BY <1>1, <1>3, DescriptorsFit
<1>6. Destination(tables[s][n].kind, index[n]) \subseteq 1 .. Len(heaps[HeapOf(tables[s][n].kind)])
    BY <1>1, <1>3, DestinationIs
<1>7. ASSUME NEW p \in 1 .. m, p # n, HeapOf(tables[s][p].kind) = HeapOf(tables[s][n].kind)
      PROVE  Destination(tables[s][p].kind, index[p])
                \cap Destination(tables[s][n].kind, index[n]) = {}
    <2>1. index[p] # index[n]
        BY <1>7 DEF Lowering
    <2> QED
        BY <1>1, <1>3, <1>7, <2>1, DestinationsApart
<1> QED
    BY <1>3, <1>4, <1>5, <1>6, <1>7

LEMMA EntryKeeps ==
    ASSUME NEW s \in HeapSteps, NEW m, NEW index, NEW env, NEW c, Lowering(s, m, index, env, c),
           NEW n \in 1 .. m, NEW acc, LoweredUpTo(s, index, c, acc, n - 1), NEW failing,
           NEW r, r = LowerEntry(s, env, failing, acc, n)
    PROVE  LoweredUpTo(s, index, c, r, n)
<1>1. PICK k \in HeapKinds : k = tables[s][n].kind
    BY EntryBytes
<1>m. m \in Nat /\ n \in Nat /\ \A p \in 1 .. n : p \in 1 .. m /\ (p = n \/ p \in 1 .. n - 1)
    BY DEF Lowering
<1>2. /\ acc = [ok |-> acc.ok, heaps |-> acc.heaps, map |-> acc.map,
                resource |-> acc.resource, image |-> acc.image, sampler |-> acc.sampler]
      /\ ChangedWithin(s, index, acc.heaps, n - 1)
    BY DEF LoweredUpTo
<1>3. CASE r = [acc EXCEPT !.ok = FALSE]
    <2>1. r = [ok |-> FALSE, heaps |-> acc.heaps, map |-> acc.map,
               resource |-> acc.resource, image |-> acc.image, sampler |-> acc.sampler]
        BY <1>2, <1>3
    <2>2. r.heaps = acc.heaps /\ ~ r.ok
        BY <2>1
    <2>3. \A p \in 1 .. n - 1 : p \in 1 .. n
        BY <1>m
    <2>4. ChangedWithin(s, index, acc.heaps, n)
        BY <1>2, <2>3 DEF ChangedWithin
    <2> QED
        BY <2>1, <2>2, <2>4 DEF LoweredUpTo
<1>4. CASE r # [acc EXCEPT !.ok = FALSE]
    <2>1. PICK D, i, sl, H : /\ D = Destination(k, index[n]) /\ i = index[n]
                             /\ sl = tables[s][n].slot /\ H = acc.heaps
        OBVIOUS
    <2>v. PICK v, g : v = <<s, k, n>> /\ g = HeapOf(k)
        OBVIOUS
    <2>g. PICK G : G = Overwritten(H, g, D, v)
        OBVIOUS
    <2>h. G = Overwritten(acc.heaps, HeapOf(k), Destination(k, index[n]), <<s, k, n>>)
        BY <2>1, <2>v, <2>g
    <2>l. /\ acc.ok
          /\ \A q \in DOMAIN acc.map : acc.map[q].slot # tables[s][n].slot
          /\ r = [ok |-> TRUE,
                  heaps |-> Overwritten(acc.heaps, HeapOf(k), Destination(k, index[n]), <<s, k, n>>),
                  map |-> Append(acc.map, [slot |-> tables[s][n].slot, index |-> index[n]]),
                  resource |-> acc.resource + (IF k # "sampler" THEN 1 ELSE 0),
                  image |-> acc.image + (IF k \in Images THEN 1 ELSE 0),
                  sampler |-> acc.sampler + (IF k = "sampler" THEN 1 ELSE 0)]
        <3>1. PICK x : x = LowerEntry(s, env, failing, acc, n) /\ x # [acc EXCEPT !.ok = FALSE]
            BY <1>4
        <3> QED
            BY <1>1, <3>1, LowerEntryIs
    <2>2. /\ acc.ok
          /\ \A q \in DOMAIN acc.map : acc.map[q].slot # sl
          /\ r = [ok |-> TRUE, heaps |-> G,
                  map |-> Append(acc.map, [slot |-> sl, index |-> i]),
                  resource |-> acc.resource + (IF k # "sampler" THEN 1 ELSE 0),
                  image |-> acc.image + (IF k \in Images THEN 1 ELSE 0),
                  sampler |-> acc.sampler + (IF k = "sampler" THEN 1 ELSE 0)]
        BY <2>1, <2>h, <2>l
    <2>3. /\ WrittenUpTo(s, index, H, n - 1) /\ MappedUpTo(s, index, acc.map, n - 1)
          /\ acc.resource = c.resource[n - 1] + 1 /\ acc.image = c.image[n - 1] + 1
          /\ acc.sampler = c.sampler[n - 1] + 1
        BY <2>1, <2>2 DEF LoweredUpTo
    <2>4. HeapOf(k) \in TheHeaps /\ i \in Nat /\ sl \in Nat /\ D \subseteq 1 .. Len(heaps[HeapOf(k)])
        BY <1>1, <2>1, EntryBytes
    <2>5. ChangedWithin(s, index, H, n - 1) /\ H \in [TheHeaps -> Seq(Descriptors)]
        BY <1>2, <2>1 DEF ChangedWithin
    <2>6. <<s, k, n>> \in Descriptors
        BY <1>m DEF Descriptors
    <2>7. /\ G \in [TheHeaps -> Seq(Descriptors)]
          /\ \A h \in TheHeaps : Len(G[h]) = Len(H[h])
          /\ \A h \in TheHeaps : \A b \in 1 .. Len(H[h]) :
                G[h][b] = IF h = HeapOf(k) /\ b \in D THEN <<s, k, n>> ELSE H[h][b]
        <3>1. v \in Descriptors /\ g \in TheHeaps
            BY <2>4, <2>6, <2>v
        <3>2. /\ G \in [TheHeaps -> Seq(Descriptors)]
              /\ \A h \in TheHeaps : Len(G[h]) = Len(H[h])
              /\ \A h \in TheHeaps : \A b \in 1 .. Len(H[h]) :
                    G[h][b] = IF h = g /\ b \in D THEN v ELSE H[h][b]
            BY <2>5, <2>g, <3>1, WriteOne
        <3> QED
            BY <2>v, <3>2
    <2>8. ChangedWithin(s, index, G, n)
        <3>1. \A h \in TheHeaps : Len(G[h]) = Len(heaps[h]) /\ Len(H[h]) = Len(heaps[h])
            BY <2>5, <2>7 DEF ChangedWithin
        <3>2. ASSUME NEW h \in TheHeaps, NEW b \in 1 .. Len(heaps[h]), G[h][b] # heaps[h][b]
              PROVE  \E p \in 1 .. n : /\ HeapOf(tables[s][p].kind) = h
                                       /\ b \in Destination(tables[s][p].kind, index[p])
            <4>1. CASE h = HeapOf(k) /\ b \in D
                BY <1>1, <1>m, <2>1, <4>1
            <4>2. CASE ~ (h = HeapOf(k) /\ b \in D)
                <5>1. H[h][b] # heaps[h][b]
                    BY <2>7, <3>1, <3>2, <4>2
                <5>2. PICK p \in 1 .. n - 1 : /\ HeapOf(tables[s][p].kind) = h
                                              /\ b \in Destination(tables[s][p].kind, index[p])
                    BY <2>5, <5>1 DEF ChangedWithin
                <5>3. p \in 1 .. n
                    BY <1>m
                <5> QED
                    BY <5>2, <5>3
            <4> QED
                BY <4>1, <4>2
        <3> QED
            BY <2>7, <3>1, <3>2 DEF ChangedWithin
    <2>9. WrittenUpTo(s, index, G, n)
        <3> SUFFICES ASSUME NEW p \in 1 .. n, NEW b \in Destination(tables[s][p].kind, index[p])
                     PROVE  G[HeapOf(tables[s][p].kind)][b] = <<s, tables[s][p].kind, p>>
            BY DEF WrittenUpTo
        <3>1. PICK l \in HeapKinds, h \in TheHeaps : /\ l = tables[s][p].kind /\ h = HeapOf(l)
                                                     /\ b \in 1 .. Len(heaps[h])
            BY <1>m, EntryBytes
        <3>2. Len(H[h]) = Len(heaps[h])
            BY <2>5 DEF ChangedWithin
        <3>3. G[h][b] = IF h = HeapOf(k) /\ b \in D THEN <<s, k, n>> ELSE H[h][b]
            BY <2>7, <3>1, <3>2
        <3>4. CASE p = n
            BY <1>1, <2>1, <3>1, <3>3, <3>4
        <3>5. CASE p # n
            <4>1. p \in 1 .. n - 1 /\ p \in 1 .. m
                BY <1>m, <3>5
            <4>2. H[h][b] = <<s, l, p>>
                BY <2>3, <3>1, <4>1 DEF WrittenUpTo
            <4>3. ~ (h = HeapOf(k) /\ b \in D)
                <5> SUFFICES ASSUME h = HeapOf(k)
                             PROVE  b \notin D
                    OBVIOUS
                <5>1. Destination(tables[s][p].kind, index[p])
                        \cap Destination(tables[s][n].kind, index[n]) = {}
                    BY <1>1, <3>1, <3>5, <4>1, EntryBytes
                <5> QED
                    BY <1>1, <2>1, <5>1
            <4> QED
                BY <3>1, <3>3, <4>2, <4>3
        <3> QED
            BY <3>4, <3>5
    <2>10. MappedUpTo(s, index, r.map, n)
        <3>1. PICK map, e : map = acc.map /\ e = [slot |-> sl, index |-> i] /\ r.map = Append(map, e)
            BY <2>2
        <3>2. map \in Seq([slot : Nat, index : Nat]) /\ Len(map) = n - 1 /\ DOMAIN map = 1 .. n - 1
            BY <2>3, <3>1, LenProperties DEF MappedUpTo
        <3>3. e \in [slot : Nat, index : Nat]
            BY <2>4, <3>1
        <3>4. /\ r.map \in Seq([slot : Nat, index : Nat]) /\ Len(r.map) = n
              /\ \A p \in 1 .. n - 1 : r.map[p] = map[p]
              /\ r.map[n] = e
            BY <1>m, <3>1, <3>2, <3>3, AppendProperties
        <3>5. \A p \in 1 .. n - 1 : map[p] = [slot |-> tables[s][p].slot, index |-> index[p]]
            BY <2>3, <3>1 DEF MappedUpTo
        <3>6. \A p \in 1 .. n : r.map[p] = [slot |-> tables[s][p].slot, index |-> index[p]]
            BY <1>m, <2>1, <3>1, <3>4, <3>5
        <3>7. \A p \in 1 .. n - 1 : tables[s][p].slot # tables[s][n].slot
            <4> SUFFICES ASSUME NEW p \in 1 .. n - 1
                         PROVE  tables[s][p].slot # tables[s][n].slot
                OBVIOUS
            <4>1. map[p].slot # sl
                BY <2>2, <3>1, <3>2
            <4>2. PICK x : x = map[p]
                OBVIOUS
            <4>3. x = [slot |-> tables[s][p].slot, index |-> index[p]]
                BY <3>5, <4>2
            <4>4. x.slot = tables[s][p].slot
                BY <4>3
            <4> QED
                BY <2>1, <4>1, <4>2, <4>4
        <3>8. \A p, q \in 1 .. n - 1 : tables[s][p].slot = tables[s][q].slot => p = q
            BY <2>3 DEF MappedUpTo
        <3>9. \A p, q \in 1 .. n : tables[s][p].slot = tables[s][q].slot => p = q
            BY <1>m, <3>7, <3>8
        <3> QED
            BY <3>4, <3>6, <3>9 DEF MappedUpTo
    <2>11. /\ r.resource = c.resource[n] + 1 /\ r.image = c.image[n] + 1
           /\ r.sampler = c.sampler[n] + 1
        <3>1. PICK t : t = tables[s] /\ m = Len(t) /\ t[n].kind = k
            BY <1>1 DEF Lowering
        <3>2. /\ IsCount(t, NotSamplers, EntriesOf(s, NotSamplers), c.resource)
              /\ IsCount(t, Images, EntriesOf(s, Images), c.image)
              /\ IsCount(t, {"sampler"}, EntriesOf(s, {"sampler"}), c.sampler)
            BY <3>1 DEF Lowering, Listed
        <3>3. /\ c.resource[n - 1] \in Nat
              /\ c.resource[n] = c.resource[n - 1] + (IF k \in NotSamplers THEN 1 ELSE 0)
            BY <1>m, <3>1, <3>2, CountIs
        <3>4. /\ c.image[n - 1] \in Nat
              /\ c.image[n] = c.image[n - 1] + (IF k \in Images THEN 1 ELSE 0)
            BY <1>m, <3>1, <3>2, CountIs
        <3>5. /\ c.sampler[n - 1] \in Nat
              /\ c.sampler[n] = c.sampler[n - 1] + (IF k \in {"sampler"} THEN 1 ELSE 0)
            BY <1>m, <3>1, <3>2, CountIs
        <3>6. k # "sampler" <=> k \in NotSamplers
            BY DEF NotSamplers
        <3>7. /\ r.resource = acc.resource + (IF k # "sampler" THEN 1 ELSE 0)
              /\ r.image = acc.image + (IF k \in Images THEN 1 ELSE 0)
              /\ r.sampler = acc.sampler + (IF k = "sampler" THEN 1 ELSE 0)
            BY <2>2
        <3> QED
            BY <2>3, <3>3, <3>4, <3>5, <3>6, <3>7
    <2>12. r.heaps = G /\ r = [ok |-> r.ok, heaps |-> r.heaps, map |-> r.map,
                               resource |-> r.resource, image |-> r.image, sampler |-> r.sampler]
        BY <2>2
    <2> QED
        BY <2>8, <2>9, <2>10, <2>11, <2>12 DEF LoweredUpTo
<1> QED
    BY <1>3, <1>4

LEMMA TableIsLowered ==
    ASSUME NEW s \in HeapSteps, NEW m, NEW index, NEW env, NEW c, Lowering(s, m, index, env, c),
           NEW failing, NEW r, r = Lower(s, env, failing)
    PROVE  LoweredUpTo(s, index, c, r, m)
<1>1. m \in Nat /\ m = Len(tables[s]) /\ LayoutGiven
    BY DEF Lowering
<1>2. PICK g : g = CHOOSE a : IsLowering(s, env, failing, m, a)
    OBVIOUS
<1>3. IsLowering(s, env, failing, m, g)
    <2>1. \E a : IsLowering(s, env, failing, m, a)
        BY <1>1, LoweringExists
    <2> QED
        BY <1>2, <2>1
<1>4. r = g[m]
    BY <1>1, <1>2 DEF Lower, IsLowering
<1>5. g[0] = Start /\ \A n \in 1 .. m : g[n] = LowerEntry(s, env, failing, g[n - 1], n)
    <2>1. \A n \in 0 .. m : g[n] = IF n = 0 THEN Start ELSE LowerEntry(s, env, failing, g[n - 1], n)
        BY <1>3 DEF IsLowering
    <2>2. 0 \in 0 .. m /\ \A n \in 1 .. m : n \in 0 .. m /\ n # 0
        BY <1>1
    <2> QED
        BY <2>1, <2>2
<1>6. LoweredUpTo(s, index, c, Start, 0)
    <2>1. /\ Start.ok /\ Start.heaps = heaps /\ Start.map = <<>>
          /\ Start.resource = 1 /\ Start.image = 1 /\ Start.sampler = 1
          /\ Start = [ok |-> Start.ok, heaps |-> Start.heaps, map |-> Start.map,
                      resource |-> Start.resource, image |-> Start.image, sampler |-> Start.sampler]
        BY DEF Start
    <2>2. ChangedWithin(s, index, heaps, 0)
        BY <1>1 DEF ChangedWithin, LayoutGiven
    <2>3. WrittenUpTo(s, index, heaps, 0)
        BY DEF WrittenUpTo
    <2>4. MappedUpTo(s, index, <<>>, 0)
        BY DEF MappedUpTo
    <2>5. c.resource[0] = 0 /\ c.image[0] = 0 /\ c.sampler[0] = 0
        BY DEF Lowering, Listed, IsCount
    <2> QED
        BY <2>1, <2>2, <2>3, <2>4, <2>5 DEF LoweredUpTo
<1> DEFINE Good == {n \in Nat : n \in 0 .. m => LoweredUpTo(s, index, c, g[n], n)}
<1>7. ASSUME NEW n \in Nat, \A k \in 0 .. n - 1 : k \in Good
      PROVE  n \in Good
    <2> SUFFICES ASSUME n \in 0 .. m
                 PROVE  LoweredUpTo(s, index, c, g[n], n)
        OBVIOUS
    <2>1. CASE n = 0
        BY <1>5, <1>6, <2>1
    <2>2. CASE n # 0
        <3>1. n - 1 \in 0 .. n - 1 /\ n - 1 \in 0 .. m /\ n \in 1 .. m
            BY <1>1, <2>2
        <3>2. n - 1 \in Good
            BY <1>7, <3>1
        <3>3. LoweredUpTo(s, index, c, g[n - 1], n - 1)
            BY <3>1, <3>2
        <3>4. g[n] = LowerEntry(s, env, failing, g[n - 1], n)
            BY <1>5, <3>1
        <3> HIDE DEF Good
        <3> QED
            BY <3>1, <3>3, <3>4, EntryKeeps
    <2> QED
        BY <2>1, <2>2
<1> HIDE DEF Good
<1>8. m \in Good
    BY <1>1, <1>7, AllNumbers
<1> QED
    BY <1>1, <1>4, <1>8 DEF Good

\* Every entry is in one of the two listings of indices.
LEMMA AllAreListed ==
    ASSUME NEW s \in HeapSteps, NEW m \in Nat, m = Len(tables[s]), tables[s] \in Seq(HeapEntries)
    PROVE  \E c : /\ Listed(s, NotSamplers, c.resource) /\ Listed(s, Images, c.image)
                  /\ Listed(s, {"sampler"}, c.sampler)
                  /\ c.resource[m] + c.sampler[m] = m
                  /\ c.resource[m] \in Nat /\ c.sampler[m] \in Nat
<1>1. PICK r : Listed(s, NotSamplers, r)
    BY EntriesAreCounted DEF Listed
<1>2. PICK i : Listed(s, Images, i)
    BY EntriesAreCounted DEF Listed
<1>3. PICK a : Listed(s, {"sampler"}, a)
    BY EntriesAreCounted DEF Listed
<1>4. PICK c : c = [resource |-> r, image |-> i, sampler |-> a]
    OBVIOUS
<1>5. c.resource = r /\ c.image = i /\ c.sampler = a
    BY <1>4
<1>6. /\ r \in [0 .. m -> Nat] /\ a \in [0 .. m -> Nat] /\ r[0] = 0 /\ a[0] = 0
      /\ \A p \in 1 .. m :
            /\ r[p] = r[p - 1] + (IF tables[s][p].kind \in NotSamplers THEN 1 ELSE 0)
            /\ a[p] = a[p - 1] + (IF tables[s][p].kind \in {"sampler"} THEN 1 ELSE 0)
    BY <1>1, <1>3 DEF Listed, IsCount
<1>7. \A p \in 1 .. m : tables[s][p].kind \in HeapKinds
    <2>1. \A p \in 1 .. m : tables[s][p] \in HeapEntries
        BY ElementOfSeq
    <2> QED
        BY <2>1 DEF HeapEntries
<1> DEFINE Good == {n \in Nat : n \in 0 .. m => r[n] + a[n] = n}
<1>8. ASSUME NEW n \in Nat, \A k \in 0 .. n - 1 : k \in Good
      PROVE  n \in Good
    <2> SUFFICES ASSUME n \in 0 .. m
                 PROVE  r[n] + a[n] = n
        OBVIOUS
    <2>1. CASE n = 0
        BY <1>6, <2>1
    <2>2. CASE n # 0
        <3>1. n - 1 \in 0 .. n - 1 /\ n - 1 \in 0 .. m /\ n \in 1 .. m
            BY <2>2
        <3>2. n - 1 \in Good
            BY <1>8, <3>1
        <3>3. r[n - 1] + a[n - 1] = n - 1 /\ r[n - 1] \in Nat /\ a[n - 1] \in Nat
            BY <1>6, <3>1, <3>2
        <3>4. tables[s][n].kind \in NotSamplers <=> tables[s][n].kind \notin {"sampler"}
            BY <1>7, <3>1 DEF NotSamplers
        <3>5. /\ r[n] = r[n - 1] + (IF tables[s][n].kind \in NotSamplers THEN 1 ELSE 0)
              /\ a[n] = a[n - 1] + (IF tables[s][n].kind \in {"sampler"} THEN 1 ELSE 0)
            BY <1>6, <3>1
        <3> HIDE DEF Good
        <3> QED
            BY <3>3, <3>4, <3>5
    <2> QED
        BY <2>1, <2>2
<1> HIDE DEF Good
<1>9. m \in Good
    BY <1>8, AllNumbers
<1>10. r[m] + a[m] = m /\ r[m] \in Nat /\ a[m] \in Nat
    BY <1>6, <1>9 DEF Good
<1> QED
    BY <1>1, <1>2, <1>3, <1>5, <1>10

-----------------------------------------------------------------------------
(* The steps *)

\* What recording a step does.
Recorded(s, m, index) ==
    /\ UNCHANGED <<props, layout, tables>>
    /\ m \in Nat /\ m = Len(tables[s]) /\ index \in [1 .. m -> 0 .. HeapSlots]
    /\ lowered[s].state = "not yet" /\ heaps["sampler"] # <<>> /\ layout # NoLayout
    /\ \A p, q \in 1 .. m :
        p # q /\ HeapOf(tables[s][p].kind) = HeapOf(tables[s][q].kind) => index[p] # index[q]
    /\ OwnIndices(s, index) /\ given' = [given EXCEPT ![s] = index]
    /\ ChangedWithin(s, index, heaps', m)
    /\ \/ lowered' = [lowered EXCEPT ![s].state = "failed"]
       \/ \E map : /\ lowered' = [lowered EXCEPT ![s] = [state |-> "lowered", map |-> map]]
                   /\ WrittenUpTo(s, index, heaps', m) /\ MappedUpTo(s, index, map, m)

LEMMA StepRecorded ==
    ASSUME HeapInv, NEW s \in HeapSteps, RecordHeapStep(s)
    PROVE  \E m, index : Recorded(s, m, index)
<1>0. PICK index \in [DOMAIN tables[s] -> 0 .. HeapSlots], failing \in 0 .. Len(tables[s]),
           short \in BOOLEAN :
        LET env == IF short THEN [Env(s, index) EXCEPT !.indices = Tail(@)] ELSE Env(s, index)
            end == Lower(s, env, failing)
        IN  /\ \A p, q \in DOMAIN index :
                p # q /\ HeapOf(tables[s][p].kind) = HeapOf(tables[s][q].kind) =>
                    index[p] # index[q]
            /\ OwnIndices(s, index)
            /\ short => Env(s, index).indices # <<>> /\ failing = 0
            /\ given' = [given EXCEPT ![s] = index]
            /\ IF Matches(s, env) /\ end.ok
               THEN /\ lowered' = [lowered EXCEPT ![s] = [state |-> "lowered", map |-> end.map]]
                    /\ heaps' = end.heaps
               ELSE /\ lowered' = [lowered EXCEPT ![s].state = "failed"]
                    /\ heaps' = IF Matches(s, env) THEN end.heaps ELSE heaps
    BY DEF RecordHeapStep
<1>e. PICK env : env = IF short THEN [Env(s, index) EXCEPT !.indices = Tail(@)]
                       ELSE Env(s, index)
    OBVIOUS
<1>n. PICK end : end = Lower(s, env, failing)
    OBVIOUS
<1>1. /\ \A p, q \in DOMAIN index :
            p # q /\ HeapOf(tables[s][p].kind) = HeapOf(tables[s][q].kind) => index[p] # index[q]
      /\ OwnIndices(s, index)
      /\ short => Env(s, index).indices # <<>> /\ failing = 0
      /\ given' = [given EXCEPT ![s] = index]
      /\ IF Matches(s, env) /\ end.ok
         THEN /\ lowered' = [lowered EXCEPT ![s] = [state |-> "lowered", map |-> end.map]]
              /\ heaps' = end.heaps
         ELSE /\ lowered' = [lowered EXCEPT ![s].state = "failed"]
              /\ heaps' = IF Matches(s, env) THEN end.heaps ELSE heaps
    BY <1>0, <1>e, <1>n
<1>2. /\ UNCHANGED <<props, layout, tables>>
      /\ lowered[s].state = "not yet" /\ heaps["sampler"] # <<>>
    BY DEF RecordHeapStep
<1>3. DeviceGiven /\ LayoutGiven /\ layout # NoLayout
    BY <1>2 DEF HeapInv, LayoutGiven, TheHeaps
<1>4. tables[s] \in Seq(HeapEntries)
    BY <1>3 DEF DeviceGiven
<1>5. PICK m \in Nat : m = Len(tables[s]) /\ DOMAIN tables[s] = 1 .. m
    BY <1>4, LenProperties
<1>6. /\ index \in [1 .. m -> 0 .. HeapSlots] /\ DOMAIN index = 1 .. m
      /\ \A p, q \in 1 .. m :
            p # q /\ HeapOf(tables[s][p].kind) = HeapOf(tables[s][q].kind) => index[p] # index[q]
    BY <1>1, <1>5
<1>7. CASE ~ Matches(s, env)
    <2>1. /\ lowered' = [lowered EXCEPT ![s].state = "failed"] /\ heaps' = heaps
          /\ OwnIndices(s, index) /\ given' = [given EXCEPT ![s] = index]
        BY <1>1, <1>7
    <2>2. ChangedWithin(s, index, heaps', m)
        BY <1>3, <2>1 DEF ChangedWithin, LayoutGiven
    <2> QED
        BY <1>2, <1>3, <1>5, <1>6, <2>1, <2>2 DEF Recorded
<1>8. CASE Matches(s, env)
    <2>1. PICK c : /\ Listed(s, NotSamplers, c.resource) /\ Listed(s, Images, c.image)
                   /\ Listed(s, {"sampler"}, c.sampler)
                   /\ c.resource[m] + c.sampler[m] = m
                   /\ c.resource[m] \in Nat /\ c.sampler[m] \in Nat
        BY <1>4, <1>5, AllAreListed
    <2>2. env = Env(s, index)
        <3> SUFFICES ASSUME short
                     PROVE  FALSE
            BY <1>e
        <3>1. PICK r, a : r = EntriesOf(s, NotSamplers) /\ a = EntriesOf(s, {"sampler"})
            OBVIOUS
        <3>2. /\ r \in Seq(1 .. m) /\ Len(r) = c.resource[m] /\ Len(a) = c.sampler[m]
            BY <1>5, <2>1, <3>1 DEF Listed, IsCount
        <3>3. PICK x : x = [n \in DOMAIN r |-> index[r[n]]]
            OBVIOUS
        <3>4. PICK all : all = Env(s, index) /\ all.indices = x
            <4>1. Env(s, index).indices = [n \in DOMAIN EntriesOf(s, NotSamplers) |->
                                                index[EntriesOf(s, NotSamplers)[n]]]
                BY DEF Env
            <4> QED
                BY <3>1, <3>3, <4>1
        <3>5. x \in Seq(0 .. HeapSlots) /\ Len(x) = Len(r)
            <4>1. PICK l \in Nat : l = Len(r) /\ DOMAIN r = 1 .. l
                BY <3>2, LenProperties
            <4>2. \A n \in 1 .. l : r[n] \in 1 .. m
                BY <3>2, <4>1, ElementOfSeq
            <4>3. x \in [1 .. l -> 0 .. HeapSlots]
                BY <1>6, <3>3, <4>1, <4>2
            <4>4. x \in Seq(0 .. HeapSlots) /\ DOMAIN x = 1 .. l
                <5>1. PICK S : S = 0 .. HeapSlots
                    OBVIOUS
                <5>2. x \in [1 .. l -> S]
                    BY <4>3, <5>1
                <5>3. x \in Seq(S) /\ DOMAIN x = 1 .. l
                    BY <4>1, <5>2
                <5> QED
                    BY <5>1, <5>3
            <4>5. Len(x) = l
                BY <4>1, <4>4, LenProperties
            <4> QED
                BY <4>1, <4>4, <4>5
        <3>6. x # <<>>
            BY <1>1, <3>4
        <3>7. env = [all EXCEPT !.indices = Tail(x)]
            BY <1>e, <3>4
        <3>8. env.indices = Tail(x)
            <4>1. PICK u, v, w, z : all = [indices |-> u, samplers |-> v, views |-> w, infos |-> z]
                BY <3>4 DEF Env
            <4> QED
                BY <3>7, <4>1
        <3>9. Len(Tail(x)) = Len(x) - 1
            BY <3>5, <3>6, HeadTailProperties
        <3>10. Len(env.indices) = m - Len(a)
            BY <1>5, <1>8, <3>1 DEF Matches
        <3> QED
            BY <2>1, <3>2, <3>5, <3>8, <3>9, <3>10
    <2>3. Lowering(s, m, index, env, c)
        BY <1>3, <1>5, <1>6, <2>1, <2>2 DEF Lowering
    <2>4. LoweredUpTo(s, index, c, end, m)
        BY <1>n, <2>3, TableIsLowered
    <2>5. heaps' = end.heaps /\ OwnIndices(s, index) /\ given' = [given EXCEPT ![s] = index]
        BY <1>1, <1>8
    <2>6. ChangedWithin(s, index, heaps', m)
        BY <2>4, <2>5 DEF LoweredUpTo
    <2>7. CASE end.ok
        <3>1. lowered' = [lowered EXCEPT ![s] = [state |-> "lowered", map |-> end.map]]
            BY <1>1, <1>8, <2>7
        <3>2. WrittenUpTo(s, index, heaps', m) /\ MappedUpTo(s, index, end.map, m)
            BY <2>4, <2>5, <2>7 DEF LoweredUpTo
        <3> QED
            BY <1>2, <1>3, <1>5, <1>6, <2>5, <2>6, <3>1, <3>2 DEF Recorded
    <2>8. CASE ~ end.ok
        <3>1. lowered' = [lowered EXCEPT ![s].state = "failed"]
            BY <1>1, <2>8
        <3> QED
            BY <1>2, <1>3, <1>5, <1>6, <2>5, <2>6, <3>1 DEF Recorded
    <2> QED
        BY <2>7, <2>8
<1> QED
    BY <1>7, <1>8

LEMMA SameDestinations ==
    ASSUME UNCHANGED <<props, layout>>, \A h \in TheHeaps : Len(heaps[h])' = Len(heaps[h]),
           NEW k \in HeapKinds, NEW i
    PROVE  Destination(k, i)' = Destination(k, i)
<1>1. SizeOf(k)' = SizeOf(k) /\ Stride(HeapOf(k))' = Stride(HeapOf(k)) /\ HeapOf(k)' = HeapOf(k)
    BY DEF SizeOf, Stride, HeapOf
<1>2. HeapOf(k) \in TheHeaps
    BY DEF HeapOf, TheHeaps
<1>3. Len(heaps[HeapOf(k)])' = Len(heaps[HeapOf(k)])
    BY <1>1, <1>2
<1> QED
    BY <1>1, <1>3 DEF Destination

\* Before there is a sampler heap, nothing is lowered.
LEMMA NothingLowered ==
    ASSUME HeapInv, heaps["sampler"] = <<>>
    PROVE  \A s \in HeapSteps : /\ lowered[s].state = "not yet" /\ given[s] = <<>>
                                /\ DOMAIN given[s] = {}
<1>1. \A s \in HeapSteps : lowered[s].state = "not yet" /\ given[s] = <<>>
    BY DEF HeapInv, IndicesGiven
<1>2. DOMAIN <<>> = {}
    OBVIOUS
<1> QED
    BY <1>1, <1>2

LEMMA QueryLayoutKeeps ==
    ASSUME HeapInv, QueryLayout
    PROVE  HeapInv'
<1>1. /\ layout = NoLayout
      /\ layout' = [stride |-> LargerOf(props.buffer, props.image)]
      /\ LargerOf(props.buffer, props.image) # 0
      /\ UNCHANGED <<props, heaps, tables, given, lowered>>
    BY DEF QueryLayout, LargerOf
<1>2. DeviceGiven /\ LayoutGiven /\ IndicesGiven /\ WrittenInPlace
    BY DEF HeapInv
<1>3. \A h \in TheHeaps : heaps[h] = <<>>
    BY <1>1, <1>2 DEF LayoutGiven
<1>4. heaps["sampler"] = <<>>
    BY <1>3 DEF TheHeaps
<1>5. \A s \in HeapSteps : lowered[s].state = "not yet" /\ given[s] = <<>>
    BY <1>4, NothingLowered
<1>6. DeviceGiven' /\ IndicesGiven'
    <2>1. \A s \in HeapSteps : /\ lowered'[s].state = "not yet" /\ given'[s] = <<>>
                                /\ DOMAIN given'[s] = {}
        BY <1>1, <1>4, NothingLowered
    <2>2. IndicesGiven'
        BY <1>1, <1>2, <2>1 DEF IndicesGiven
    <2> QED
        BY <1>1, <1>2, <2>2 DEF DeviceGiven
<1>7. LayoutGiven'
    <2>1. (layout.stride)' = LargerOf(props.buffer, props.image)
        BY <1>1
    <2>2. LargerOf(props.buffer, props.image)' = LargerOf(props.buffer, props.image)
        BY <1>1 DEF LargerOf
    <2> QED
        BY <1>1, <1>2, <1>3, <2>1, <2>2 DEF LayoutGiven
<1>8. LoweredFound'
    <2>1. \A s \in HeapSteps : lowered'[s].state # "lowered"
        BY <1>1, <1>5
    <2> QED
        BY <2>1 DEF LoweredFound
<1>9. WrittenInPlace'
    <2>1. \A h \in TheHeaps : DOMAIN heaps'[h] = {}
        <3>1. DOMAIN <<>> = {}
            OBVIOUS
        <3> QED
            BY <1>1, <1>3, <3>1
    <2> QED
        BY <2>1 DEF WrittenInPlace
<1> QED
    BY <1>6, <1>7, <1>8, <1>9 DEF HeapInv

LEMMA MakeHeapKeeps ==
    ASSUME HeapInv, NEW g \in TheHeaps, MakeHeap(g)
    PROVE  HeapInv'
<1>1. /\ layout # NoLayout /\ heaps[g] = <<>> /\ ByteSize(g) > 0
      /\ g = "sampler" => heaps["resource"] # <<>>
      /\ heaps' = [heaps EXCEPT ![g] = [b \in 1 .. ByteSize(g) |-> Nothing]]
      /\ UNCHANGED <<props, layout, tables, given, lowered>>
    BY DEF MakeHeap
<1>2. DeviceGiven /\ LayoutGiven /\ IndicesGiven /\ WrittenInPlace
    BY DEF HeapInv
<1>3. heaps["sampler"] = <<>>
    BY <1>1, <1>2 DEF LayoutGiven, TheHeaps
<1>4. \A s \in HeapSteps : lowered[s].state = "not yet" /\ given[s] = <<>> /\ DOMAIN given[s] = {}
    BY <1>3, NothingLowered
<1>5. PICK n \in Nat : n = ByteSize(g) /\ n > 0
    <2>1. /\ props.sampler \in Nat /\ props.heap \in Nat /\ props.reserved \in Nat
          /\ LargerOf(props.buffer, props.image) \in Nat
        BY <1>2 DEF DeviceGiven, LargerOf
    <2>2. Stride(g) \in Nat
        BY <1>1, <1>2, <2>1 DEF Stride, LayoutGiven
    <2>3. Stride(g) * HeapSlots \in Nat
        BY <2>2, HeapAssumption
    <2>4. ReservedOffset(g) \in Nat
        BY <2>1, <2>3, AlignUpIsAbove DEF ReservedOffset
    <2> QED
        BY <1>1, <2>1, <2>4 DEF ByteSize
<1>6. PICK x : x = [b \in 1 .. n |-> Nothing]
    OBVIOUS
<1>7. x \in Seq(Descriptors) /\ x # <<>>
    <2>1. Nothing \in Descriptors
        BY DEF Descriptors
    <2>2. x \in [1 .. n -> Descriptors]
        BY <1>6, <2>1
    <2>3. x \in Seq(Descriptors) /\ DOMAIN x = 1 .. n
        BY <2>2
    <2>4. 1 \in DOMAIN x /\ DOMAIN <<>> = {}
        BY <1>5, <2>3
    <2> QED
        BY <2>3, <2>4
<1>8. heaps' = [heaps EXCEPT ![g] = x] /\ heaps \in [TheHeaps -> Seq(Descriptors)]
    BY <1>1, <1>2, <1>5, <1>6 DEF LayoutGiven
<1>9. heaps'[g] = x /\ \A h \in TheHeaps : h # g => heaps'[h] = heaps[h]
    BY <1>8
<1>10. DeviceGiven'
    BY <1>1, <1>2 DEF DeviceGiven
<1>11. LayoutGiven'
    <2>1. LargerOf(props.buffer, props.image)' = LargerOf(props.buffer, props.image)
        BY <1>1 DEF LargerOf
    <2>2. heaps' \in [TheHeaps -> Seq(Descriptors)]
        BY <1>7, <1>8
    <2>3. layout' # NoLayout /\ layout'.stride = LargerOf(props.buffer, props.image)
        BY <1>1, <1>2 DEF LayoutGiven
    <2>4. heaps'["sampler"] # <<>> => heaps'["resource"] # <<>>
        BY <1>1, <1>2, <1>3, <1>7, <1>9 DEF TheHeaps, LayoutGiven
    <2> QED
        BY <2>1, <2>2, <2>3, <2>4 DEF LayoutGiven, NoLayout
<1>12. IndicesGiven'
    <2>1. \A s \in HeapSteps : lowered'[s].state = "not yet" /\ given'[s] = <<>>
        BY <1>1, <1>4
    <2>2. \A s \in HeapSteps : DOMAIN given'[s] = {}
        BY <1>1, <1>4
    <2> QED
        BY <1>1, <1>2, <2>1, <2>2 DEF IndicesGiven
<1>13. LoweredFound'
    <2>1. \A s \in HeapSteps : lowered'[s].state # "lowered"
        BY <1>1, <1>4
    <2> QED
        BY <2>1 DEF LoweredFound
<1>14. WrittenInPlace'
    <2>1. ASSUME NEW h \in TheHeaps, NEW b \in DOMAIN heaps'[h]
          PROVE  heaps'[h][b] = Nothing
        <3>1. CASE h = g
            BY <1>6, <1>9, <2>1, <3>1
        <3>2. CASE h # g
            <4>1. heaps'[h] = heaps[h] /\ b \in DOMAIN heaps[h]
                BY <1>9, <2>1, <3>2
            <4>2. \A s \in HeapSteps : ~ \E p \in DOMAIN given[s] : TRUE
                BY <1>4
            <4>3. heaps[h][b] = Nothing
                BY <1>2, <4>1, <4>2 DEF WrittenInPlace
            <4> QED
                BY <4>1, <4>3
        <3> QED
            BY <3>1, <3>2
    <2> QED
        BY <2>1 DEF WrittenInPlace
<1> QED
    BY <1>10, <1>11, <1>12, <1>13, <1>14 DEF HeapInv

\* A recorded step leaves alone what the other one has, and adds its own.
LEMMA RecordHeapStepKeeps ==
    ASSUME HeapInv, NEW s \in HeapSteps, RecordHeapStep(s)
    PROVE  HeapInv'
<1>1. PICK m, index : Recorded(s, m, index)
    BY StepRecorded
<1>2. DeviceGiven /\ LayoutGiven /\ IndicesGiven /\ LoweredFound /\ WrittenInPlace
    BY DEF HeapInv
<1>3. /\ UNCHANGED <<props, layout, tables>>
      /\ m \in Nat /\ m = Len(tables[s]) /\ index \in [1 .. m -> 0 .. HeapSlots]
      /\ lowered[s].state = "not yet" /\ heaps["sampler"] # <<>> /\ layout # NoLayout
      /\ OwnIndices(s, index) /\ given' = [given EXCEPT ![s] = index]
      /\ \A p, q \in 1 .. m :
            p # q /\ HeapOf(tables[s][p].kind) = HeapOf(tables[s][q].kind) => index[p] # index[q]
    BY <1>1 DEF Recorded
<1>4. PICK H : H = heaps' /\ ChangedWithin(s, index, H, m)
    BY <1>1 DEF Recorded
<1>5. /\ H \in [TheHeaps -> Seq(Descriptors)]
      /\ \A h \in TheHeaps : Len(H[h]) = Len(heaps[h])
      /\ \A h \in TheHeaps : \A b \in 1 .. Len(heaps[h]) :
            \/ H[h][b] = heaps[h][b]
            \/ \E p \in 1 .. m : /\ HeapOf(tables[s][p].kind) = h
                                 /\ b \in Destination(tables[s][p].kind, index[p])
    BY <1>4 DEF ChangedWithin
<1>6. \A t \in HeapSteps : DOMAIN tables[t] = 1 .. Len(tables[t])
    <2>1. \A t \in HeapSteps : tables[t] \in Seq(HeapEntries)
        BY <1>2 DEF DeviceGiven
    <2> QED
        BY <2>1, LenProperties
<1>7. DOMAIN tables[s] = 1 .. m /\ DOMAIN index = 1 .. m
    BY <1>3, <1>6
<1>8. \A t \in HeapSteps : \A p \in DOMAIN tables[t] : tables[t][p].kind \in HeapKinds
    <2>1. \A t \in HeapSteps : tables[t] \in Seq(HeapEntries)
        BY <1>2 DEF DeviceGiven
    <2>2. \A t \in HeapSteps : \A p \in DOMAIN tables[t] : tables[t][p] \in HeapEntries
        BY <1>6, <2>1, ElementOfSeq
    <2> QED
        BY <2>2 DEF HeapEntries
<1>9. given[s] = <<>> /\ DOMAIN given[s] = {}
    <2>1. given[s] = <<>>
        BY <1>2, <1>3 DEF IndicesGiven
    <2>2. DOMAIN <<>> = {}
        OBVIOUS
    <2> QED
        BY <2>1, <2>2
<1>10. given'[s] = index /\ \A t \in HeapSteps : t # s => given'[t] = given[t]
    <2>1. given = [t \in HeapSteps |-> given[t]]
        BY <1>2 DEF IndicesGiven
    <2> QED
        BY <1>3, <2>1
<1>i. index \in [DOMAIN tables[s] -> 0 .. HeapSlots] /\ \A p \in 1 .. m : index[p] \in Nat
    <2>1. PICK S : S = 0 .. HeapSlots /\ S \subseteq Nat
        BY HeapAssumption
    <2>2. index \in [1 .. m -> S]
        BY <1>3, <2>1
    <2> QED
        BY <1>7, <2>1, <2>2
<1>11. \A t \in HeapSteps :
            /\ DOMAIN given[t] \subseteq DOMAIN tables[t]
            /\ \A q \in DOMAIN given[t] : given[t][q] \in Nat
    <2> SUFFICES ASSUME NEW t \in HeapSteps
                 PROVE  /\ DOMAIN given[t] \subseteq DOMAIN tables[t]
                        /\ \A q \in DOMAIN given[t] : given[t][q] \in Nat
        OBVIOUS
    <2>1. CASE lowered[t].state = "not yet"
        <3>1. given[t] = <<>>
            BY <1>2, <2>1 DEF IndicesGiven
        <3>2. DOMAIN <<>> = {}
            OBVIOUS
        <3> QED
            BY <3>1, <3>2
    <2>2. CASE lowered[t].state # "not yet"
        <3>1. given[t] \in [DOMAIN tables[t] -> 0 .. HeapSlots]
            BY <1>2, <2>2 DEF IndicesGiven
        <3>2. 0 .. HeapSlots \subseteq Nat
            BY HeapAssumption
        <3> QED
            BY <3>1, <3>2
    <2> QED
        BY <2>1, <2>2
<1>12. \A k \in HeapKinds : \A i : Destination(k, i)' = Destination(k, i)
    <2>1. \A h \in TheHeaps : Len(heaps[h])' = Len(heaps[h])
        BY <1>4, <1>5
    <2> QED
        BY <1>3, <2>1, SameDestinations
<1>13. PICK x \in {"failed", "lowered"}, map \in Seq([slot : Nat, index : Nat]) :
        /\ lowered' = [lowered EXCEPT ![s] = [state |-> x, map |-> map]]
        /\ x = "lowered" => WrittenUpTo(s, index, H, m) /\ MappedUpTo(s, index, map, m)
    <2>1. lowered[s].map \in Seq([slot : Nat, index : Nat])
          /\ lowered[s] = [state |-> lowered[s].state, map |-> lowered[s].map]
        BY <1>2 DEF IndicesGiven
    <2>2. CASE lowered' = [lowered EXCEPT ![s].state = "failed"]
        <3>1. [lowered[s] EXCEPT !.state = "failed"] = [state |-> "failed", map |-> lowered[s].map]
            BY <2>1
        <3>2. lowered' = [lowered EXCEPT ![s] = [state |-> "failed", map |-> lowered[s].map]]
            BY <2>2, <3>1
        <3> QED
            BY <2>1, <3>2
    <2>3. CASE lowered' # [lowered EXCEPT ![s].state = "failed"]
        <3>1. PICK map : /\ lowered' = [lowered EXCEPT ![s] = [state |-> "lowered", map |-> map]]
                         /\ WrittenUpTo(s, index, heaps', m) /\ MappedUpTo(s, index, map, m)
            BY <1>1, <2>3 DEF Recorded
        <3>2. map \in Seq([slot : Nat, index : Nat])
            BY <3>1 DEF MappedUpTo
        <3> QED
            BY <1>4, <3>1, <3>2
    <2> QED
        BY <2>2, <2>3
<1>14. /\ lowered'[s] = [state |-> x, map |-> map]
       /\ \A t \in HeapSteps : t # s => lowered'[t] = lowered[t]
       /\ lowered' \in [HeapSteps -> [state : {"not yet", "failed", "lowered"},
                                      map : Seq([slot : Nat, index : Nat])]]
    <2>1. lowered \in [HeapSteps -> [state : {"not yet", "failed", "lowered"},
                                     map : Seq([slot : Nat, index : Nat])]]
        BY <1>2 DEF IndicesGiven
    <2> QED
        BY <1>13, <2>1
<1>15. \A t \in HeapSteps : \A p \in 1 .. m, q \in DOMAIN given[t] :
            HeapOf(tables[s][p].kind) = HeapOf(tables[t][q].kind) => index[p] # given[t][q]
    BY <1>3, <1>7 DEF OwnIndices
<1>16. DeviceGiven'
    BY <1>2, <1>3 DEF DeviceGiven
<1>17. \A h \in TheHeaps : heaps[h] # <<>> <=> H[h] # <<>>
    <2>1. \A h \in TheHeaps : heaps[h] \in Seq(Descriptors) /\ H[h] \in Seq(Descriptors)
        BY <1>2, <1>5 DEF LayoutGiven
    <2> QED
        BY <1>5, <2>1, EmptySeq
<1>18. LayoutGiven'
    <2>1. LargerOf(props.buffer, props.image)' = LargerOf(props.buffer, props.image)
        BY <1>3 DEF LargerOf
    <2>2. H["resource"] # <<>>
        BY <1>2, <1>3, <1>17 DEF LayoutGiven, TheHeaps
    <2> QED
        BY <1>2, <1>3, <1>4, <1>5, <2>1, <2>2 DEF LayoutGiven
<1>19. IndicesGiven'
    <2>1. given' = [t \in HeapSteps |-> given'[t]]
        <3>1. given = [t \in HeapSteps |-> given[t]]
            BY <1>2 DEF IndicesGiven
        <3> QED
            BY <1>3, <3>1
    <2>2. heaps'["sampler"] # <<>>
        BY <1>3, <1>4, <1>17 DEF TheHeaps
    <2>3. \A t \in HeapSteps :
            IF lowered'[t].state = "not yet" THEN given'[t] = <<>>
            ELSE given'[t] \in [DOMAIN tables[t] -> 0 .. HeapSlots] /\ heaps'["sampler"] # <<>>
        <3> SUFFICES ASSUME NEW t \in HeapSteps
                     PROVE  IF lowered'[t].state = "not yet" THEN given'[t] = <<>>
                            ELSE /\ given'[t] \in [DOMAIN tables[t] -> 0 .. HeapSlots]
                                 /\ heaps'["sampler"] # <<>>
            OBVIOUS
        <3>1. CASE t = s
            <4>1. lowered'[s].state = x /\ x # "not yet"
                BY <1>13, <1>14
            <4> QED
                BY <1>10, <1>i, <2>2, <3>1, <4>1
        <3>2. CASE t # s
            BY <1>2, <1>10, <1>14, <2>2, <3>2 DEF IndicesGiven
        <3> QED
            BY <3>1, <3>2
    <2>g. PICK g : g = given' /\ g[s] = index /\ \A t \in HeapSteps : t # s => g[t] = given[t]
        BY <1>10
    <2>4. ASSUME NEW t \in HeapSteps, NEW u \in HeapSteps, NEW p \in DOMAIN g[t],
                 NEW q \in DOMAIN g[u],
                 HeapOf(tables[t][p].kind) = HeapOf(tables[u][q].kind),
                 g[t][p] = g[u][q]
          PROVE  t = u /\ p = q
        <3>1. CASE t = s /\ u = s
            <4>1. p \in 1 .. m /\ q \in 1 .. m /\ index[p] = index[q]
                BY <1>7, <2>4, <2>g, <3>1
            <4> QED
                BY <1>3, <2>4, <3>1, <4>1
        <3>2. CASE t = s /\ u # s
            <4>1. p \in 1 .. m /\ q \in DOMAIN given[u] /\ index[p] = given[u][q]
                BY <1>7, <2>4, <2>g, <3>2
            <4> QED
                BY <1>15, <2>4, <3>2, <4>1
        <3>3. CASE t # s /\ u = s
            <4>1. q \in 1 .. m /\ p \in DOMAIN given[t] /\ index[q] = given[t][p]
                BY <1>7, <2>4, <2>g, <3>3
            <4> QED
                BY <1>15, <2>4, <3>3, <4>1
        <3>4. CASE t # s /\ u # s
            <4>1. /\ p \in DOMAIN given[t] /\ q \in DOMAIN given[u]
                  /\ given[t][p] = given[u][q]
                BY <2>4, <2>g, <3>4
            <4>2. \A v, w \in HeapSteps : \A j \in DOMAIN given[v], k \in DOMAIN given[w] :
                    /\ HeapOf(tables[v][j].kind) = HeapOf(tables[w][k].kind)
                    /\ given[v][j] = given[w][k]
                    => v = w /\ j = k
                BY <1>2 DEF IndicesGiven
            <4> QED
                BY <2>4, <4>1, <4>2
        <3> QED
            BY <3>1, <3>2, <3>3, <3>4
    <2>5. \A t, u \in HeapSteps : \A p \in DOMAIN given'[t], q \in DOMAIN given'[u] :
            /\ HeapOf(tables'[t][p].kind) = HeapOf(tables'[u][q].kind)
            /\ given'[t][p] = given'[u][q]
            => t = u /\ p = q
        <3> SUFFICES ASSUME NEW t \in HeapSteps, NEW u \in HeapSteps, NEW p \in DOMAIN given'[t],
                            NEW q \in DOMAIN given'[u],
                            HeapOf(tables'[t][p].kind) = HeapOf(tables'[u][q].kind),
                            given'[t][p] = given'[u][q]
                     PROVE  t = u /\ p = q
            OBVIOUS
        <3>1. /\ p \in DOMAIN g[t] /\ q \in DOMAIN g[u] /\ g[t][p] = g[u][q]
              /\ HeapOf(tables[t][p].kind) = HeapOf(tables[u][q].kind)
            BY <1>3, <2>g
        <3> QED
            BY <2>4, <3>1
    <2> QED
        BY <1>3, <1>14, <2>1, <2>3, <2>5 DEF IndicesGiven, HeapOf
<1>20. ASSUME NEW t \in HeapSteps, t # s, NEW q \in DOMAIN given[t],
              NEW b \in Destination(tables[t][q].kind, given[t][q])
       PROVE  H[HeapOf(tables[t][q].kind)][b] = heaps[HeapOf(tables[t][q].kind)][b]
    <2>1. PICK k \in HeapKinds : k = tables[t][q].kind
        BY <1>8, <1>11
    <2>2. PICK i \in Nat : i = given[t][q]
        BY <1>11
    <2>3. HeapOf(k) \in TheHeaps /\ b \in 1 .. Len(heaps[HeapOf(k)])
        BY <1>2, <1>3, <1>20, <2>1, <2>2, DescriptorsFit, DestinationIs
    <2>4. ASSUME NEW p \in 1 .. m, HeapOf(tables[s][p].kind) = HeapOf(k)
          PROVE  b \notin Destination(tables[s][p].kind, index[p])
        <3>1. tables[s][p].kind \in HeapKinds /\ index[p] \in Nat
            BY <1>7, <1>8, <1>i
        <3>2. index[p] # i
            BY <1>15, <2>1, <2>2, <2>4
        <3>3. Destination(tables[s][p].kind, index[p]) \cap Destination(k, i) = {}
            BY <1>2, <1>3, <2>4, <3>1, <3>2, DestinationsApart
        <3> QED
            BY <1>20, <2>1, <2>2, <3>3
    <2> QED
        BY <1>5, <2>1, <2>3, <2>4
<1>21. LoweredFound'
    <2> SUFFICES ASSUME NEW t \in HeapSteps, lowered'[t].state = "lowered",
                        NEW p \in DOMAIN tables[t]
                 PROVE  /\ IndexFor(lowered'[t].map, tables[t][p].slot) = {given'[t][p]}
                        /\ \A b \in Destination(tables[t][p].kind, given'[t][p]) :
                             H[HeapOf(tables[t][p].kind)][b] = <<t, tables[t][p].kind, p>>
        <3> SUFFICES ASSUME NEW t \in HeapSteps, (lowered[t].state = "lowered")',
                            NEW p \in (DOMAIN tables[t])'
                     PROVE  (/\ IndexFor(lowered[t].map, tables[t][p].slot) = {given[t][p]}
                             /\ \A b \in Destination(tables[t][p].kind, given[t][p]) :
                                 heaps[HeapOf(tables[t][p].kind)][b] = <<t, tables[t][p].kind, p>>)'
            BY DEF LoweredFound
        <3>1. p \in DOMAIN tables[t]
            BY <1>3
        <3>2. Destination(tables[t][p].kind, given[t][p])' =
                    Destination(tables[t][p].kind, given'[t][p])
            BY <1>3, <1>8, <1>12, <3>1
        <3>3. IndexFor(lowered[t].map, tables[t][p].slot)' =
                    IndexFor(lowered'[t].map, tables[t][p].slot)
            BY <1>3 DEF IndexFor
        <3>4. HeapOf(tables[t][p].kind)' = HeapOf(tables[t][p].kind)
            BY <1>3 DEF HeapOf
        <3>5. lowered'[t].state = "lowered"
            OBVIOUS
        <3>6. /\ IndexFor(lowered'[t].map, tables[t][p].slot) = {given'[t][p]}
              /\ \A b \in Destination(tables[t][p].kind, given'[t][p]) :
                    H[HeapOf(tables[t][p].kind)][b] = <<t, tables[t][p].kind, p>>
            BY <3>1, <3>5
        <3> QED
            BY <1>3, <1>4, <3>2, <3>3, <3>4, <3>6
    <2>1. CASE t = s
        <3>1. /\ WrittenUpTo(s, index, H, m) /\ MappedUpTo(s, index, map, m)
              /\ lowered'[t].map = map /\ given'[t] = index /\ p \in 1 .. m
            BY <1>7, <1>10, <1>13, <1>14, <2>1
        <3>2. IndexFor(map, tables[s][p].slot) = {index[p]}
            <4>1. DOMAIN map = 1 .. m
                BY <3>1, LenProperties DEF MappedUpTo
            <4>2. \A n \in 1 .. m : map[n].slot = tables[s][n].slot /\ map[n].index = index[n]
                BY <3>1 DEF MappedUpTo
            <4>3. \A n \in 1 .. m : map[n].slot = tables[s][p].slot <=> n = p
                BY <3>1, <4>2 DEF MappedUpTo
            <4> QED
                BY <3>1, <4>1, <4>2, <4>3 DEF IndexFor
        <3> QED
            BY <2>1, <3>1, <3>2 DEF WrittenUpTo
    <2>2. CASE t # s
        <3>1. lowered'[t] = lowered[t] /\ given'[t] = given[t] /\ lowered[t].state = "lowered"
            BY <1>10, <1>14, <2>2
        <3>2. p \in DOMAIN given[t]
            BY <1>2, <3>1 DEF IndicesGiven
        <3>3. /\ IndexFor(lowered[t].map, tables[t][p].slot) = {given[t][p]}
              /\ \A b \in Destination(tables[t][p].kind, given[t][p]) :
                    heaps[HeapOf(tables[t][p].kind)][b] = <<t, tables[t][p].kind, p>>
            BY <1>2, <3>1 DEF LoweredFound
        <3> QED
            BY <1>20, <2>2, <3>1, <3>2, <3>3
    <2> QED
        BY <2>1, <2>2
<1>22. WrittenInPlace'
    <2> SUFFICES ASSUME NEW h \in TheHeaps, NEW b \in DOMAIN H[h], H[h][b] # Nothing
                 PROVE  \E t \in HeapSteps : \E p \in DOMAIN given'[t] :
                            /\ HeapOf(tables[t][p].kind) = h
                            /\ b \in Destination(tables[t][p].kind, given'[t][p])
        <3>1. \A t \in HeapSteps : DOMAIN given'[t] \subseteq DOMAIN tables[t]
            BY <1>7, <1>10, <1>11
        <3> SUFFICES ASSUME NEW h \in TheHeaps, NEW b \in (DOMAIN heaps[h])',
                            (heaps[h][b] # Nothing)'
                     PROVE  (\E t \in HeapSteps : \E p \in DOMAIN given[t] :
                                /\ HeapOf(tables[t][p].kind) = h
                                /\ b \in Destination(tables[t][p].kind, given[t][p]))'
            BY DEF WrittenInPlace
        <3>0. PICK t \in HeapSteps : \E p \in DOMAIN given'[t] :
                /\ HeapOf(tables[t][p].kind) = h
                /\ b \in Destination(tables[t][p].kind, given'[t][p])
            BY <1>4
        <3>2. PICK p \in DOMAIN given'[t] :
                /\ HeapOf(tables[t][p].kind) = h
                /\ b \in Destination(tables[t][p].kind, given'[t][p])
            BY <3>0
        <3>3. p \in DOMAIN tables[t]
            BY <3>1
        <3>4. Destination(tables[t][p].kind, given[t][p])' =
                    Destination(tables[t][p].kind, given'[t][p])
            BY <1>3, <1>8, <1>12, <3>3
        <3>5. HeapOf(tables[t][p].kind)' = HeapOf(tables[t][p].kind)
            BY <1>3 DEF HeapOf
        <3> QED
            BY <3>2, <3>4, <3>5
    <2>1. b \in 1 .. Len(heaps[h]) /\ b \in DOMAIN heaps[h]
        <3>1. heaps[h] \in Seq(Descriptors) /\ H[h] \in Seq(Descriptors)
            BY <1>2, <1>5 DEF LayoutGiven
        <3>2. DOMAIN H[h] = 1 .. Len(H[h]) /\ DOMAIN heaps[h] = 1 .. Len(heaps[h])
            BY <3>1, LenProperties
        <3> QED
            BY <1>5, <3>2
    <2>2. CASE H[h][b] = heaps[h][b]
        <3>1. PICK t \in HeapSteps : \E p \in DOMAIN given[t] :
                    /\ HeapOf(tables[t][p].kind) = h
                    /\ b \in Destination(tables[t][p].kind, given[t][p])
            BY <1>2, <2>1, <2>2 DEF WrittenInPlace
        <3>2. t # s
            BY <1>9, <3>1
        <3> QED
            BY <1>10, <3>1, <3>2
    <2>3. CASE H[h][b] # heaps[h][b]
        <3>1. PICK p \in 1 .. m : /\ HeapOf(tables[s][p].kind) = h
                                  /\ b \in Destination(tables[s][p].kind, index[p])
            BY <1>5, <2>1, <2>3
        <3> QED
            BY <1>7, <1>10, <3>1
    <2> QED
        BY <2>2, <2>3
<1> QED
    BY <1>16, <1>18, <1>19, <1>21, <1>22 DEF HeapInv

LEMMA HeapStartsEmpty == HeapInit => HeapInv
<1> SUFFICES ASSUME HeapInit
             PROVE  HeapInv
    OBVIOUS
<1>1. /\ props \in Devices /\ layout = NoLayout
      /\ heaps = [h \in TheHeaps |-> <<>>]
      /\ given = [s \in HeapSteps |-> <<>>]
      /\ lowered = [s \in HeapSteps |-> [state |-> "not yet", map |-> <<>>]]
    BY DEF HeapInit, TheHeaps
<1>2. DOMAIN <<>> = {}
    OBVIOUS
<1>3. DeviceGiven
    <2>1. PICK S : S = [slot : 0 .. MaxEntries - 1, kind : HeapKinds] /\ S \subseteq HeapEntries
        <3>1. PICK N : N = 0 .. MaxEntries - 1 /\ N \subseteq Nat
            BY HeapAssumption
        <3>2. [slot : N, kind : HeapKinds] \subseteq HeapEntries
            BY <3>1 DEF HeapEntries
        <3> QED
            BY <3>1, <3>2
    <2>2. tables \in [HeapSteps -> BoundedSeq(S, MaxEntries)]
        BY <2>1 DEF HeapInit
    <2>3. \A q \in BoundedSeq(S, MaxEntries) : q \in Seq(S)
        BY HeapAssumption, BoundedIsSeq
    <2>4. \A q \in Seq(S) : q \in Seq(HeapEntries)
        BY <2>1, SeqMonotonic
    <2>5. tables \in [HeapSteps -> Seq(HeapEntries)]
        BY <2>2, <2>3, <2>4
    <2> QED
        BY <1>1, <2>5, HeapAssumption DEF DeviceGiven
<1>4. LayoutGiven
    <2>1. <<>> \in Seq(Descriptors)
        OBVIOUS
    <2> QED
        BY <1>1, <2>1 DEF LayoutGiven, TheHeaps
<1>5. IndicesGiven
    <2>1. <<>> \in Seq([slot : Nat, index : Nat])
        OBVIOUS
    <2>2. PICK T : T = Seq([slot : Nat, index : Nat])
        OBVIOUS
    <2>3. lowered \in [HeapSteps -> [state : {"not yet", "failed", "lowered"}, map : T]]
        BY <1>1, <2>1, <2>2
    <2> QED
        BY <1>1, <1>2, <2>2, <2>3 DEF IndicesGiven
<1>6. LoweredFound
    BY <1>1 DEF LoweredFound
<1>7. WrittenInPlace
    BY <1>1, <1>2 DEF WrittenInPlace
<1> QED
    BY <1>3, <1>4, <1>5, <1>6, <1>7 DEF HeapInv

LEMMA HeapStep == HeapInv /\ [HeapNext]_heapVars => HeapInv'
<1> SUFFICES ASSUME HeapInv, [HeapNext]_heapVars
             PROVE  HeapInv'
    OBVIOUS
<1>1. CASE QueryLayout
    BY <1>1, QueryLayoutKeeps
<1>2. ASSUME NEW h \in TheHeaps, MakeHeap(h)
      PROVE  HeapInv'
    BY <1>2, MakeHeapKeeps
<1>3. ASSUME NEW s \in HeapSteps, RecordHeapStep(s)
      PROVE  HeapInv'
    BY <1>3, RecordHeapStepKeeps
<1>4. CASE UNCHANGED heapVars
    <2>1. UNCHANGED <<props, layout, heaps, tables, given, lowered>>
        BY <1>4 DEF heapVars
    <2>2. DeviceGiven' <=> DeviceGiven
        BY <2>1 DEF DeviceGiven
    <2>3. LayoutGiven' <=> LayoutGiven
        BY <2>1 DEF LayoutGiven, LargerOf
    <2>4. IndicesGiven' <=> IndicesGiven
        BY <2>1 DEF IndicesGiven, HeapOf
    <2>5. LoweredFound' <=> LoweredFound
        BY <2>1 DEF LoweredFound, IndexFor, HeapOf, Destination, SizeOf, Stride
    <2>6. WrittenInPlace' <=> WrittenInPlace
        BY <2>1 DEF WrittenInPlace, HeapOf, Destination, SizeOf, Stride
    <2> QED
        BY <2>2, <2>3, <2>4, <2>5, <2>6 DEF HeapInv
<1> QED
    BY <1>1, <1>2, <1>3, <1>4 DEF HeapNext, TheHeaps

\* A shader finds at the index of a slot the descriptor of that slot's entry, and
\* the range that the device keeps is not written: for any devices, heaps of any
\* size and any tables (descriptor_heap.cpp, strategy.cpp).
THEOREM HeapsAreFaithful == HeapSpec => []HeapFaithful
<1>1. HeapInv => HeapFaithful
    <2> SUFFICES ASSUME HeapInv
                 PROVE  HeapFaithful
        OBVIOUS
    <2>1. DeviceGiven /\ LayoutGiven /\ IndicesGiven /\ LoweredFound /\ WrittenInPlace
        BY DEF HeapInv
    <2>2. ASSUME \A s \in HeapSteps : \A p \in DOMAIN given[s] : given[s][p] < HeapSlots,
                 NEW h \in DOMAIN heaps, NEW b \in DOMAIN heaps[h], b > ReservedOffset(h),
                 heaps[h][b] # Nothing
          PROVE  FALSE
        <3>1. h \in TheHeaps
            BY <2>1, <2>2 DEF LayoutGiven
        <3>2. PICK s \in HeapSteps : \E p \in DOMAIN given[s] :
                    /\ HeapOf(tables[s][p].kind) = h
                    /\ b \in Destination(tables[s][p].kind, given[s][p])
            BY <2>1, <2>2, <3>1 DEF WrittenInPlace
        <3>3. PICK p \in DOMAIN given[s] :
                    /\ HeapOf(tables[s][p].kind) = h
                    /\ b \in Destination(tables[s][p].kind, given[s][p])
            BY <3>2
        <3>4. given[s] \in [DOMAIN tables[s] -> 0 .. HeapSlots] /\ heaps["sampler"] # <<>>
            <4>1. DOMAIN <<>> = {}
                OBVIOUS
            <4>2. lowered[s].state # "not yet"
                BY <2>1, <3>3, <4>1 DEF IndicesGiven
            <4> QED
                BY <2>1, <4>2 DEF IndicesGiven
        <3>5. layout # NoLayout
            BY <2>1, <3>4 DEF LayoutGiven, TheHeaps
        <3>6. tables[s][p].kind \in HeapKinds
            <4>1. tables[s] \in Seq(HeapEntries) /\ p \in DOMAIN tables[s]
                BY <2>1, <3>3, <3>4 DEF DeviceGiven
            <4>2. DOMAIN tables[s] = 1 .. Len(tables[s])
                BY <4>1, LenProperties
            <4>3. tables[s][p] \in HeapEntries
                BY <4>1, <4>2, ElementOfSeq
            <4> QED
                BY <4>3 DEF HeapEntries
        <3>7. PICK k \in HeapKinds, i \in Nat : k = tables[s][p].kind /\ i = given[s][p]
            <4>1. 0 .. HeapSlots \subseteq Nat
                BY HeapAssumption
            <4>2. given[s][p] \in 0 .. HeapSlots
                BY <3>3, <3>4
            <4> QED
                BY <3>6, <4>1, <4>2
        <3>8. b <= ReservedOffset(h)
            BY <2>1, <2>2, <3>3, <3>5, <3>7, ReservedIsBeyond
        <3>9. b \in Nat
            BY <2>1, <3>3, <3>5, <3>7, DestinationIs
        <3>10. ReservedOffset(h) \in Nat
            <4>1. PICK d \in Nat : d = Stride(h)
                BY <2>1, <3>3, <3>5, <3>7, DescriptorsFit
            <4>2. d * HeapSlots \in Nat /\ props.heap \in Nat
                BY <2>1, HeapAssumption DEF DeviceGiven
            <4> QED
                BY <4>1, <4>2, AlignUpIsAbove DEF ReservedOffset
        <3> QED
            BY <2>2, <3>8, <3>9, <3>10
    <2> QED
        BY <2>1, <2>2 DEF LoweredFound, HeapFaithful
<1> QED
    BY <1>1, HeapStartsEmpty, HeapStep, PTL DEF HeapSpec
=============================================================================
