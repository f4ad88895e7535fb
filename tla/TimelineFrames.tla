--------------------------- MODULE TimelineFrames ---------------------------
(***************************************************************************)
(* The Timeline Semaphore sample: the main thread publishes a ticket for   *)
(* each frame to two workers, and one timeline semaphore orders what the   *)
(* three threads and the GPU do for it.  Frame n uses four values: submit, *)
(* draw, present, end.                                                     *)
(*                                                                         *)
(* The compute and the graphics queue may be one queue.  A queue starts    *)
(* what was submitted to it in order: its head holds up the rest.          *)
(***************************************************************************)
EXTENDS Integers, Sequences

CONSTANT MaxFrames   \* bound: the main loop ends after so many frames

ASSUME MaxFramesAssumption == MaxFrames \in Nat

Crew == {"compute", "graphics"}
NoTicket == -1

VARIABLES oneQueue,   \* whether compute_queue is the graphics queue
          ticket,     \* tickets.current: its number
          halting,    \* tickets.stopping
          asleep,     \* the workers that wait on tickets.changed
          mainAt,     \* what the main thread does next
          number,     \* the frame it is at
          at,         \* what each worker does next
          taken,      \* the ticket that each worker took last
          previous,
          counter,    \* the value of the timeline semaphore
          queues,     \* what each queue still has to do
          computed,   \* the frames that the GPU has computed,
          drawn,      \* drawn,
          presented   \* and those that were presented, in order

loopVars == <<mainAt, number, presented>>
ticketVars == <<ticket, halting, asleep>>
crewVars == <<at, taken, previous>>
gpuVars == <<queues, computed, drawn>>
timelineVars == <<oneQueue, loopVars, ticketVars, crewVars, counter, gpuVars>>

\* timeline_value
SubmitAt(n) == 4 * n + 1
DrawAt(n) == 4 * n + 2
PresentAt(n) == 4 * n + 3
EndAt(n) == 4 * n + 4

TimelineInit ==
    /\ oneQueue \in BOOLEAN
    /\ ticket = NoTicket /\ halting = FALSE /\ asleep = {}
    /\ mainAt = "loop" /\ number = 0 /\ presented = <<>>
    /\ at = [w \in Crew |-> "next"]
    /\ taken = [w \in Crew |-> NoTicket]
    /\ previous = [w \in Crew |-> NoTicket]
    /\ counter = 0
    /\ queues = [q \in Crew |-> <<>>]
    /\ computed = <<>> /\ drawn = <<>>

-----------------------------------------------------------------------------
(* present_frames, on the main thread, and what run does after it *)

MainGoes(from, to) == mainAt = from /\ mainAt' = to

\* begin_frame gave a frame: its ticket is published under the lock.
Publish ==
    /\ number < MaxFrames
    /\ MainGoes("loop", "notify")
    /\ ticket' = number
    /\ UNCHANGED <<oneQueue, number, presented, halting, asleep, crewVars, counter, gpuVars>>

\* notify_all, after the lock was given up.
Notify(from, to) ==
    /\ MainGoes(from, to)
    /\ asleep' = {}
    /\ UNCHANGED <<oneQueue, number, presented, ticket, halting, crewVars, counter, gpuVars>>

\* timeline.signal on the host.
HostSignal(from, to, value) ==
    /\ MainGoes(from, to)
    /\ counter' = value
    /\ UNCHANGED <<oneQueue, presented, ticketVars, crewVars, gpuVars>>

SignalSubmit == HostSignal("signal", "wait", SubmitAt(number)) /\ UNCHANGED number

\* Mutant: the frame is presented without a wait for its drawing.
PresentFrame_NoWait ==
    /\ MainGoes("wait", "end")
    /\ presented' = Append(presented, number)
    /\ UNCHANGED <<oneQueue, number, ticketVars, crewVars, counter, gpuVars>>

\* timeline.wait, then present_submitted.
PresentFrame ==
    /\ MainGoes("wait", "end")
    /\ counter >= PresentAt(number)
    /\ presented' = Append(presented, number)
    /\ UNCHANGED <<oneQueue, number, ticketVars, crewVars, counter, gpuVars>>

SignalEnd == HostSignal("end", "loop", EndAt(number)) /\ number' = number + 1

\* The loop ends, after its last frame or because the window closes.
StopTickets ==
    /\ MainGoes("loop", "notify stop")
    /\ halting' = TRUE
    /\ UNCHANGED <<oneQueue, number, presented, ticket, asleep, crewVars, counter, gpuVars>>

\* The threads are joined; wait_idle; the command buffer is freed.
JoinCrew ==
    /\ MainGoes("join", "drain")
    /\ \A w \in Crew : at[w] = "gone"
    /\ UNCHANGED <<oneQueue, number, presented, ticketVars, crewVars, counter, gpuVars>>

WaitIdle ==
    /\ MainGoes("drain", "done")
    /\ \A q \in Crew : queues[q] = <<>>
    /\ UNCHANGED <<oneQueue, number, presented, ticketVars, crewVars, counter, gpuVars>>

-----------------------------------------------------------------------------
(* The workers *)

CrewGoes(w, from, to) == at[w] = from /\ at' = [at EXCEPT ![w] = to]

IsNews(w) == ticket # NoTicket /\ ticket # previous[w]

\* ticket_exchange::next: the condition is looked at under the lock.
TakeTicket(w) ==
    /\ w \notin asleep
    /\ \/ halting /\ CrewGoes(w, "next", "gone") /\ UNCHANGED <<taken, asleep>>
       \/ ~ halting /\ IsNews(w) /\ CrewGoes(w, "next", "wait") /\ UNCHANGED asleep
          /\ taken' = [taken EXCEPT ![w] = ticket]
       \/ ~ halting /\ ~ IsNews(w) /\ at[w] = "next"
          /\ asleep' = asleep \cup {w} /\ UNCHANGED <<at, taken>>
    /\ UNCHANGED <<oneQueue, loopVars, ticket, halting, previous, counter, gpuVars>>

\* The wait for the submit value, then record_compute or record_pass: from
\* here the worker's command buffer is being written.
RecordCommands(w) ==
    /\ CrewGoes(w, "wait", "record")
    /\ counter >= SubmitAt(taken[w])
    /\ UNCHANGED <<oneQueue, loopVars, ticketVars, taken, previous, counter, gpuVars>>

QueueOf(w) == IF oneQueue THEN "graphics" ELSE w

\* Mutant: the graphics worker never waits on the host.
MaySubmit_Always(w) == TRUE

\* On one queue the drawing must not be submitted before what it waits for.
MaySubmit(w) == w = "graphics" /\ oneQueue => counter >= DrawAt(taken[w])

SubmitCommands(w) ==
    /\ CrewGoes(w, "record", "next")
    /\ MaySubmit(w)
    /\ queues' = [queues EXCEPT ![QueueOf(w)] = Append(@, [by |-> w, frame |-> taken[w]])]
    /\ previous' = [previous EXCEPT ![w] = taken[w]]
    /\ UNCHANGED <<oneQueue, loopVars, ticketVars, taken, counter, computed, drawn>>

-----------------------------------------------------------------------------
(* The GPU *)

MayExecute(work) == work.by = "graphics" => counter >= DrawAt(work.frame)

\* What the GPU is, or may be, executing.
Executing == {Head(queues[q]) : q \in {q \in Crew : queues[q] # <<>> /\ MayExecute(Head(queues[q]))}}

\* The head of a queue is finished, and signals its value.
FinishWork(q) ==
    /\ queues[q] # <<>>
    /\ LET work == Head(queues[q])
       IN  /\ MayExecute(work)
           /\ IF work.by = "compute"
              THEN computed' = Append(computed, work.frame) /\ counter' = DrawAt(work.frame)
                   /\ UNCHANGED drawn
              ELSE drawn' = Append(drawn, work.frame) /\ counter' = PresentAt(work.frame)
                   /\ UNCHANGED computed
    /\ queues' = [queues EXCEPT ![q] = Tail(@)]
    /\ UNCHANGED <<oneQueue, loopVars, ticketVars, crewVars>>

-----------------------------------------------------------------------------

MainStep == Publish \/ Notify("notify", "signal") \/ SignalSubmit \/ PresentFrame \/ SignalEnd
            \/ StopTickets \/ Notify("notify stop", "join") \/ JoinCrew \/ WaitIdle
CrewStep(w) == TakeTicket(w) \/ RecordCommands(w) \/ SubmitCommands(w)

TimelineNext ==
    \/ MainStep
    \/ \E w \in Crew : CrewStep(w)
    \/ \E q \in Crew : FinishWork(q)

TimelineSpec == TimelineInit /\ [][TimelineNext]_timelineVars

\* Threads and the GPU go on with what they can do.
TimelineFairness ==
    /\ WF_timelineVars(MainStep)
    /\ \A w \in Crew : WF_timelineVars(CrewStep(w)) /\ WF_timelineVars(FinishWork(w))

TimelineFairSpec == TimelineSpec /\ TimelineFairness

-----------------------------------------------------------------------------
(* Properties *)

\* Whoever signals the timeline, the main thread or one of the two queues,
\* signals a value above the one it has: Vulkan allows no other, and nothing
\* but the waits puts the four values of a frame in order.
TimelineRises == [][counter' # counter => counter' > counter]_timelineVars

\* The one command buffer of the compute worker is reset when the GPU is done
\* with what was recorded in it before, although no fence guards it.
ComputeRecordsIdle ==
    at["compute"] = "record" =>
        \A q \in Crew : \A i \in DOMAIN queues[q] : queues[q][i].by # "compute"

\* The compute work writes the image n % 2 while nothing reads or writes it.
ImagesApart ==
    \A a, b \in Executing :
        a # b /\ a.by = "compute" => a.frame % 2 # b.frame % 2

\* The frames are computed, drawn and presented in order, each once, and a
\* frame that is presented has been computed and drawn.
EachFrameOnce ==
    /\ \A done \in {computed, drawn, presented} : \A i \in DOMAIN done : done[i] = i - 1
    /\ Len(presented) <= Len(drawn) /\ Len(drawn) <= Len(computed)

\* Every published frame is presented in the end: no wake-up is lost, and no
\* thread or queue waits for one that waits for it.
FramesPresented == \A n \in 0 .. MaxFrames - 1 : ticket = n ~> Len(presented) > n

\* When the loop ends, the workers leave and the sample comes to its end.
LoopEnds == halting ~> mainAt = "done"

\* What a worker records into or the GPU writes is not in use: neither the one
\* command buffer nor the two images are guarded by a fence, only by values.
FrameDataIdle == ComputeRecordsIdle /\ ImagesApart

\* Nothing is lost and nobody waits for ever: every published frame is
\* presented, in order and once, and the sample comes to its end.
FramesFlow == FramesPresented /\ LoopEnds /\ []EachFrameOnce
=============================================================================
