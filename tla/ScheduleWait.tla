----------------------------- MODULE ScheduleWait -----------------------------
(***************************************************************************)
(* schedule() started by several threads on one context, and sync_wait.    *)
(*                                                                         *)
(* A thread in sync_wait keeps the operation on its stack until its run    *)
(* loop is finished; a detached operation is destroyed by its completion,  *)
(* on whatever thread that is.  The host agent is the TaskQueue that       *)
(* HostAgent implements; the runtime lives while somebody has a handle.    *)
(***************************************************************************)
EXTENDS Naturals, Sequences, FiniteSets

CONSTANT Callers   \* the threads, each of which starts one operation

VARIABLES parent,     \* how each operation is started
          stateless,  \* the scheduler is made of no context
          stage,      \* where each thread is in start() and after it
          op,         \* the operation's state
          stopped,    \* a stop was requested of its receiver
          signals,    \* the completions it got, in order
          result,     \* sync_wait_state: what the receiver wrote,
          loopDone,   \* and that its loop was finished
          opHolders,    \* who keeps the runtime alive
          hostQueue, hostStack, hostPosted, hostDone, hostClosed, hostGone

agentQueue == <<hostQueue, hostStack, hostPosted, hostDone, hostClosed, hostGone>>
opVars == <<parent, stateless, stage, op, stopped, signals, result, loopDone>>
scheduleVars == <<parent, stateless, stage, op, stopped, signals, result, loopDone, opHolders,
                  hostQueue, hostStack, hostPosted, hostDone, hostClosed, hostGone>>

Host == INSTANCE TaskQueue
            WITH Tasks <- Callers, queue <- hostQueue, stack <- hostStack,
                 posted <- hostPosted, done <- hostDone, closed <- hostClosed,
                 gone <- hostGone

OpHandle(c) == <<"operation", c>>
CallHandle(c) == <<"call", c>>
User == <<"user", 0>>

ScheduleInit ==
    /\ parent \in [Callers -> {"sync_wait", "detached"}]
    /\ stateless \in SUBSET Callers
    /\ stage = [c \in Callers |-> "connect"]
    /\ op = [c \in Callers |-> "none"]
    /\ stopped = [c \in Callers |-> FALSE]
    /\ signals = [c \in Callers |-> <<>>]
    /\ result = [c \in Callers |-> "none"]
    /\ loopDone = [c \in Callers |-> FALSE]
    /\ opHolders = {User}
    /\ Host!Init

-----------------------------------------------------------------------------
(* Completion *)

\* What sync_wait's receiver writes down: to keep the values may throw.
Written(signal) == IF signal = "value" THEN {"value", "error"} ELSE {signal}

\* Mutant: set_stopped leaves the loop running.
Deliver_StoppedSilently(c, signal) ==
    /\ signals' = [signals EXCEPT ![c] = Append(@, signal)]
    /\ \/ /\ parent[c] = "sync_wait"
          /\ \E r \in Written(signal) : result' = [result EXCEPT ![c] = r]
          /\ loopDone' = [loopDone EXCEPT ![c] = signal # "stopped"]
          /\ UNCHANGED <<op, opHolders>>
       \/ /\ parent[c] = "detached"
          /\ op' = [op EXCEPT ![c] = "destroyed"]
          /\ opHolders' = opHolders \ {OpHandle(c)}
          /\ UNCHANGED <<result, loopDone>>

\* The receiver is completed. A waiting thread's loop is finished; a detached
\* operation is destroyed, with the handle in it.
Deliver(c, signal) ==
    /\ signals' = [signals EXCEPT ![c] = Append(@, signal)]
    /\ \/ /\ parent[c] = "sync_wait"
          /\ \E r \in Written(signal) : result' = [result EXCEPT ![c] = r]
          /\ loopDone' = [loopDone EXCEPT ![c] = TRUE]
          /\ UNCHANGED <<op, opHolders>>
       \/ /\ parent[c] = "detached"
          /\ op' = [op EXCEPT ![c] = "destroyed"]
          /\ opHolders' = opHolders \ {OpHandle(c)}
          /\ UNCHANGED <<result, loopDone>>

Goes(c, to) == stage' = [stage EXCEPT ![c] = to]

-----------------------------------------------------------------------------
(* The thread that starts the operation *)

\* connect: the operation has the scheduler's handle, if that has one.
Connect(c) ==
    /\ stage[c] = "connect"
    /\ c \notin stateless => User \in opHolders
    /\ op' = [op EXCEPT ![c] = "alive"]
    /\ opHolders' = IF c \in stateless THEN opHolders ELSE opHolders \cup {OpHandle(c)}
    /\ Goes(c, "start")
    /\ UNCHANGED <<parent, stateless, stopped, signals, result, loopDone, agentQueue>>

\* start: a stop that was requested before goes first, then the missing state.
StartInline(c) ==
    /\ stage[c] = "start"
    /\ stopped[c] \/ c \in stateless
    /\ Deliver(c, IF stopped[c] THEN "stopped" ELSE "error")
    /\ Goes(c, "started")
    /\ UNCHANGED <<parent, stateless, stopped, agentQueue>>

\* Mutant: the runtime is used through the operation's handle.
EnterEnqueue_NoFacade(c) ==
    /\ stage[c] = "start"
    /\ ~ stopped[c] /\ c \notin stateless
    /\ Goes(c, "enqueue")
    /\ UNCHANGED <<parent, stateless, op, stopped, signals, result, loopDone, opHolders, agentQueue>>

\* enqueue_host: the facade shares the runtime for as long as the call lasts.
EnterEnqueue(c) ==
    /\ stage[c] = "start"
    /\ ~ stopped[c] /\ c \notin stateless
    /\ opHolders' = opHolders \cup {CallHandle(c)}
    /\ Goes(c, "enqueue")
    /\ UNCHANGED <<parent, stateless, op, stopped, signals, result, loopDone, agentQueue>>

\* The agent takes the task; the call goes on to notify it.
PostTask(c) ==
    /\ stage[c] = "enqueue"
    /\ Host!Post(c)
    /\ Goes(c, "notify")
    /\ UNCHANGED <<parent, stateless, op, stopped, signals, result, loopDone, opHolders>>

\* The task cannot be made or kept: an error status, or an exception.
FailToPost(c) ==
    /\ stage[c] = "enqueue"
    /\ opHolders' = opHolders \ {CallHandle(c)}
    /\ Goes(c, "refused")
    /\ UNCHANGED <<parent, stateless, op, stopped, signals, result, loopDone, agentQueue>>

\* enqueue returns; start looks at its status and not at the operation, which
\* may be gone.
ReturnQueued(c) ==
    /\ stage[c] = "notify"
    /\ opHolders' = opHolders \ {CallHandle(c)}
    /\ Goes(c, "started")
    /\ UNCHANGED <<parent, stateless, op, stopped, signals, result, loopDone, agentQueue>>

ReturnRefused(c) ==
    /\ stage[c] = "refused"
    /\ Deliver(c, "error")
    /\ Goes(c, "started")
    /\ UNCHANGED <<parent, stateless, stopped, agentQueue>>

\* run() returns when the loop is finished; then the operation goes.
LeaveLoop(c) ==
    /\ stage[c] = "started" /\ parent[c] = "sync_wait"
    /\ loopDone[c]
    /\ op' = [op EXCEPT ![c] = "destroyed"]
    /\ opHolders' = opHolders \ {OpHandle(c)}
    /\ Goes(c, "returned")
    /\ UNCHANGED <<parent, stateless, stopped, signals, result, loopDone, agentQueue>>

LeaveDetached(c) ==
    /\ stage[c] = "started" /\ parent[c] = "detached"
    /\ Goes(c, "returned")
    /\ UNCHANGED <<parent, stateless, op, stopped, signals, result, loopDone, opHolders, agentQueue>>

-----------------------------------------------------------------------------
(* The agent, a source of stop requests, and the owner of the context *)

BeginTask ==
    /\ Host!Begin
    /\ UNCHANGED <<opVars, opHolders>>

\* The queued task looks at the stop request again.
CompleteTask ==
    /\ hostStack # <<>>
    /\ LET c == Head(hostStack) IN
           /\ signals[c] = <<>>
           /\ Deliver(c, IF stopped[c] THEN "stopped" ELSE "value")
    /\ UNCHANGED <<parent, stateless, stage, stopped, agentQueue>>

EndTask ==
    /\ hostStack # <<>> /\ signals[Head(hostStack)] # <<>>
    /\ Host!End
    /\ UNCHANGED <<opVars, opHolders>>

RequestStopOf(c) ==
    /\ op[c] = "alive" /\ ~ stopped[c]
    /\ stopped' = [stopped EXCEPT ![c] = TRUE]
    /\ UNCHANGED <<parent, stateless, stage, op, signals, result, loopDone, opHolders, agentQueue>>

\* The owner keeps the context until all the operations were made.
DropContext ==
    /\ User \in opHolders
    /\ \A c \in Callers : stage[c] # "connect"
    /\ opHolders' = opHolders \ {User}
    /\ UNCHANGED <<opVars, agentQueue>>

\* The last handle is gone: the runtime shuts its agent down, and waits.
CloseAgent ==
    /\ opHolders = {}
    /\ Host!Close
    /\ UNCHANGED <<opVars, opHolders>>

RetireAgent ==
    /\ Host!Retire
    /\ UNCHANGED <<opVars, opHolders>>

CallerNext(c) ==
    \/ Connect(c) \/ StartInline(c) \/ EnterEnqueue(c) \/ PostTask(c) \/ FailToPost(c)
    \/ ReturnQueued(c) \/ ReturnRefused(c) \/ LeaveLoop(c) \/ LeaveDetached(c)

AgentSteps == BeginTask \/ CompleteTask \/ EndTask

ScheduleNext ==
    \/ \E c \in Callers : CallerNext(c) \/ RequestStopOf(c)
    \/ AgentSteps
    \/ DropContext \/ CloseAgent \/ RetireAgent

\* The threads run, and so does the agent's: its loop has no other condition.
\* The owner drops the context at last; nobody has to request a stop.
ScheduleFairness ==
    /\ \A c \in Callers : WF_scheduleVars(CallerNext(c))
    /\ WF_scheduleVars(AgentSteps)
    /\ WF_scheduleVars(DropContext \/ CloseAgent \/ RetireAgent)

ScheduleSpec == ScheduleInit /\ [][ScheduleNext]_scheduleVars /\ ScheduleFairness

-----------------------------------------------------------------------------
(* Properties *)

ScheduleTypeOK ==
    /\ stage \in [Callers -> {"connect", "start", "enqueue", "notify", "refused", "started", "returned"}]
    /\ op \in [Callers -> {"none", "alive", "destroyed"}]
    /\ signals \in [Callers -> Seq({"value", "error", "stopped"})]
    /\ result \in [Callers -> {"none", "value", "error", "stopped"}]
    /\ opHolders \subseteq {User} \cup {OpHandle(c) : c \in Callers} \cup {CallHandle(c) : c \in Callers}

\* Each operation is completed once, whichever of start, the agent and the
\* stop request gets there first.
CompletedOnce == \A c \in Callers : Len(signals[c]) <= 1

Touches(c) ==
    \/ stage[c] \in {"start", "enqueue", "refused"}
    \/ c \in {hostQueue[i] : i \in DOMAIN hostQueue}
    \/ c \in {hostStack[i] : i \in DOMAIN hostStack} /\ signals[c] = <<>>

\* Nobody touches an operation that is destroyed, and no call is inside an
\* agent that is being shut down.
UsedWhileAlive ==
    \A c \in Callers :
        /\ Touches(c) => op[c] = "alive"
        /\ stage[c] \in {"enqueue", "notify"} => ~ hostClosed

\* The values are delivered by the agent and by nobody else; a stop that was
\* requested before start keeps the task from the agent; what sync_wait
\* returns is what it was told, but for values it could not keep.
ToldTheTruth ==
    \A c \in Callers :
        /\ signals[c] = <<"value">> => c \in hostPosted
        /\ signals[c] = <<>> => ~ loopDone[c]
        /\ stage[c] = "returned" /\ parent[c] = "sync_wait" =>
               \/ signals[c] = <<result[c]>>
               \/ signals[c] = <<"value">> /\ result[c] = "error"

\* A runtime that has shut its agent down left none of its operations without
\* an end.
NoneLeftBehind == hostClosed => \A c \in Callers \ stateless : signals[c] # <<>>

WaitsSound ==
    ScheduleTypeOK /\ CompletedOnce /\ UsedWhileAlive /\ ToldTheTruth /\ NoneLeftBehind

\* Once an operation is started, every thread comes back from start or
\* sync_wait, and the agent of the context goes in the end.
CallersReturn ==
    (\E c \in Callers : stage[c] # "connect")
        ~> hostGone /\ \A c \in Callers : stage[c] = "returned"
=============================================================================
