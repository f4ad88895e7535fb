------------------------------ MODULE HostAgent ------------------------------
(***************************************************************************)
(* One vkexec::detail::host_agent: a worker thread, a vector of pending    *)
(* tasks under a mutex, a condition variable and a shutdown flag.          *)
(*                                                                         *)
(* A critical section of the code is one action; what a thread does after  *)
(* it released the mutex (notify, join, run a task) is an action of its    *)
(* own, so that every interleaving with the agent's wait is explored.      *)
(***************************************************************************)
EXTENDS Naturals, Sequences, FiniteSets, Functions

CONSTANTS Clients,  \* threads other than the agent that call enqueue
          Tasks     \* callables; one is moved into enqueue at most once

VARIABLES pending,        \* pending_, guarded by mutex_
          shutting_down,  \* shutting_down_, guarded by mutex_
          local,          \* run(): the vector swapped out of pending_
          next,           \* run(): index in local of the next task to call
          running,        \* calls on the agent's stack, the innermost last
          agent,          \* where the agent thread is in run()
          client,         \* where each client is in enqueue
          closer,         \* where the owner is in shutdown
          accepted,       \* history: tasks pushed on pending_, in order
          started,        \* history: queued tasks called, in order
          nested,         \* history: tasks run inline by the agent thread
          finished,       \* history: tasks that returned
          rejected        \* history: tasks refused after shutdown

shared == <<pending, shutting_down>>
worker == <<local, next, running, agent>>
agentHistory == <<accepted, started, nested, finished, rejected>>
agentVars == <<shared, worker, client, closer, agentHistory>>

-----------------------------------------------------------------------------
AgentTypeOK ==
    /\ pending \in Seq(Tasks)
    /\ shutting_down \in BOOLEAN
    /\ local \in Seq(Tasks)
    /\ next \in 1 .. Len(local) + 1
    /\ running \in Seq(Tasks)
    /\ agent \in {"awake", "asleep", "running", "exited"}
    /\ client \in [Clients -> {"idle", "notify"}]
    /\ closer \in {"idle", "notify_all", "join", "joined"}
    /\ accepted \in Seq(Tasks)
    /\ started \in Seq(Tasks)
    /\ nested \in SUBSET Tasks
    /\ finished \in SUBSET Tasks
    /\ rejected \in SUBSET Tasks

AgentInit ==
    /\ pending = <<>>
    /\ shutting_down = FALSE
    /\ local = <<>>
    /\ next = 1
    /\ running = <<>>
    /\ agent = "awake"
    /\ client = [c \in Clients |-> "idle"]
    /\ closer = "idle"
    /\ accepted = <<>>
    /\ started = <<>>
    /\ nested = {}
    /\ finished = {}
    /\ rejected = {}

\* The part of the swapped-out vector that run() has still to call.
Remaining == SubSeq(local, next, Len(local))

\* A callable is in one caller's hands until it is handed to enqueue.
Unused(t) == t \notin Range(accepted) \cup nested \cup rejected

-----------------------------------------------------------------------------
(* enqueue *)

\* Mutant: shutting_down_ is not tested under the mutex.
EnqueueAccepted_Unchecked(c, t) ==
    /\ client[c] = "idle" /\ Unused(t)
    /\ pending' = Append(pending, t)
    /\ accepted' = Append(accepted, t)
    /\ client' = [client EXCEPT ![c] = "notify"]
    /\ UNCHANGED <<shutting_down, worker, closer, started, nested, finished,
                   rejected>>

\* enqueue under the mutex, the agent not shutting down: push_back.
EnqueueAccepted(c, t) ==
    /\ client[c] = "idle"
    /\ Unused(t)
    /\ ~shutting_down
    /\ pending' = Append(pending, t)
    /\ accepted' = Append(accepted, t)
    /\ client' = [client EXCEPT ![c] = "notify"]
    /\ UNCHANGED <<shutting_down, worker, closer, started, nested, finished,
                   rejected>>

\* enqueue under the mutex, after shutdown: the error status.
EnqueueRejected(c, t) ==
    /\ client[c] = "idle"
    /\ Unused(t)
    /\ shutting_down
    /\ rejected' = rejected \cup {t}
    /\ UNCHANGED <<shared, worker, client, closer, accepted, started, nested,
                   finished>>

\* The agent thread leaves cv_.wait to test the predicate again.
Wake == agent' = IF agent = "asleep" THEN "awake" ELSE agent

\* enqueue, the mutex released: cv_.notify_one.
NotifyOne(c) ==
    /\ client[c] = "notify"
    /\ Wake
    /\ client' = [client EXCEPT ![c] = "idle"]
    /\ UNCHANGED <<shared, local, next, running, closer, agentHistory>>

\* enqueue called by a task: it runs at once on the agent thread, whatever
\* the state of the queue and of shutting_down_.
EnqueueInline(t) ==
    /\ running # <<>>
    /\ Unused(t)
    /\ running' = Append(running, t)
    /\ nested' = nested \cup {t}
    /\ UNCHANGED <<shared, local, next, agent, client, closer, accepted,
                   started, finished, rejected>>

-----------------------------------------------------------------------------
(* shutdown: the owner's destructor. A further call by the same owner finds
   shutting_down_ set and returns, which changes nothing. *)

\* Mutant: the agent is joined without a notify_all.
BeginShutdown_NoNotify ==
    /\ closer = "idle" /\ ~shutting_down
    /\ shutting_down' = TRUE
    /\ closer' = "join"
    /\ UNCHANGED <<pending, worker, client, agentHistory>>

BeginShutdown ==
    /\ closer = "idle"
    /\ ~shutting_down
    /\ shutting_down' = TRUE
    /\ closer' = "notify_all"
    /\ UNCHANGED <<pending, worker, client, agentHistory>>

NotifyAll ==
    /\ closer = "notify_all"
    /\ Wake
    /\ closer' = "join"
    /\ UNCHANGED <<shared, local, next, running, client, agentHistory>>

\* thread_.join() returns when run() has.
Join ==
    /\ closer = "join"
    /\ agent = "exited"
    /\ closer' = "joined"
    /\ UNCHANGED <<shared, worker, client, agentHistory>>

-----------------------------------------------------------------------------
(* run *)

\* The predicate of cv_.wait.
HasWork == shutting_down \/ pending # <<>>

\* Nothing to do: the mutex is released and the thread sleeps, atomically.
Sleep ==
    /\ agent = "awake"
    /\ ~HasWork
    /\ agent' = "asleep"
    /\ UNCHANGED <<shared, local, next, running, client, closer, agentHistory>>

\* A condition variable may wake up for no reason.
SpuriousWakeup ==
    /\ agent = "asleep"
    /\ Wake
    /\ UNCHANGED <<shared, local, next, running, client, closer, agentHistory>>

\* The condition under which run() returns.
Drained == shutting_down /\ pending = <<>>

Exit ==
    /\ agent = "awake"
    /\ Drained
    /\ agent' = "exited"
    /\ UNCHANGED <<shared, local, next, running, client, closer, agentHistory>>

\* local.swap(pending_), then the loop over local begins.
Swap ==
    /\ agent = "awake"
    /\ HasWork
    /\ ~Drained
    /\ local' = pending
    /\ pending' = local
    /\ next' = 1
    /\ agent' = "running"
    /\ UNCHANGED <<shutting_down, running, client, closer, agentHistory>>

RunNext ==
    /\ agent = "running"
    /\ running = <<>>
    /\ next <= Len(local)
    /\ running' = <<local[next]>>
    /\ next' = next + 1
    /\ started' = Append(started, local[next])
    /\ UNCHANGED <<shared, local, agent, client, closer, accepted, nested,
                   finished, rejected>>

\* The innermost call returns, to the task that made it or to the loop.
FinishTask ==
    /\ running # <<>>
    /\ finished' = finished \cup {running[Len(running)]}
    /\ running' = SubSeq(running, 1, Len(running) - 1)
    /\ UNCHANGED <<shared, local, next, agent, client, closer, accepted,
                   started, nested, rejected>>

\* local.clear() at the end of the loop, back to the wait.
ClearLocal ==
    /\ agent = "running"
    /\ running = <<>>
    /\ next > Len(local)
    /\ local' = <<>>
    /\ next' = 1
    /\ agent' = "awake"
    /\ UNCHANGED <<shared, running, client, closer, agentHistory>>

-----------------------------------------------------------------------------
Enqueue ==
    \E t \in Tasks :
        \/ EnqueueInline(t)
        \/ \E c \in Clients : EnqueueAccepted(c, t) \/ EnqueueRejected(c, t)

AgentStep == Sleep \/ Exit \/ Swap \/ RunNext \/ FinishTask \/ ClearLocal

AgentNext ==
    \/ Enqueue
    \/ \E c \in Clients : NotifyOne(c)
    \/ BeginShutdown
    \/ NotifyAll
    \/ Join
    \/ SpuriousWakeup
    \/ AgentStep

AgentSpec == AgentInit /\ [][AgentNext]_agentVars

\* Every thread runs when it can and a task returns. Nobody is obliged to
\* enqueue or to shut down, and no wakeup comes for free.
AgentFairness ==
    /\ WF_agentVars(AgentStep)
    /\ \A c \in Clients : WF_agentVars(NotifyOne(c))
    /\ WF_agentVars(NotifyAll)
    /\ WF_agentVars(Join)

AgentFairSpec == AgentSpec /\ AgentFairness

-----------------------------------------------------------------------------
(* Properties *)

\* No task is lost, repeated or overtaken between enqueue and its call: the
\* calls made, the rest of the swapped-out vector and pending_ are together
\* exactly what enqueue accepted, in its order.
AcceptedInOrder == accepted = started \o Remaining \o pending

\* The agent never sleeps on work nobody will tell it of: when it is in
\* cv_.wait with its predicate true, a thread is between its critical section
\* and its notify.
NoLostWakeup ==
    agent = "asleep" /\ HasWork =>
        closer = "notify_all" \/ \E c \in Clients : client[c] = "notify"

\* shutdown "Drains remaining tasks and joins the agent thread": when it
\* returns, every accepted task and every task these ran inline has returned,
\* and no call is left on the agent's stack.
DrainedAtJoin ==
    closer = "joined" =>
        /\ Range(accepted) \cup nested = finished
        /\ running = <<>>

\* An accepted task is eventually called and returns, shutdown or not.
AcceptedFinishes ==
    \A t \in Tasks : t \in Range(accepted) ~> t \in finished

\* shutdown returns: the join never waits on an agent that sleeps.
ShutdownReturns == shutting_down ~> (closer = "joined")

\* The agent keeps the contract of TaskQueue.
Contract == INSTANCE TaskQueue
    WITH queue <- Remaining \o pending,
         stack <- running,
         posted <- Range(accepted) \cup nested,
         done <- finished,
         closed <- shutting_down,
         gone <- (agent = "exited")

ImplementsContract == Contract!Spec

\* Nothing that was accepted is left lying: every task finishes, and shutdown
\* comes back when they have.
AgentProgress == AcceptedFinishes /\ ShutdownReturns
=============================================================================
