--------------------------- MODULE ContextLifetime ---------------------------
(***************************************************************************)
(* The life of contexts: they are built in steps, held by handles (the     *)
(* public object's and one per operation), and deleted by whichever thread *)
(* drops the last handle.  A context owns two threads, its host agent and  *)
(* its completion waiter, and its deletion joins them: on one of these     *)
(* threads it is left to the process-wide reaper.                          *)
(*                                                                         *)
(* A job is what one of these threads runs for an operation: a task or a   *)
(* completion callback.  It drops the operation's handles somewhere in the *)
(* middle, and user code goes on running after that.                       *)
(***************************************************************************)
EXTENDS Naturals, Sequences

CONSTANTS Contexts,
          Jobs,
          ThreadOf,   \* the thread a job runs on
          HandlesOf   \* the contexts whose handles the operation holds

\* The threads of a context.
Agent(c) == <<"agent", c>>
Waiter(c) == <<"waiter", c>>
Workers(c) == {Agent(c), Waiter(c)}
Threads == {<<"main">>, <<"reaper">>} \cup UNION {Workers(c) : c \in Contexts}

ASSUME LifetimeAssumption ==
    /\ \A j \in Jobs : \E c \in HandlesOf[j] :
        HandlesOf[j] \subseteq Contexts /\ ThreadOf[j] \in Workers(c)
    /\ "public" \notin Jobs /\ Jobs \cap Contexts = {}

VARIABLES built,     \* "state", "device", "waiter", "ready": how far init came
          handles,   \* who holds a handle: jobs, and "public"
          job,       \* each job: "new", "queued", "running", "done"
          busy,      \* what each thread runs: jobs and deletions, as a stack
          deletion,  \* "none", "queued", "agent", "waiter", "device", "done"
          retired,   \* the reaper's list
          reaper,    \* "running", "stopping", "gone"
          exited     \* threads that were joined

lifeVars == <<built, handles, job, busy, deletion, retired, reaper, exited>>

Top(t) == busy[t][Len(busy[t])]
Idle(t) == busy[t] = <<>>
Runs(t, what) == ~ Idle(t) /\ Top(t) = what
Push(t, what) == busy' = [busy EXCEPT ![t] = Append(@, what)]
Pop(t) == busy' = [busy EXCEPT ![t] = SubSeq(@, 1, Len(@) - 1)]
Main == <<"main">>
Reaper == <<"reaper">>

LifeInit ==
    /\ built = [c \in Contexts |-> "state"]
    /\ handles = [c \in Contexts |-> {"public"}]
    /\ job = [j \in Jobs |-> "new"]
    /\ busy = [t \in Threads |-> <<>>]
    /\ deletion = [c \in Contexts |-> "none"]
    /\ retired = <<>>
    /\ reaper = "running"
    /\ exited = {}

-----------------------------------------------------------------------------
(* context.cpp *)

\* init_headless, init_adopted: the device, then the waiter, then the agent.
Build(c) ==
    /\ Idle(Main) /\ "public" \in handles[c]
    /\ \/ built[c] = "state" /\ built' = [built EXCEPT ![c] = "device"]
       \/ built[c] = "device" /\ built' = [built EXCEPT ![c] = "waiter"]
       \/ built[c] = "waiter" /\ built' = [built EXCEPT ![c] = "ready"]
    /\ UNCHANGED <<handles, job, busy, deletion, retired, reaper, exited>>

\* The workers that a context has by now.
Workforce(c) == (IF built[c] \in {"waiter", "ready"} THEN {Waiter(c)} ELSE {})
                \cup (IF built[c] = "ready" THEN {Agent(c)} ELSE {})

\* Mutant: a worker deletes its own context.
DeleteOn_NoCheck(t, c) ==
    /\ deletion' = [deletion EXCEPT ![c] = "agent"]
    /\ Push(t, c)
    /\ UNCHANGED retired

\* Mutant: a context handed to the reaper takes the place of the others.
DeleteOn_Overwrite(t, c) ==
    IF t \in Workforce(c)
    THEN /\ retired' = <<c>>
         /\ deletion' = [deletion EXCEPT ![c] = "queued"]
         /\ UNCHANGED busy
    ELSE /\ deletion' = [deletion EXCEPT ![c] = "agent"]
         /\ Push(t, c)
         /\ UNCHANGED retired

\* make_context_state's deleter, on the thread that dropped the last handle.
DeleteOn(t, c) ==
    IF t \in Workforce(c)
    THEN /\ retired' = Append(retired, c)
         /\ deletion' = [deletion EXCEPT ![c] = "queued"]
         /\ UNCHANGED busy
    ELSE /\ deletion' = [deletion EXCEPT ![c] = "agent"]
         /\ Push(t, c)
         /\ UNCHANGED retired

Drop(t, c, holder) ==
    /\ handles' = [handles EXCEPT ![c] = @ \ {holder}]
    /\ IF handles[c] = {holder} THEN DeleteOn(t, c)
       ELSE UNCHANGED <<deletion, busy, retired>>

\* The public context is destroyed, by its owner or because init failed.
DropPublic(c) ==
    /\ Idle(Main) /\ "public" \in handles[c]
    /\ Drop(Main, c, "public")
    /\ UNCHANGED <<built, job, reaper, exited>>

-----------------------------------------------------------------------------
(* Operations *)

\* An operation starts: it keeps handles until one of its jobs drops them.
Post(j) ==
    /\ Idle(Main) /\ job[j] = "new"
    /\ \A c \in HandlesOf[j] : "public" \in handles[c] /\ built[c] = "ready"
    /\ job' = [job EXCEPT ![j] = "queued"]
    /\ handles' = [c \in Contexts |-> IF c \in HandlesOf[j]
                                      THEN handles[c] \cup {j} ELSE handles[c]]
    /\ UNCHANGED <<built, busy, deletion, retired, reaper, exited>>

RunJob(j) ==
    /\ job[j] = "queued" /\ Idle(ThreadOf[j])
    /\ job' = [job EXCEPT ![j] = "running"]
    /\ Push(ThreadOf[j], j)
    /\ UNCHANGED <<built, handles, deletion, retired, reaper, exited>>

\* The operation state goes, and one of its handles with it.
DropHandle(j, c) ==
    /\ Runs(ThreadOf[j], j) /\ j \in handles[c]
    /\ Drop(ThreadOf[j], c, j)
    /\ UNCHANGED <<built, job, reaper, exited>>

ReturnJob(j) ==
    /\ Runs(ThreadOf[j], j)
    /\ \A c \in Contexts : j \notin handles[c]
    /\ job' = [job EXCEPT ![j] = "done"]
    /\ Pop(ThreadOf[j])
    /\ UNCHANGED <<built, handles, deletion, retired, reaper, exited>>

-----------------------------------------------------------------------------
(* ~context_state, on thread t *)

\* The deletion goes past a worker that is there once it is idle and joined.
Joins(t, c, worker, from, to) ==
    /\ Runs(t, c) /\ deletion[c] = from
    /\ worker \in Workforce(c) => Idle(worker)
    /\ exited' = exited \cup ({worker} \cap Workforce(c))
    /\ deletion' = [deletion EXCEPT ![c] = to]
    /\ UNCHANGED <<built, handles, job, busy, retired, reaper>>

JoinAgent(t, c) == Joins(t, c, Agent(c), "agent", "waiter")
JoinWaiter(t, c) == Joins(t, c, Waiter(c), "waiter", "device")

\* The device goes, and whoever waits for the retirement learns of it.
DestroyDevice(t, c) ==
    /\ Runs(t, c) /\ deletion[c] = "device"
    /\ deletion' = [deletion EXCEPT ![c] = "done"]
    /\ Pop(t)
    /\ UNCHANGED <<built, handles, job, retired, reaper, exited>>

-----------------------------------------------------------------------------
(* retirement_executor *)

ReaperTakes ==
    /\ reaper # "gone" /\ Idle(Reaper) /\ retired # <<>>
    /\ retired' = Tail(retired)
    /\ deletion' = [deletion EXCEPT ![Head(retired)] = "agent"]
    /\ Push(Reaper, Head(retired))
    /\ UNCHANGED <<built, handles, job, reaper, exited>>

\* Static destruction: the users have released every handle by then.
StopReaper ==
    /\ reaper = "running" /\ Idle(Main)
    /\ \A c \in Contexts : handles[c] = {}
    /\ reaper' = "stopping"
    /\ UNCHANGED <<built, handles, job, busy, deletion, retired, exited>>

ReaperLeaves ==
    /\ reaper = "stopping" /\ Idle(Reaper) /\ retired = <<>>
    /\ reaper' = "gone"
    /\ UNCHANGED <<built, handles, job, busy, deletion, retired, exited>>

DeleteStep(t, c) == JoinAgent(t, c) \/ JoinWaiter(t, c) \/ DestroyDevice(t, c)

JobStep(j) == RunJob(j) \/ (\E c \in Contexts : DropHandle(j, c)) \/ ReturnJob(j)

LifeNext ==
    \/ \E c \in Contexts : Build(c) \/ DropPublic(c)
    \/ \E j \in Jobs : Post(j) \/ JobStep(j)
    \/ \E t \in Threads, c \in Contexts : DeleteStep(t, c)
    \/ ReaperTakes \/ StopReaper \/ ReaperLeaves

LifeSpec == LifeInit /\ [][LifeNext]_lifeVars

\* Threads go on with what they run; the owner need not destroy its contexts.
LifeFairness ==
    /\ \A j \in Jobs : WF_lifeVars(JobStep(j))
    /\ \A t \in Threads, c \in Contexts : WF_lifeVars(DeleteStep(t, c))
    /\ WF_lifeVars(ReaperTakes)

LifeFairSpec == LifeSpec /\ LifeFairness

-----------------------------------------------------------------------------
(* Properties *)

\* The variables hold what the code's objects can hold.
LifeTypeOK ==
    /\ built \in [Contexts -> {"state", "device", "waiter", "ready"}]
    /\ handles \in [Contexts -> SUBSET (Jobs \cup {"public"})]
    /\ job \in [Jobs -> {"new", "queued", "running", "done"}]
    /\ busy \in [Threads -> Seq(Jobs \cup Contexts)]
    /\ deletion \in [Contexts -> {"none", "queued", "agent", "waiter", "device", "done"}]
    /\ retired \in Seq(Contexts)
    /\ reaper \in {"running", "stopping", "gone"}
    /\ exited \in SUBSET Threads

Deleting(t, c) == \E i \in DOMAIN busy[t] : busy[t][i] = c

\* No thread deletes the context that it belongs to, where it would join
\* itself; whoever deletes is alone in it; and nobody holds a handle any more.
DeletedFromOutside ==
    \A t \in Threads, c \in Contexts : Deleting(t, c) =>
        /\ t \notin Workers(c)
        /\ handles[c] = {}
        /\ \A u \in Threads : Deleting(u, c) => u = t

\* A worker of a context that is joined runs nothing, now or later: no job is
\* queued for it.
JoinedIsIdle ==
    \A t \in exited : Idle(t) /\ \A j \in Jobs : ThreadOf[j] = t => job[j] \in {"new", "done"}

\* The reaper's list has every context that was left to it and not yet taken,
\* once; when the reaper is gone, there is none.
ReaperDrains ==
    /\ \A c \in Contexts :
        deletion[c] = "queued" <=> \E i \in DOMAIN retired : retired[i] = c
    /\ \A i, k \in DOMAIN retired : i # k => retired[i] # retired[k]
    /\ reaper = "gone" => retired = <<>>

\* Two contexts whose workers delete each other: each waits for the other's
\* worker to return. The deleter looks only at its own context's threads.
CrossDeletion ==
    \E c, d \in Contexts : \E t \in Workers(c), u \in Workers(d) :
        Deleting(t, d) /\ Deleting(u, c)

\* A context without handles is retired in the end, on whatever thread the
\* last one was dropped, except where two workers delete each other's context.
ContextsRetire ==
    \A c \in Contexts :
        handles[c] = {} ~> (deletion[c] = "done" \/ CrossDeletion)

\* Deletion is safe: from outside the context's own threads, once, with idle
\* workers, and not forgotten by the reaper.
DeletionSafe == DeletedFromOutside /\ JoinedIsIdle /\ ReaperDrains
=============================================================================
