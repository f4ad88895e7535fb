# vkexec: specifications, model checking and proofs

vkexec runs Vulkan compute and graphics work as stdexec senders. Recording is
sequential; what is hard is everything between a submission and the completion
of its receiver: two worker threads, a GPU that finishes work when it likes,
stop requests, waits that fail, a device that is lost, and objects (command
buffers, fences, semaphores, frames, descriptor sets, staging memory) that
several owners hand to each other. This directory specifies those parts in
TLA+, model-checks them with TLC and proves the properties that matter most
with TLAPS. Paths below are relative to the repository.

## The system

| Component | State it keeps | Operations | Interaction |
|---|---|---|---|
| Host agent (`src/vkexec/host_agent.cpp`) | `pending_`, `shutting_down_` under a mutex, a thread | `enqueue`, `shutdown`, `run` | runs the tasks that `schedule` and the end of a graph post; tasks may post more |
| Completion waiter (`src/vkexec/completion_waiter.cpp`) | `pending_`, `active`, a flag, a thread | `enqueue`, `enqueue_borrowed`, `shutdown`, `run` | gets fences from every submission, calls back when their work is retired |
| Scheduler, `sync_wait` (`include/vkexec/scheduler.hpp`, `sync_wait.hpp`) | an operation's status and handle, a run loop | `schedule`, `start`, completion | post to the host agent, hold the context |
| Pass-graph planner (`include/vkexec/detail/pass_execution.hpp`, `pass_lowering.hpp`, `graph_submission_sync.hpp`, `pass.hpp`) | steps, predecessors, batches, arrays of semaphores | pipes, `when_all`, composites, `append`, `append_after`, `plan_batches`, `plan_dag`, `prepare_batch_sync` | decides which batch waits for which |
| Resource tracker (`include/vkexec/detail/resource_state_tracker*.hpp`) | last uses of each region | declarations in transactions | yields barriers inside a batch and edges between batches |
| Pass-graph operation (`include/vkexec/detail/pass_graph_submit.hpp`) | scopes, fences, semaphores, a presentation | `start`, `release`, `finish_error` | uses the planner, submits, waits through the waiter, completes on the host agent |
| Recorded graph (`include/vkexec/recorded_graph.hpp`, `record_into.hpp`) | steps, callbacks, a lifecycle | record, move, mark, complete, abandon | commands in the caller's command buffer |
| Submit scope (`src/vkexec/submit_scope.cpp`, `include/vkexec/submit_scope.hpp`) | a command buffer and descriptor sets on loan | open, bind, submit by one of three ways, reclaim | lends from the context's pools |
| Context (`src/vkexec/context*.cpp`, `vk_bootstrap_context_helpers.hpp`, `vulkan_requirements.cpp`, `vkexec_features`) | device, queues, capabilities, agent, waiter, handles | creation, handles, deletion, the reaper | owns both threads; its last handle may be dropped on one of them |
| Presenter and draws (`src/vkexec_graphics/presenter*.cpp`, `include/vkexec_graphics/draw*.hpp`) | swapchain, frames in flight, the open frame | `begin_frame`, `end_frame`, `resize`, `abandon_frame`, ten draw senders | lends its fence and semaphores to graphs and draws |
| Frame ring (`vkexec_extensions/timeline_semaphore`) | slots gated by timeline values | acquire, submit and present, resize, reset | waits for the GPU before reuse |
| Timeline sample (`examples/vulkan_samples/timeline_semaphore/main.cpp`) | tickets, one timeline | three threads | the one example with a protocol of its own |
| Descriptors (`bind_resources.cpp`, `descriptor_schema.hpp`, `resource_table.hpp`, `descriptor_heap`) | tables, sets, heaps | schemas, lowering, binding | tell the planner what a shader touches |
| Tensors and copies (`tensor*.hpp`, `vkexec_vma/copy.cpp`, `barrier.cpp`) | mirror, staging memory, device buffer | upload, download, the two passes, one-shot copies | barriers of their own between passes |
| Profiler (`vkexec_profiling`) | query pages, captures, a bounded list | begin, end, resolve, take | waits for fences, shared by threads |
| Factories (contexts, allocators, buffers, pipelines, samplers, presenters, ...) | what each owner owns | create, move, destroy | order of creation and destruction |
| `move_only_function` | a buffer, three pointers | moves, assignment, calls | carries every task and callback |

`PROJECT.json` lists every component with its status, and every hazard found in
the code with its line.

What makes the parts correct:

- *Host agent*: a task that was accepted runs once, in order, and before
  shutdown returns; no wakeup is lost; a refused task never runs.
- *Completion waiter*: nothing is released before the GPU is done with it;
  every job is called back once; a failure is never success; a slow job does
  not hold up the others; a stop request is noticed.
- *Scheduler*: an operation completes once and is not touched after that;
  whoever waits comes back with what was sent.
- *Planner and tracker*: no order that was asked for is lost and none is
  invented; the last batch comes after all others; the arrays of semaphores say
  what the edges say; every clash of uses has an edge or a barrier.
- *Recording*: what is submitted is the graph; what it uses is retired once.
- *Graph operation, scopes*: what the GPU may use is held, every object has one
  owner, an acquired frame is settled, `set_value` means that everything is
  done, every loan goes back, and a started operation completes.
- *Presenter, frame ring, sample*: what a frame uses is reused only when no
  running work uses it; semaphores are signalled when they are clear and
  timelines only rise; a wait ends; after a failure the next frame can be drawn.
- *Context*: it says only what is true of its device, it is deleted once, and
  no thread joins itself.
- *Descriptors, transfers*: what is declared is what the shader touches, what
  is found in a heap is what was put there, what is copied arrives.
- *Factories, profiler, functions*: everything made is destroyed once, in
  order; every query is accounted for.

## Modules

| Module | Models | EXTENDS / INSTANCE |
|---|---|---|
| `TaskQueue` | what a host agent promises: a queue behind a gate | |
| `HostAgent` | `host_agent.cpp` | refines `TaskQueue` |
| `CompletionContract` | what the waiter promises | |
| `CompletionWaiter` | `completion_waiter.cpp`, `retirement_wait.hpp` | refines `CompletionContract` |
| `ScheduleWait` | `schedule` and `sync_wait` | the agent by `TaskQueue` |
| `ExecutionPlan` | planner, terminal batch, semaphore arrays | |
| `PassBuilder` | the ways to write a graph | extends `ExecutionPlan` |
| `Recording` | commands of a planned graph, recorded graphs | extends `ExecutionPlan` |
| `ResourceTracker` | declared uses to barriers and edges | |
| `GraphSubmit` | one started graph, from `start` to the receiver | the plan by `ExecutionPlan!LastJoinsAll`, the waiter by `CompletionContract`, the agent by `TaskQueue` |
| `SubmitScope` | scopes over shared pools, three ways to submit | the waiter by `CompletionContract` |
| `ContextCreation` | requirements, capabilities, backend, queues | |
| `ContextLifetime` | handles, deletion, the reaper | |
| `Presenter` | `presenter_frame.cpp`, the swapchain as it uses it | |
| `DrawLoop` | the draw senders over one presenter | |
| `FrameRing` | `frame_ring` and the functions that draw with it | |
| `TimelineFrames` | the timeline sample | |
| `DescriptorSets`, `DescriptorHeap` | bindings and their metadata; heaps | |
| `Transfers` | tensors, staging memory, copies, barriers | |
| `Profiler` | query pairs, captures, profiled steps | |
| `Factories` | creation, failure, moves, destruction | |
| `MoveOnlyFunction` | the callables' type | |
| `HostAgentProofs` | proofs about `HostAgent`, `TaskQueue` and `ScheduleWait` | extends `HostAgent` and `ScheduleWait` |
| `CompletionWaiterProofs` | about `CompletionWaiter`, `CompletionContract` and `MoveOnlyFunction` | extends both components |
| `GraphSubmitProofs` | about `GraphSubmit` | extends it |
| `SubmitScopeProofs` | about `SubmitScope`, `Profiler` and `ResourceTracker` | extends the three |
| `ContextLifetimeProofs` | about `ContextLifetime` and `ContextCreation` | extends both |
| `PassGraphProofs` | about `Recording` and the plans it records | extends `PassBuilder` and `Recording` |
| `PresenterProofs` | about `Presenter`, `FrameRing`, and the presenter's recovery in `MCFrames` | extends `MCFrames` |
| `TimelineFramesProofs` | about `TimelineFrames`, `DrawLoop`, `DescriptorSets` and `DescriptorHeap` | extends all four |
| `MC*` | values of the constants for TLC, and sums of components | extends what it checks |

Four MC modules are *sums*: `MCProgress`, `MCFrames`, `MCResources` and
`MCGraphs` hold several components that share no state. A variable `focus`,
chosen in the initial state, says which of them a behaviour is about; the others
stay in one of their initial states. A sum has the behaviours of its parts one
beside the other, not interleaved, and so the cost of each part once.

### HostAgent, ScheduleWait

A critical section is one action; what a thread does after it has released the
mutex (`NotifyOne`, `NotifyAll`, `Join`, running a task) is an action of its
own. `pending`, `local`, `next` and `shutting_down` are the variables of the
code; `running` is the stack of calls on the agent's thread, since a task that
enqueues on its own agent runs the new task inline (`EnqueueInline`). `agent`,
`client` and `closer` are program counters. The rest is history.

`ScheduleWait` puts callers in front of the agent's contract: each starts one
operation, waiting for it in `sync_wait` or leaving it to itself. The agent may
complete an operation while its `start` is still inside `enqueue`; a parent
that does not wait destroys it then. `opHolders` says who keeps the runtime
alive, and the last of them closes the agent. stdexec's run loop is external.

### CompletionWaiter

A job is a call of one of the two enqueue functions; `at[j]` is the vector or
the step of `finish_job` it is at. The three kinds of job differ in what they
own: a fence to destroy, nothing but the queue to wait for, or a borrowed
fence. `PollStopFlags`, `WaitAnyFence`, `WaitQueueIdle`, `ReapReady` and so on
are the functions of the code; `ConfirmRetirement` and `FailRetirement` are
the loop of `wait_for_retirement`. Vector order is left open, so all orders
are explored. `VK_TIMEOUT` and `VK_SUCCESS` of the poll are alike in the code
and in the model. `Terminated` is `std::terminate`.

### PassBuilder, ExecutionPlan, Recording

`PassBuilder` keeps the chains that `collect_pass_chain` and
`collect_pass_branches` have on the stack; its actions are a step piped on, a
branch begun and ended, a composite (two steps), `append` and `append_after`.
What it leaves in `queues` and `preds` is planned by `ExecutionPlan`, in the
stages of `start`: `PlanGraph` (planning, validation, presentation check,
resource edges), `OpenScopes`, `PrepareTerminal`, `PrepareSync`. Indices start
at 1, the code's at 0. The resource tracker is here any list of edges from an
earlier to a later step, in the order of the later steps, which is what
`declare` can report; `ResourceTracker` is about which.

`Recording` takes a planned graph through declarations, scopes, barriers and
commands, by its own operation or into a command buffer of the caller, and then
follows the `recorded_graph` objects: moved, marked, completed, abandoned, with
callbacks that throw. What is left of a loop that is running is `todo`.

### ResourceTracker

A region is a box of aspects, mips and layers, a set of indices in each
direction, with `Top` for the open end. The model keeps the code's journal,
declaration by declaration, and throws or refuses at any of them. But for
`RegionsRemember` the properties do not look at the regions: they compare all
pairs of accepted uses (`uses`) with the barriers and edges of the plan.

`ClashesAwaited` is the strictest of them. Of any two uses of one part that
cannot go side by side, be it for a write, a layout or a family, the later must
come after the earlier on the GPU: on two queues by a path of edges, which become
semaphores; on one queue, where edges are nothing to the GPU, by a barrier
before the later step that waits for the earlier's stage and reaches the later's,
or through uses of that part that do the same in between (`Followers`).
`ReleasesWait` asks this of the barriers that release a region to another family.
Two cases are taken out because the code gets them wrong, each as narrow as its
trigger and each shown by runs of its own: a read that joins a read which
anchors the frontier (`BehindAnchor`; `tracker_readers`), and such an anchor
itself, when it is not among the readers that a write or a release waits for
(`LostReader`; `tracker_buffer_readers`, and `ImageReadersAwaited` for the first
use of an image).

### GraphSubmit, SubmitScope

The operation of one graph. `pc` follows `pass_graph_op_state::start`
(`start`, `prepare`, `terminal`), `graph_submit_sender::op_state::start`
(`connected`, `submitting`, `failing`, `waiting`) and the hop of `continues_on`
(`hop`, `scheduled`). A failing call is a disjunct of its own wherever the
code has one, exceptions included. `gpu` runs the batches in any order the
plan allows, at any time, also while the operation is failing. `destroyed`
counts how often each fence was destroyed by either owner.

`SubmitScope` is the same for single submissions, now with several at once over
one set of pools: acquiring and resetting a pool, recording with binds of
descriptor sets, the sender that goes through the waiter, the one that blocks,
and a buffer that the caller submits by itself. Handles are the things
themselves, so that one can be in two places if the code puts it there.

### Contexts

`ContextCreation` follows the requirements from what a caller asks (features
of `vkexec_features` configured by version, extensions required or optional)
through what the library adds, to the device that is selected and what the
context then says of it. `ContextLifetime` builds contexts in steps and deletes
them on whichever thread drops the last handle; jobs on the two worker threads
hold handles, of several contexts if need be. `busy` is what each thread runs.

### Presenter, DrawLoop, FrameRing, TimelineFrames

One caller; the presenter has no lock. `acquire_frame` is a sequence of steps,
one for each wait in it (`call`), beside which the GPU (`RunFrame`), the
presentation engine (`Display`) and the completion waiter run; the other calls
are one step each, guarded by the device being idle where they wait for that.
`fence`, `image_available` and `render_finished` are the Vulkan objects;
`images_in_flight` names the slot whose fence an image remembers, and `dangling`
says that this fence was replaced. `slot_image`, `presents` and `acquired` are
the engine's side. `Faults` lists the calls that may fail; a failure that
changes nothing is not an action. `orphaned` is a caller that was refused the
handle of an open frame, and `resized` what the last resize reported. Of the
frames whose fence is lent to the waiter the model follows any one (`watch`).
The caller submits what it recorded, once, presents what it submitted, and
tells `abandon_frame` truly whether the frame was submitted, as
`GraphSubmitProofs!EveryFrameSettled` shows of a graph.

`DrawLoop` writes each of the ten draw senders as a sequence of steps that may
each end the draw. `FrameRing` follows the loop that `frame_ring` documents,
including a frame that fails after its submission, changes of the number of
images, and resets. `TimelineFrames` has the three threads of the sample with
their condition variable, and two queues that may be one: a queue's head that
waits for a value holds up what is behind it.

### Descriptors and transfers

`DescriptorSets` compares what a binding declares (its metadata and uses) with
what the shader of the pipeline touches through the set. `DescriptorHeap` has
the bytes of both heaps. `Transfers` gives every access that nobody waited for
the stages that come after it and the accesses that see it; a barrier extends
these by the masks of `barrier.cpp`, in both encodings.

Its memory model: a fence that the host waited for, and a submission, order
everything before them; staging memory may be coherent or not. Its caller is
disciplined where the headers leave it to the caller: passes whose order no
pass states are not mixed (`Ordered`), and the staging memory is not
overwritten while a graph in flight still copies from or to it (`StagingFree`):
`sync_to_device` writes it when its graph is recorded, and nothing in the library
keeps an earlier graph's copy apart from that. The one-shot copies of `copy.cpp`
record their barriers and run beside graphs in flight, as those of a tensor do.

In `DescriptorSets` a binding has one table. A set that its owner writes again
after the binding was made is not there: that the set still has what the binding
declares is the caller's part.

### Profiler, Factories, MoveOnlyFunction

A step of `Profiler` is one operation under the profiler's mutex. `Factories`
writes each factory and each destructor as a list of instructions (make, check,
kill, forget, drop, with what is undone on failure) which one interpreter runs,
any of them failing. `MoveOnlyFunction` composes the private functions of the
class on a memory that notes what must never be done to it; both
specialisations of the class have the same text.

## Runs

| Run | Question | Bounds |
|---|---|---|
| `progress` | do graphs, agent, context deletion, sample, draws and `schedule` come to an end, with nothing released early or told wrongly? | six plans of 1 to 4 batches, with and without presentation and timelines, all faults, 3 attempts; 2 clients, 3 tasks; 2 contexts, 3 jobs; 3 frames; 3 draws; 2 callers |
| `completion_waiter` | retirement before release, truth of success, wakeups, drain, refinement of `CompletionContract`; does every job complete when the GPU finishes its work, and independently when it need not, with stop requests noticed? | 2 jobs of any kind, 2 attempts, no stop requests ("drain"); 2 fenced jobs, 3 attempts, no ordinary faults ("alone") |
| `graphs` | are plans, arrays, recordings, declared bindings, heaps and copies right? | 4 steps, 2 queues, 1 hazard, nesting 3; 3 recorded passes, 2 recorded graphs; 2 slots, 2 bindings; 7 devices; 4 passes or calls, 2 graphs in flight |
| `frames` | is anything reused, signalled again or reported while work uses it, and does drawing go on after failures? | 2 slots, 2 images, 2 extents, all faults; ring of 2 slots over 2 or 3 images, 4 values |
| `resources` | are declared uses separated by edges, barriers and handoffs, loans, queries and objects accounted for, contexts honest? | 4 declared steps on 2 resources, 3 queues, 2 families; 2 operations, 2 pools, 2 sets; 2 captures and a graph over 3 pages; 3 calls of a factory; 4 versions; 3 functions, 4 callables |
| `presenter_borrowed` (violation) | does a drawn frame complete, as documented? | 2 slots, 2 images, no faults |
| `presenter_resize` (violation) | does a successful resize leave a swapchain, as documented? | 2 extents, only `rebuild` |
| `graph_submit_failures` (violation) | does every failure reach `set_error`, as documented? | three plans, 2 attempts |
| `tracker_readers` (violation) | does every reader come after a layout change, as documented? | 3 declared steps |
| `tracker_buffer_readers` (violation) | does a write wait for every reader of a buffer, as documented? | 4 declared steps |
| `graph_composite` (violation) | does a composite stay in one batch, as documented? | 4 steps, nesting 2, no hazards |
| `transfers_unflushed` (violation) | does a one-shot copy arrive, as documented? | 4 calls |

Most properties of the runs are conjunctions of named parts, defined beside
them: `WaiterSafe` is `RetiredBeforeRelease`, `SuccessMeansFinished`,
`NoLostWakeup` and `DrainedAtJoin`; `ObjectsHeld` is `HeldWhileInFlight` and
`FencesDestroyedOnce`; `PlanOrdered` is `OrderKept`, `LastJoinsAll` and the type
invariant; `RingSafe` is `SlotsIdle`, `GatesOpen` and `SignalsLegal`; and so on.
`ImplementsContract` of `progress` is the agent's, of `completion_waiter` the
waiter's.

Why the bounds are enough. Two clients race with each other, with the owner
and with the agent; three tasks give a task in `local` while another is pending
and a third is inline. Two jobs are enough for one to be active while another
arrives, fails, or never finishes; the waits look at each job or at all of
them, never at a count. Four steps are enough for a diamond, for two sinks
joined by a terminal batch, for a chain turned into a graph in its middle, for
two branches of two and for an edge of the tracker next to an edge of the
caller. The plans of `GraphSubmit` are those the planner arrives at that differ
in what can go wrong: one batch, a chain, a join added by `prepare_terminal`, a
diamond with and without such a join, a join that is a step of the graph. Two
contexts can hold handles of each other, and with three jobs each thread that
deletes can be busy. Three frames make the sample's two images come round. Of
the callers of `schedule`, which are alike, one always waits (`u`) and the
other does anything. Two slots are the code's `k_frames`; two images are enough
for slots and images to get out of step, and two extents for a resize that
changes something and one that does not. Four declared steps are a write, two
reads and what comes after them; three queues are a family with two and one
with one. The declarations do not tell queues apart, so that the first step's is
fixed, to one of the larger family, and the fourth step is on the queue of the
third, to keep the run short: three steps are on any queues, and what a family
change does to the readers of a range shows in the two steps after it. (All 81
assignments of the four steps were checked once, apart from this run.)
Two operations compete for a pool, a set and the queue's lock. The symmetry of
`resources` is over operations, which are only compared; its one temporal property is about the tracker, which has none.

`MCCompletionWaiter` has the waiter twice, with different constants: all kinds of
jobs and failing waits together with stop requests are too large for liveness, so
that "drain" has the former and "alone" the latter; the proofs hold with any.
`RecoversCleanly` and `RecoveryReturns` leave out the three failures after
which the presenter makes no promise: a wait without a time limit that fails
with an image acquired, an abandonment that fails after it presented the image,
and a swapchain that cannot be made again. `ContextsRetire` leaves out one
situation, `CrossDeletion`: workers of two contexts that each delete the other
context wait for each other for ever. The code guards a context's own threads
only; a program gets there by letting an operation of each context hold the
last handle of the other.

Deadlock is not checked in the passing runs: every one of these systems may
stop, when the owner has joined the thread, when the operation is destroyed,
when a frame is orphaned or at a bound. `NobodyStuck`, `RecoveryReturns` and the
liveness properties say where they must not.

### Findings

The violations are disagreements between the code and what the repository says
of it; `PROJECT.json` quotes both.

- `presenter_borrowed`: the presenter waits for the fence it lent to the waiter,
  but not for the waiter. It resets or destroys the fence for the next frame,
  and a waiter that did not poll in between may never call back.
- `presenter_resize`: `recreate_swapchain` takes over the new extent before it
  can fail and leaves the flags alone: the next resize to that extent does
  nothing and succeeds.
- `graph_submit_failures`: a failure followed by a stop request before the hop
  to the host agent is reported as `set_stopped`; the error is dropped.
- `tracker_readers`: a read that changes an image's layout is followed by a
  read of another stage without a barrier.
- `tracker_buffer_readers`: a buffer read on another family than the last use
  becomes the anchor of the frontier and, unlike an image's, no reader. When
  another read joins it, a later write or handoff waits for that read only, and
  in one command buffer may overwrite what the first is reading.
- `graph_composite`: in a graph with explicit edges every step is a batch with a
  command buffer of its own, the two halves of a composite too; the dispatch of
  `schema_pass` then does not see what its first half bound.
- `transfers_unflushed`: the one-shot copies neither flush nor invalidate mapped
  memory that need not be coherent.

Three more are stated by definitions that no run checks. `GraphSubmit!LoansReturned`:
when the receiver completes after a failure the scopes are still held, although
`include/vkexec/context.hpp:333` says that loans are reclaimed before completion.
`ResourceTracker!ImageReadersAwaited`: an image whose first use is a read that
changes the layout loses it as a reader, like a buffer that is handed over
(`resource_state_tracker.hpp:212`; TLC finds it in three steps).
`ContextCreation!FailureReturned`: the constructor of a context for a surface, which
`make_presenter` calls, ends the program when no instance can be made
(`context.cpp:187`); the headless factory returns the same failure, and
`docs/architecture/errors.md:5` says that expected failures are.

Seen on the way, and in the models as they are: a `bind_resources` step declares
nothing, so that `schema_pass` is refused in a graph across queue families; what
is bound through heaps has no metadata at all; a set that `bind_storage`
allocated and cannot write is left to its pool.

## Fairness

- *Threads* (`AgentFairness`, `ThreadFairness`, `LifeFairness`,
  `TimelineFairness`, the callers and the agent of `ScheduleFairness`): weak
  fairness of each thread's step. A thread of the operating system that can run
  does, a mutex is released after a bounded critical section, and a task is
  `noexcept` and returns. Clients, owners and users are not obliged to do
  anything, but for `ScheduleWait`: there somebody who has started an operation
  lets go of the context in the end, which is what `CallersReturn` needs for
  its second half.
- *GPU* (`GpuFairness`, `RunBatch` of `GraphSubmit`, `RenderDraw`,
  `FinishWork`): submitted work finishes. It is assumed only where completion
  is the question; the focus "alone" of `completion_waiter` does without it.
- *Presenter* (in `recovery`): a call that was begun goes on when its wait ends,
  the GPU draws what was submitted, the engine displays what was presented, and
  the waiter polls. Nobody is obliged to draw, and the waiter may be slow.
- *Sums*: a behaviour is fair to the component in focus, and to no other
  (`ProgressSpec` is a disjunction over `focus`).
- No failure is ever obliged to happen, nor to stop happening: the bound on
  attempts is the code's, and its end is `std::terminate`.

## Proofs

Assumptions on the constants are the `ASSUME`s of the modules, and no others,
but for the faults that `AcquisitionsAreClean` excludes in its statement.

Every proof of a safety property has the same three facts: the initial states
satisfy the inductive invariant, every step preserves it (one lemma for each
action, one step in it for each conjunct), and it implies the property. What
follows says which invariant, and why the property alone would not do.

### `HostAgentProofs`

*Host agent*, for any clients and tasks: `TypeCorrect`, `FirstInFirstOut`,
`WakeupsNotLost`, `ShutdownDrains` and `HostAgentIsATaskQueue` (the refinement).
The inductive invariant adds to the properties: outside its loop the agent
holds no task (`LoopInv`), the flag is set exactly when the owner has passed
its critical section (`GateInv`), a thread that has returned left nothing
pending (`ExitInv`), the join comes last (`JoinInv`), and every called task has
returned or is on the stack (`WorkInv`). Order alone is not inductive: it needs
`LoopInv` when the vectors are swapped.

*`schedule` and `sync_wait`*, for any callers, waiting or detached, with or
without a context: `WaitsAreSound`. `ScheduleIInv` says that a task waits once
and nobody completes a waiting one (`TasksInv`), what was posted, sent and
destroyed at each place of a caller (`PlaceOf`), that an operation has at most
one signal and is destroyed only after it (`EndOf`), and that the runtime is held
exactly by the operations that are alive and by the calls into it
(`HandlesInv`). The hard case is an operation that the agent completes while its
`start` is still inside `enqueue`: the call's own handle is what keeps the agent
open there.

### `CompletionWaiterProofs`

*Completion waiter*, for any jobs of any kinds and any bound on the
attempts: `TypeCorrect`, `NothingReleasedEarly`, `SuccessIsTrue`,
`WakeupsNotLost`, `ShutdownDrains`, all four together (`WaiterIsSafe`) and
`WaiterKeepsContract` (the refinement). The inductive invariant says what the
place of a job means (`PlaceInv`: called exactly when done, retired and reported
truly before that), that the job being finished is the only one in flight on
the thread (`PassInv`, without which an exit could leave one behind), and that a
thread that has returned left nothing (`ShutdownInv`).

*`move_only_function`*, for any holders and callables: `CallablesAreOwned`.
`MemorySound` says that a holder's kind tells what its buffer has, that no two
have the same callable, that the heap has those of its kind and no other, and
that nothing forbidden was done to the memory. It holds between two operations;
within one, the private functions break and restore it, and each has a lemma
that says what it makes of the memory. Assignment to a holder that has a callable
is the case that needs their order: it is cleared before the other moves in, and
a holder assigned to itself is left alone.

### `GraphSubmitProofs`

For any set of plans whose last batch comes after all
others: `TypeCorrect`, `NothingReleasedInFlight`, `EveryFenceDestroyedOnce`,
`EveryFrameSettled`, `ValueMeansAllDone`, and the runs' `ObjectsHeld` and
`OutcomeTrue`. The inductive invariant is a conjunction of what the operation
holds at each stage (`ObjectInv`), whose each fence is (`FenceInv`), what the
GPU may be doing (`GpuInv`), what became of the frame (`FrameInv`) and what is
known of failures (`ResultInv`). The lemma `LastIsLast` is the heart: only one
fence is waited for, and that this is waiting for all batches follows from the
assumption `Joined` on the plan and the invariant that a batch is done only
after those it waits for. `Joined` is what `ExecutionPlan!LastJoinsAll` says
of every plan the planner makes, which `PlansAreOrdered` proves; it is stated
with closed sets, so that no induction over the graph is needed.

### `PassGraphProofs`

*Recording*, for any number of steps of any kinds, any queues in any families,
graphs with and without explicit edges, any number of objects and any calls
that fail: `RecordingsAreFaithful` and `RecordingsRetireOnce`.

What is recorded is a concatenation, over the batches of the plan, of what each
contributes: the flattening of a sequence of sequences, which the community
module defines by recursion. The proofs never unfold it over data. They use that
the plan's batches are runs of consecutive steps (`PlanOfChain`, `PlanOfDag`,
`BatchesInOrder`), whose parts are `3 * (last - first + 1)` long, so that the
concatenation is a function that can be written down, the `k`-th of all parts
being a part of step `(k - 1) \div 3 + 1` (`ExpectedParts`); and that this
function is the only sequence which has the defining property of the flattening
(`FlattenIs`, by a smallest counterexample). In the same way the smallest first
order of a set of starts exists (`OrderExists`) and cuts the steps into runs on
one queue each (`RunsAreOnOneQueue`).

`RecordingInv` says what a run is given (`RGiven`), that the scopes are open,
ended and filled in the plan's order, and that those commands followed by what
is left to do are all the commands that are wanted (`RScopes`), which declared
uses let the recording begin (`RFits`), and what the GPU was given and when
(`RGpu`). For the objects: what the steps' sets are held for (`RHeld`), which
object may still retire the recording (`ROwner`), and that the callbacks called
and those left are all of them, in order (`RCalls`). `RetiredOnce` alone is not
inductive: between a callback and the next nothing in it says who is left to
be called.

*The planner*, for any queues, any bounds and any hazards the tracker may report:
`PlansAreOrdered`, `RefusalsHaveACause` and `BranchesAreFree`, of every graph that
pipes, branches nested in each other, composites, `append` and `append_after`
can write.

Two inductive invariants carry them. `BuildInv` is about a graph that is being
written: what is on the stack of open chains and branches (`GivenWell`,
`NestWell`), that every edge drawn so far was asked for (`AskedWell`), that no
chain's frontier is in a branch beside it (`FreeWell`), and that every order
asked for follows from the edges drawn (`CoverWell`). The last is the heart: a
chain that is turned into a graph in its middle, or branches that are joined,
replace many orders by few edges. `PlanInv` is about a graph that is planned: the
plan is the recorded batches with the edges of the hazards and no others
(`PGrown`), and after `prepare_terminal` the last batch comes after all
(`PJoined`). `PlanOrdered` says nothing of a plan that is not ready, so it is not
inductive.

"Follows from" is stated with sets closed under the edges (`Covers`, `Closed`)
instead of paths, so that no induction over the graph is needed; `AncestorsAre`
shows that the recursion of `Ancestors` has just the least closed sets for its
solution, and `AddedExists` that the loop over the hazards has one.

*The arrays of semaphores*, for a plan of any size: `SyncsMatch`. It needs that no
batch comes after another twice (`PDistinct`), which the planner, the loop over
the hazards and the terminal batch each keep (`StillNoneTwice`), and that the
arrays are those of the plan (`PPrepared`). Then it is about `prepare_batch_sync`
alone: the edges are listed by destination (`ListedTo`), the cumulative offsets
give each batch slots of its own (`Tiles`, `SlotsDiffer`), a write takes the place
of its rank among the writes of its batch (`RanksAre`), so that no two writes meet
(`PlacesAre`) and a batch finds in its slots what was written for it, each once,
with the presenter's behind them (`RankedAre`, `Carries`). Waits, signals of edges
and signals of batches are three instances of this (`WaitsCarry`, `EdgesSignal`,
`BatchesSignal`).

### `PresenterProofs`

For any number of slots and images and any faults: `TypeCorrect`,
`OpenFrameNotInUse`, `NoFenceDangles` (together `FramesStayIdle`),
`NoEarlyCompletion`. The inductive invariant says that a
frame that is drawn has an unsignalled fence and an image that remembers it
(`WorkInv`): an image that comes back therefore tells whose fence to wait for,
and two running frames never share one. It adds that the slot is idle between
the wait for its fence and the submission (`OpenInv`), and that the frame that
is waited for is drawn by the slot whose fence is polled (`WatchInv`), which no
reset undoes. A frame is abandoned, and the swapchain recreated, only with the
device idle, where all of this is void.

`SignalsAreConsumed`: no binary semaphore is signalled while it is, and none is
waited for in vain. This is a question of counts, since an image's semaphore is
used again for every frame that draws it. `BalanceInv` has, for each image, as
many presentations that are queued or will be as signals that were given or will
be; `PairInv` says that work and presentations use the semaphore of their image
and a slot works on the image that it acquired; and `TurnInv` that the engine
gives an image back only when nothing waits for its semaphore.

`AcquisitionsAreClean` and `RecoveryIsClean`: after a failure, the next image is
acquired with a free semaphore, and an open frame's image is its own
(`CleanInv`). Two failures are excepted, by which the presenter forgets an
acquired image: a wait without a time limit that fails with the image acquired,
and an abandonment that fails after it presented the image. The first theorem
takes a presenter in which these cannot fail, with any other faults; the second
is about the runs' `recovery`, in which they can and do not.

*Frame ring*, for any number of slots, swapchains of any sizes that have a
largest and any bound on the values: `RingSlotsIdle`, `RingGatesOpen`,
`RingSignalsLegal`, together `RingIsSafe`. `RingIInv` says that the values rise
with the flights and that a slot's gate is not below the values of its
submissions (`ValueInv`), and whose each semaphore is (`RingPairInv`).

### `SubmitScopeProofs`

*Submit scope*, for any operations, pools, sets and faults: `LoansAreKept`,
`CompletionsAreClean`, `ScopesAreSafe`. `ScopeIInv` says where a pool is
(`PoolInv`), that a set has one borrower and contains what that borrower's
commands expect (`SetInv`), and what an operation has at each of its places
(`LoanInv`, `SyncInv`, `WorkInv`). That running work keeps its loans is not
inductive without the last: an operation's end is decided only when its work is
over, and only then does it give anything back.

*Profiler*, for any captures and graphs, pages and bounds: `QueriesAreAccounted`.
`ProfilerIInv` begins with the pairs: every pair that was made is free, held or
quarantined, and no two of these (`QueryPlaces`), free once or held once
(`OnceInv`), so that `in_flight_` is the number of those that are not free
(`LentInv`). From the execution of a recorder to the resolution of its regions
their pairs have its timestamps (`StampInv`), which is what needs `OnceInv`: no
one else writes them. Then every resolved region is delivered, waits in the list
or was counted as dropped (`EventInv`); within `complete`, which resolves before
it commits, the event is the one that is ready (`GraphInv`). A page with a free
pair is found as the code's first; that there is a first is the well-foundedness
of the natural numbers.

*Rollback* of the resource tracker, for any resources, queues and lists of
declarations: `RollbackIsComplete`. `JournalInv` says of an open batch that every
list of the plan still begins with what it was when the batch began and is
journalled with that length if it grew (`StepKept`, `WorkKept`), and that every
resource known then is unchanged or journalled as it was (`PriorKept`). One
emission of any kind, to any step, keeps this (`EmitKeeps`), hence every prefix of
a use's emissions, which is where an allocation can fail (`WrittenKeeps`). Lists
being lists (`PlanGiven`, `TrackedGiven`) needs the regions of a resource to stay
finite through cuts and merges. The theorem says nothing of what the barriers are.

### `ContextLifetimeProofs`

*Lifetime*, for any contexts and any jobs on their threads:
`DeletionIsSafe`. `LifeIInv` says who may hold a handle when (`HandleInv`), that
who deletes a context is alone in it and none of its threads (`BusyInv`), that
a joined thread's context has no handles (`ExitInv`), and that the reaper leaves
only when nothing can come to it any more (`ReaperInv`). The assumption is that
an operation on a context's thread holds a handle of that context.

*Creation*, for any versions, capabilities, devices, queues and ways to get a
context: `CreationIsHonest`. `CreationIInv` carries what each call of the chain
established to where the context reports it: the requirements are those that
were asked for with what the library adds (`NeedsInv`), the device is suitable
and what is enabled on it is what the capabilities say (`DeviceInv`), queues are
of their families (`QueuesInv`), the functions loaded are those of the backend
(`CommandsInv`), and whoever is blamed is to blame (`BlamedInv`). The proof needs
two facts of the library, `LibraryAssumption`: by itself it asks for no more than
Vulkan 1.0 (`k_min_api_version_minor` is 0), and no version of Vulkan has the
heap's shader feature in its core. With a higher minimum, a feature that a caller
configured with its extension for an older version would be judged by a newer one.

### `TimelineFramesProofs`

*Timeline sample*, for any number of frames, on one queue or two:
`FrameDataStaysIdle`, `TimelineOnlyRises`, `FramesInOrder`. `TimelineIInv`
locates everything by the timeline's value: the main thread (`ClockInv`), the
workers (`CrewInv`), the contents of the queues (`QueueInv`) and the frames that
are done (`CountInv`).

*Draws*, for any number of them by any of the ten senders: `DrawsTell`. What is
left of a draw is a list of steps; `DrawTypes` says which lists there are, before
the frame is begun, while it is the draw's own and after it was presented, and
`UnderWay` what is known at each. A frame left open is that of a draw that failed
(`OpenInv`), and a draw that began a frame and completed with a value presented
it (`ValueInv`).

*Bindings*, for any sets and slots and pipelines of any number of bindings:
`MetadataIsTruthful`, in both directions: metadata is complete if and only if
table and shader agree. `SetsInv` says which pipelines, tables and schemas there are
(`PipeGiven`, `SchemaGiven`), what a binding tells (`TellsTruth`) and that a
described set is written and the caller's (`BoundHeld`). The work is in the loop
over a table: `BoundUpTo` says of its first n entries that the metadata is still
complete just when each of them fits a binding of its own (`AllRight`), and that
the uses are then those of the bindings seen (`UsesOfAll`). At the end as many
entries as bindings were seen, each once, so all were: `AgreeIs`, by counting.

*Heaps*, for any limits and strides of a device, heaps of any number of slots and
tables of any length: `HeapsAreFaithful`. `HeapInv` says that the slots of a heap
are as far apart as its descriptors are long (`LayoutGiven`), that no two entries
have one index of one heap (`IndicesGiven`, the caller's part), that a lowered
entry is found at its index (`LoweredFound`) and that nothing is written but at
indices that were given (`WrittenInPlace`), by failed steps either. `LoweredUpTo`
is the invariant of the loop that lowers a table: the positions count the entries
of each kind, so the n-th view is that of the n-th image. Arithmetic does the
rest: destinations of different indices are disjoint (`DestinationsApart`), and a
destination lies before the reserved range (`ReservedIsBeyond`).

### Only model-checked

- All liveness: the prover has no fairness and no ENABLED, so `NobodyStuck` is
  among it.
- `TrackerSound` of `ResourceTracker`: what regions contain that recursion over
  the states computed.
- `Transfers`, which computes visibility with folds over the same barriers.
- `Factories`: an interpreter of lists of instructions that are data.

Some theorems are of properties that runs check only as parts of conjunctions
(`FirstInFirstOut`, `RingGatesOpen`, ...) or through the refinement.

## Not modelled

- *Translation without state of its own*: the layout of Vulkan structures
  (submissions, pipeline parameters, samplers, views, push constants, drawing
  commands), the tag dispatch and the closures of compile-time lowering, value
  types for errors and results, the table of extension commands.
- *I/O and formatting*: shader files, chrome traces, benchmarks, the other
  examples, tests; vendored code.
- *Negotiation by preference*: formats, present modes, memory types. They pick
  one of what is there and keep no state.
- *Outside the library*: vk-bootstrap (taken to give a device with the features
  and extensions that were asked for), VMA, stdexec's run loop and senders,
  drivers. Memory ordering of the C++ atomics and mutexes is taken to be what
  the standard promises.
- *Of the presenter*: moves, a lost device, a recording that cannot be ended,
  and more than one lent fence at a time.
- *Of the context*: the registry of locks for external queues; the feature
  queries, which the library does not call.

## Plan

What is left: `Presenter` composed with `GraphSubmit`, and destroyed with
frames outstanding; a contract for senders (one completion, after reclaim) that
`SubmitScope` and `GraphSubmit` both implement; `ResourceTracker` composed with
`ExecutionPlan`, whose list of hazards is now any.

## Running

    tlc -workers 2 -config MCProgress.cfg MCProgress.tla
    tlapm GraphSubmitProofs.tla
