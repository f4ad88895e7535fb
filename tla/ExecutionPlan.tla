---------------------------- MODULE ExecutionPlan ----------------------------
(***************************************************************************)
(* How a pass graph becomes a sequence of queue submissions: the builder   *)
(* of dynamic graphs, the planner that forms batches, the edges added for  *)
(* resource hazards, the terminal batch, and the flat arrays of semaphore  *)
(* waits and signals handed to vkQueueSubmit2.                             *)
(*                                                                         *)
(* Steps and batches are numbered from 1; a batch holds the steps          *)
(* first..last. The hazards between steps come from the resource tracker,  *)
(* here any list of edges from an earlier to a later step.                 *)
(***************************************************************************)
EXTENDS Naturals, FiniteSets, SequencesExt

CONSTANTS Queues,        \* queue handles with their families
          DefaultQueue,  \* the context's compute queue
          PresentQueue,  \* the presenter's graphics queue
          MaxSteps,      \* bound: steps in a graph
          MaxHazards     \* bound: edges the resource tracker reports

ASSUME PlanAssumption ==
    /\ {DefaultQueue, PresentQueue} \subseteq Queues
    /\ MaxSteps \in Nat
    /\ MaxHazards \in Nat

VARIABLES queues,      \* step_queues
          preds,       \* step_predecessors, empty while the graph is a chain
          phase,       \* how far start has come
          presenting,  \* does the graph present?
          timeline,    \* are timeline semaphores used?
          hazards,     \* sync.dependencies
          plan,        \* execution_plan::batches
          scopes,      \* how many submit scopes are open
          sync,        \* prepared_batch_sync
          asked        \* history: the order the builder's caller asked for

options == <<presenting, timeline, hazards>>
vars == <<queues, preds, phase, options, plan, scopes, sync, asked>>

-----------------------------------------------------------------------------
(* dynamic_pass_graph_sender *)

\* The edges of a chain of n steps, written out.
ChainPreds(n) == [i \in 1 .. n |-> IF i = 1 THEN <<>> ELSE <<i - 1>>]

\* append: a step after the previous one.
AppendStep(q) ==
    /\ phase = "building"
    /\ Len(queues) < MaxSteps
    /\ queues' = Append(queues, q)
    /\ preds' = IF preds = <<>> THEN preds
                ELSE Append(preds, <<Len(queues)>>)
    /\ asked' = asked \cup {<<i, Len(queues) + 1>> : i \in {Len(queues)} \ {0}}
    /\ UNCHANGED <<phase, options, plan, scopes, sync>>

\* Mutant: the steps appended before lose their order.
AppendAfter_ForgetChain(q, incoming) ==
    /\ phase = "building" /\ Len(queues) < MaxSteps
    /\ queues' = Append(queues, q)
    /\ preds' = Append(IF preds = <<>> THEN [i \in DOMAIN queues |-> <<>>]
                       ELSE preds,
                       incoming)
    /\ asked' = asked \cup {<<p, Len(queues) + 1>> : p \in Range(incoming)}
    /\ UNCHANGED <<phase, options, plan, scopes, sync>>

\* append_after: a step after the given ones; the caller's list is not checked
\* before the graph is planned.
AppendAfter(q, incoming) ==
    /\ phase = "building"
    /\ Len(queues) < MaxSteps
    /\ queues' = Append(queues, q)
    /\ preds' = Append(IF preds = <<>> THEN ChainPreds(Len(queues)) ELSE preds,
                       incoming)
    /\ asked' = asked \cup {<<p, Len(queues) + 1>> : p \in Range(incoming)}
    /\ UNCHANGED <<phase, options, plan, scopes, sync>>

-----------------------------------------------------------------------------
(* pass_execution.hpp *)

Batch(q, first, last, incoming) ==
    [queue |-> q, first |-> first, last |-> last, preds |-> incoming]

\* The elements of a set of numbers, the smallest first.
InOrder(S) == CHOOSE s \in [1 .. Cardinality(S) -> S] :
                \A i, j \in DOMAIN s : i < j => s[i] < s[j]

\* plan_batches: maximal runs of steps on one queue, each after the one before.
PlanBatches ==
    LET starts == InOrder({i \in DOMAIN queues : i > 1 => queues[i] # queues[i - 1]})
        end(b) == IF b = Len(starts) THEN Len(queues) ELSE starts[b + 1] - 1
    IN  [b \in DOMAIN starts |->
            Batch(queues[starts[b]], starts[b], end(b), ChainPreds(b)[b])]

\* Mutant: a step may not follow the one just before it.
WellFormed_OffByOne(i) ==
    /\ \A p \in Range(preds[i]) : p < i - 1
    /\ IsInjective(preds[i])

\* The checks of plan_dag on one list of predecessors.
WellFormed(i) ==
    /\ \A p \in Range(preds[i]) : p < i
    /\ IsInjective(preds[i])

\* plan_dag: a batch for every step.
PlanDag == [i \in DOMAIN preds |-> Batch(queues[i], i, i, preds[i])]

\* validate_execution_batches: the batches partition the steps, in order.
ValidBatches(batches) ==
    /\ batches = <<>> => queues = <<>>
    /\ \A b \in DOMAIN batches :
        /\ batches[b].first = IF b = 1 THEN 1 ELSE batches[b - 1].last + 1
        /\ batches[b].first <= batches[b].last
        /\ b = Len(batches) => batches[b].last = Len(queues)
        /\ \A p \in Range(batches[b].preds) : p < b

BatchOf(batches, step) ==
    CHOOSE b \in DOMAIN batches : step \in batches[b].first .. batches[b].last

\* One turn of the loop of add_resource_dependencies.
AddEdge(batches, edge) ==
    LET s == BatchOf(batches, edge[1])
        d == BatchOf(batches, edge[2])
    IN  IF s = d \/ Contains(batches[d].preds, s) THEN batches
        ELSE [batches EXCEPT ![d].preds = Append(@, s)]

AddResourceDependencies(batches, edges) ==
    LET added[n \in 0 .. Len(edges)] ==
            IF n = 0 THEN batches ELSE AddEdge(added[n - 1], edges[n])
    IN  added[Len(edges)]

\* terminal_batches: those nobody comes after, in order.
TerminalBatches(batches) ==
    InOrder({b \in DOMAIN batches :
                \A d \in DOMAIN batches : ~Contains(batches[d].preds, b)})

-----------------------------------------------------------------------------
(* graph_submission_sync.hpp *)

\* graph_dependency_count, with the edges themselves: by destination, then in
\* the order of its predecessors. An edge is <<source, destination>>.
EdgesOf(batches) ==
    FlattenSeq([d \in DOMAIN batches |->
                  [k \in DOMAIN batches[d].preds |-> <<batches[d].preds[k], d>>]])

\* accumulate_batch_sync_offsets: offsets[b] is where batch b ends.
Accumulate(counts) ==
    LET end[b \in 0 .. Len(counts)] == IF b = 0 THEN 0 ELSE end[b - 1] + counts[b]
    IN  [b \in DOMAIN counts |-> end[b]]

Begin(offsets, b) == IF b = 1 THEN 0 ELSE offsets[b - 1]

\* The entries of one batch in a flat array: waits_for and signals_for.
Slice(entries, offsets, b) == SubSeq(entries, Begin(offsets, b) + 1, offsets[b])

Semaphore(kind, index) == [kind |-> kind, index |-> index]

\* A slot of a resized vector that nobody wrote, and the presenter's two.
Unwritten == Semaphore("none", 0)
ImageAvailable == Semaphore("image_available", 0)
RenderFinished == Semaphore("render_finished", 0)

\* The vector after the writes, in order; each is <<slot, entry>>. The last one
\* to a slot stays.
Filled(size, writes) ==
    [slot \in 1 .. size |->
        LET hits == {k \in DOMAIN writes : writes[k][1] = slot}
        IN  IF hits = {} THEN Unwritten ELSE writes[Max(hits)][2]]

\* How many of the edges 1..e leave source.
Leaving(edges, source, e) == Cardinality({k \in 1 .. e : edges[k][1] = source})
Entering(edges, target, e) == Cardinality({k \in 1 .. e : edges[k][2] = target})

\* Mutant: a timeline semaphore is counted once for every outgoing edge.
SignalCounts_PerEdge(batches, with_timeline, present) ==
    LET edges == EdgesOf(batches)
    IN  [b \in DOMAIN batches |->
            Leaving(edges, b, Len(edges))
            + IF present /\ b = Len(batches) THEN 1 ELSE 0]

\* prepare_batch_sync_storage: how many signals each batch makes.
SignalCounts(batches, with_timeline, present) ==
    LET edges == EdgesOf(batches)
        out(b) == Leaving(edges, b, Len(edges))
    IN  [b \in DOMAIN batches |->
            (IF with_timeline /\ out(b) > 0 THEN 1 ELSE out(b))
            + IF present /\ b = Len(batches) THEN 1 ELSE 0]

\* How many waits each batch makes.
WaitCounts(batches, present) ==
    [b \in DOMAIN batches |->
        Len(batches[b].preds) + IF present /\ b = Len(batches) THEN 1 ELSE 0]

\* The semaphore of an edge: a timeline semaphore is the source's.
EdgeEntry(edges, with_timeline, e) ==
    Semaphore("graph", IF with_timeline THEN edges[e][1] ELSE e)

\* The writes of the loop over edges: to the waits, and without timeline
\* semaphores also to the signals.
WaitWrites(edges, offsets, with_timeline) ==
    [e \in DOMAIN edges |->
        <<Begin(offsets, edges[e][2]) + Entering(edges, edges[e][2], e),
          EdgeEntry(edges, with_timeline, e)>>]
EdgeSignals(edges, offsets) ==
    [e \in DOMAIN edges |->
        <<Begin(offsets, edges[e][1]) + Leaving(edges, edges[e][1], e),
          EdgeEntry(edges, FALSE, e)>>]

\* With them, each batch signals once that has a slot not meant for presenting.
BatchSignals(offsets, present) ==
    LET made(b) == offsets[b] - Begin(offsets, b)
        extra(b) == IF present /\ b = Len(offsets) THEN 1 ELSE 0
        made_by == InOrder({b \in DOMAIN offsets : made(b) > extra(b)})
    IN  [k \in DOMAIN made_by |->
            <<Begin(offsets, made_by[k]) + 1, Semaphore("graph", made_by[k])>>]

\* The vector after the writes; the presenter's entry is written to its end.
Entries(offsets, writes, presenters, present) ==
    LET size == IF offsets = <<>> THEN 0 ELSE Last(offsets)
    IN  Filled(size, writes \o IF present /\ offsets # <<>>
                               THEN <<<<size, presenters>>>> ELSE <<>>)

\* prepare_batch_sync.
PrepareBatchSync(batches, with_timeline, present) ==
    LET edges == EdgesOf(batches)
        wait_offsets == Accumulate(WaitCounts(batches, present))
        signal_offsets ==
            Accumulate(SignalCounts(batches, with_timeline, present))
        wait_writes == WaitWrites(edges, wait_offsets, with_timeline)
        signal_writes == IF with_timeline THEN BatchSignals(signal_offsets, present)
                         ELSE EdgeSignals(edges, signal_offsets)
    IN  [waits |-> Entries(wait_offsets, wait_writes, ImageAvailable, present),
         signals |-> Entries(signal_offsets, signal_writes, RenderFinished, present),
         wait_offsets |-> wait_offsets,
         signal_offsets |-> signal_offsets]

NoSync == [waits |-> <<>>, signals |-> <<>>, wait_offsets |-> <<>>,
           signal_offsets |-> <<>>]

-----------------------------------------------------------------------------
(* pass_graph_op_state::start, as far as the plan is concerned *)

Init ==
    /\ queues = <<>>
    /\ preds = <<>>
    /\ phase = "building"
    /\ presenting = FALSE
    /\ timeline = FALSE
    /\ hazards = <<>>
    /\ plan = <<>>
    /\ scopes = 0
    /\ sync = NoSync
    /\ asked = {}

\* A graph that presents must end on the presenter's queue.
PresentationFits(batches, present) ==
    present => batches # <<>> /\ Last(batches).queue = PresentQueue

\* What the resource tracker may report: edges from earlier steps, in the order
\* in which the later ones are declared to it.
HazardLists ==
    {l \in BoundedSeq({e \in (DOMAIN queues) \X (DOMAIN queues) : e[1] < e[2]}, MaxHazards) :
        \A i, j \in DOMAIN l : i < j => l[i][2] <= l[j][2]}

\* prepare_graph and prepare_presentation. Of a graph that is refused nothing
\* is left, whatever the tracker has found.
PlanGraph(present) ==
    LET batches == IF preds = <<>> THEN PlanBatches ELSE PlanDag
        fits == /\ \A i \in DOMAIN preds : WellFormed(i)
                /\ ValidBatches(batches)
                /\ PresentationFits(batches, present)
    IN  /\ phase = "building"
        /\ presenting' = present
        /\ \/ fits /\ phase' = "planned" /\ hazards' \in HazardLists
              /\ plan' = AddResourceDependencies(batches, hazards')
           \/ ~fits /\ phase' = "rejected" /\ UNCHANGED <<hazards, plan>>
        /\ UNCHANGED <<queues, preds, timeline, scopes, sync, asked>>

\* record_execution: a scope for every batch, one for a graph without any.
OpenScopes ==
    /\ phase = "planned"
    /\ phase' = "recorded"
    /\ scopes' = IF plan = <<>> THEN 1 ELSE Len(plan)
    /\ UNCHANGED <<queues, preds, options, plan, sync, asked>>

\* prepare_terminal: one batch that comes after all others, which is the final
\* batch when it presents and an empty batch of its own otherwise.
PrepareTerminal ==
    LET sinks == TerminalBatches(plan)
        join == Batch(DefaultQueue, Len(queues) + 1, Len(queues), sinks)
        others == InOrder(Range(sinks) \ {Len(plan)})
        joins == preds # <<>> /\ ~presenting /\ Len(sinks) > 1
    IN  /\ phase = "recorded"
        /\ phase' = "joined"
        /\ plan' = IF joins THEN Append(plan, join)
                   ELSE IF preds # <<>> /\ presenting
                   THEN [plan EXCEPT ![Len(plan)].preds = @ \o others]
                   ELSE plan
        /\ scopes' = IF joins THEN scopes + 1 ELSE scopes
        /\ UNCHANGED <<queues, preds, options, sync, asked>>

\* create_sync chooses the kind of semaphore, prepare_batch_sync fills the
\* arrays, and the loop over scopes asks for the entries of each: a scope
\* without a batch is out of the range of the offsets.
PrepareSync(capable) ==
    LET chosen == capable /\ scopes > 1
    IN  /\ phase = "joined"
        /\ timeline' = chosen
        /\ sync' = PrepareBatchSync(plan, chosen, presenting)
        /\ phase' = IF scopes = Len(plan) THEN "ready" ELSE "rejected"
        /\ UNCHANGED <<queues, preds, presenting, hazards, plan, scopes,
                       asked>>

\* A caller's list for a new step, also lists that are refused.
IncomingLists ==
    {l \in BoundedSeq(1 .. Len(queues) + 1, 2) : \A i \in DOMAIN l : l[1] <= l[i]}

\* The calls on a runtime graph.
AppendCall ==
    \E q \in Queues :
        AppendStep(q) \/ \E incoming \in IncomingLists : AppendAfter(q, incoming)

StartGraph ==
    \/ \E present \in BOOLEAN : PlanGraph(present)
    \/ OpenScopes
    \/ PrepareTerminal
    \/ \E capable \in BOOLEAN : PrepareSync(capable)

-----------------------------------------------------------------------------
(* Properties *)

TypeOK ==
    /\ queues \in Seq(Queues)
    /\ preds = <<>> \/ (Len(preds) = Len(queues) /\ preds \in Seq(Seq(Nat)))
    /\ phase \in {"building", "planned", "recorded", "joined", "ready",
                  "rejected"}
    /\ {presenting, timeline} \subseteq BOOLEAN
    /\ hazards \in Seq(Nat \X Nat)
    /\ \A b \in DOMAIN plan :
        plan[b].queue \in Queues /\ Range(plan[b].preds) \subseteq 1 .. b - 1
    /\ scopes \in Nat
    /\ asked \subseteq Nat \X Nat

\* The batches that end before batch d begins: d's edges lead back to them.
\* They lead to earlier batches, see TypeOK.
Ancestors ==
    LET before[b \in DOMAIN plan] ==
            Range(plan[b].preds) \cup UNION {before[p] : p \in Range(plan[b].preds)}
    IN  before

\* No order that was asked for is lost, whether "append() and pipe composition
\* retain their usual sequential dependency when used after DAG nodes", by
\* append_after or as a resource hazard: the steps run in one batch, which
\* keeps their order, or in batches of which one waits for the other.
OrderKept ==
    phase = "ready" =>
        LET before == Ancestors
        IN  \A e \in asked \cup Range(hazards) :
                LET s == BatchOf(plan, e[1])
                    d == BatchOf(plan, e[2])
                IN  s = d \/ s \in before[d]

\* The last batch comes after all others, so waiting for its fence alone is
\* waiting for the graph. The completion of a submitted graph rests on it.
LastJoinsAll ==
    phase = "ready" =>
        Ancestors[Len(plan)] = 1 .. Len(plan) - 1

\* The array slots of batch b, as bags of semaphores.
WaitsFor(b) == Slice(sync.waits, sync.wait_offsets, b)
SignalsFor(b) == Slice(sync.signals, sync.signal_offsets, b)
Graph(i) == Semaphore("graph", i)

\* The flat arrays say what the edges say (prepare_batch_sync against its
\* edge-scanning reference): a batch waits once for each predecessor, on a
\* semaphore that this predecessor signals once and no other batch signals; a
\* binary semaphore has one waiter; no slot is left unwritten.
ArraysMatchEdges ==
    phase = "ready" =>
        \A d \in DOMAIN plan :
            LET graph_waits == {w \in Range(WaitsFor(d)) : w.kind = "graph"}
                signallers(w) ==
                    {s \in DOMAIN plan : Contains(SignalsFor(s), w)}
            IN  /\ IsInjective(WaitsFor(d)) /\ IsInjective(SignalsFor(d))
                /\ ~Contains(WaitsFor(d), Unwritten)
                /\ ~Contains(SignalsFor(d), Unwritten)
                /\ \A w \in graph_waits : Cardinality(signallers(w)) = 1
                /\ UNION {signallers(w) : w \in graph_waits} = Range(plan[d].preds)
                /\ Cardinality(graph_waits) = Len(plan[d].preds)
                /\ ~timeline =>
                    \A e \in DOMAIN plan, w \in graph_waits :
                        Contains(WaitsFor(e), w) => e = d

\* The presenter's semaphores belong to the final batch and to no other, and
\* only when the graph presents.
PresentsLast ==
    phase = "ready" =>
        \A b \in DOMAIN plan :
            /\ Contains(WaitsFor(b), ImageAvailable)
                    <=> presenting /\ b = Len(plan)
            /\ Contains(SignalsFor(b), RenderFinished)
                    <=> presenting /\ b = Len(plan)

\* A graph is refused for a reason: a list of predecessors that names a later
\* step or one step twice, a presentation that does not fit, or no steps.
RefusedForCause ==
    phase = "rejected" =>
        \/ \E i \in DOMAIN preds : \E p \in Range(preds[i]) : p >= i
        \/ \E i \in DOMAIN preds : ~IsInjective(preds[i])
        \/ presenting /\ (queues = <<>> \/ Last(queues) # PresentQueue)
        \/ queues = <<>>

\* The plan keeps every order that was asked for, with edges from earlier to
\* later batches, and has one batch that comes after all others.
PlanOrdered == TypeOK /\ OrderKept /\ LastJoinsAll

\* The flat arrays say what the edges say, the presenter's semaphores included.
SyncMatches == ArraysMatchEdges /\ PresentsLast
=============================================================================
