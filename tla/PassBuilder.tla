----------------------------- MODULE PassBuilder -----------------------------
(***************************************************************************)
(* How pass graphs are written: steps piped onto a scheduler or onto a     *)
(* graph, when_all with its branches, composites that stand for several    *)
(* steps, and the runtime graph's append and append_after, in any mixture; *)
(* then the planner of ExecutionPlan.                                      *)
(*                                                                         *)
(* A chain under collection is a pass_chain, indices counted from 1; open  *)
(* is the nest of chains that collect_pass_chain and collect_pass_branches *)
(* have on the stack, the innermost last. on_queue is not an action: every *)
(* step may have been sent to any queue.                                   *)
(***************************************************************************)
EXTENDS ExecutionPlan

CONSTANT MaxNesting      \* bound: chains open at once

ASSUME BuilderAssumption == MaxNesting \in Nat \ {0}

VARIABLES kind,          \* "runtime" for a dynamic_pass_graph_sender, or "typed"
          open,          \* the chains under collection
          composites     \* history: first steps of composites, of two steps each

builderVars == <<kind, open, composites>>

NoFork == [incoming |-> <<>>, start |-> 0, branches |-> 0]

\* A pass_chain; fork is the when_all being collected, if started.
Chain(base, frontier, dag) ==
    [base |-> base, queues |-> <<>>, preds |-> <<>>, frontier |-> frontier,
     dag |-> dag, forked |-> FALSE, fork |-> NoFork]

Top == Last(open)
Below == Front(open)
Reached(chain) == chain.base + Len(chain.queues)

BuilderInit ==
    /\ Init
    /\ kind \in {"typed", "runtime"}
    /\ open = <<>>
    /\ composites = {}

-----------------------------------------------------------------------------
(* pass_lowering.hpp *)

\* graph_frontier: the steps that nobody comes after.
GraphFrontier ==
    IF queues = <<>> THEN <<>>
    ELSE IF preds = <<>> THEN <<Len(queues)>>
    ELSE InOrder((DOMAIN queues) \ UNION {Range(preds[i]) : i \in DOMAIN preds})

\* collect_pass_chain of the predecessor. A predecessor that does not exist,
\* which append_after has let pass, is out of range here.
Collect ==
    /\ phase = "building" /\ open = <<>> /\ Len(queues) < MaxSteps
    /\ IF \E i \in DOMAIN preds : \E p \in Range(preds[i]) : p > Len(queues)
       THEN phase' = "rejected" /\ UNCHANGED open
       ELSE /\ open' = <<Chain(Len(queues), GraphFrontier, preds # <<>>)>>
            /\ UNCHANGED phase
    /\ UNCHANGED <<queues, preds, options, plan, scopes, sync, asked, kind, composites>>

\* append_lowered_step.
Lowered(chain, q) ==
    [chain EXCEPT !.queues = Append(@, q),
                  !.preds = IF chain.dag THEN Append(@, chain.frontier) ELSE @,
                  !.frontier = <<Reached(chain) + 1>>]

\* The steps of the branches beside the open ones: the only earlier steps that
\* a piped step was not asked to come after.
BesideUs == UNION {(open[l].fork.start + 1) .. open[l + 1].base :
                    l \in 1 .. Len(open) - 1}
AskedOf(step) == {<<i, step>> : i \in (1 .. step - 1) \ BesideUs}

\* One primitive pass is piped onto the innermost chain.
Pipe(q) ==
    /\ open # <<>> /\ ~ Top.forked /\ Reached(Top) < MaxSteps
    /\ open' = Append(Below, Lowered(Top, q))
    /\ asked' = asked \cup AskedOf(Reached(Top) + 1)
    /\ UNCHANGED <<queues, preds, phase, options, plan, scopes, sync, kind, composites>>

\* A composite, such as schema_pass, has become two primitive passes on one
\* queue before the chain is collected.
PipeComposite(q) ==
    LET first == Reached(Top) + 1
    IN  /\ open # <<>> /\ ~ Top.forked /\ first < MaxSteps
        /\ open' = Append(Below, Lowered(Lowered(Top, q), q))
        /\ asked' = asked \cup AskedOf(first) \cup AskedOf(first + 1)
        /\ composites' = composites \cup {first}
        /\ UNCHANGED <<queues, preds, phase, options, plan, scopes, sync, kind>>

\* collect_pass_chain of when_all: from here on the chain keeps explicit edges.
OpenFork ==
    /\ open # <<>> /\ ~ Top.forked /\ Len(open) < MaxNesting
    /\ Reached(Top) + 1 < MaxSteps
    /\ open' = Append(Below,
         [Top EXCEPT !.preds = IF Top.dag THEN @
                               ELSE [i \in DOMAIN Top.queues |->
                                       IF Top.base + i = 1 THEN <<>>
                                       ELSE <<Top.base + i - 1>>],
                     !.dag = TRUE, !.frontier = <<>>, !.forked = TRUE,
                     !.fork = [incoming |-> Top.frontier, start |-> Reached(Top),
                               branches |-> 0]])
    /\ UNCHANGED <<vars, kind, composites>>

\* Mutant: a branch starts where the branches before it end.
OpenBranch_AfterTheLast ==
    /\ open # <<>> /\ Top.forked /\ Reached(Top) < MaxSteps
    /\ open' = Append(open,
         Chain(Reached(Top),
               IF Top.frontier = <<>> THEN Top.fork.incoming ELSE Top.frontier, TRUE))
    /\ UNCHANGED <<vars, kind, composites>>

\* collect_pass_branches: every branch starts after what the fork came after.
OpenBranch ==
    /\ open # <<>> /\ Top.forked /\ Reached(Top) < MaxSteps
    /\ open' = Append(open, Chain(Reached(Top), Top.fork.incoming, TRUE))
    /\ UNCHANGED <<vars, kind, composites>>

\* merge_pass_branch; an empty branch does not compile.
CloseBranch ==
    /\ Len(open) > 1 /\ ~ Top.forked /\ Top.queues # <<>>
    /\ open' = Append(Front(Below),
         [Last(Below) EXCEPT !.queues = @ \o Top.queues, !.preds = @ \o Top.preds,
                             !.frontier = @ \o Top.frontier,
                             !.fork.branches = @ + 1])
    /\ UNCHANGED <<vars, kind, composites>>

\* The end of collect_pass_branches; when_all takes two branches at least.
CloseFork ==
    /\ open # <<>> /\ Top.forked /\ Top.fork.branches >= 2
    /\ open' = Append(Below, [Top EXCEPT !.forked = FALSE, !.fork = NoFork])
    /\ UNCHANGED <<vars, kind, composites>>

\* materialize_pass_chain, onto a scheduler, a typed or a runtime graph: a
\* graph that was a chain until now has its edges written out.
Materialize ==
    /\ Len(open) = 1 /\ ~ Top.forked /\ Top.queues # <<>>
    /\ queues' = queues \o Top.queues
    /\ preds' = IF Top.dag
                THEN (IF preds = <<>> THEN ChainPreds(Len(queues)) ELSE preds)
                        \o Top.preds
                ELSE preds
    /\ open' = <<>>
    /\ UNCHANGED <<phase, options, plan, scopes, sync, asked, kind, composites>>

-----------------------------------------------------------------------------
(* The builder's caller, then pass_graph_op_state::start *)

Piping ==
    \/ Collect \/ OpenFork \/ OpenBranch \/ CloseBranch \/ CloseFork \/ Materialize
    \/ \E q \in Queues : Pipe(q) \/ PipeComposite(q)

Appending ==
    /\ kind = "runtime" /\ open = <<>> /\ phase = "building"
    /\ AppendCall
    /\ UNCHANGED builderVars

Starting == open = <<>> /\ StartGraph /\ UNCHANGED builderVars

BuilderNext == Piping \/ Appending \/ Starting

BuilderSpec == BuilderInit /\ [][BuilderNext]_<<vars, builderVars>>

-----------------------------------------------------------------------------
(* Properties *)

\* The steps that were asked to come before d, directly or not; a graph with
\* an edge to a later step is never ready.
AskedBefore ==
    LET direct == [d \in DOMAIN queues |->
            {e[1] : e \in {f \in asked \cup Range(hazards) : f[2] = d}}]
        wanted[d \in DOMAIN queues] ==
            direct[d] \cup UNION {wanted[s] : s \in direct[d]}
    IN  wanted

\* "Each branch starts after the same incoming frontier": the plan orders no
\* two steps that neither the caller nor a hazard did, so that branches can
\* run side by side. The last batch of a presenting graph joins the others.
BranchesFree ==
    phase = "ready" =>
        \A d \in DOMAIN queues :
            LET c == BatchOf(plan, d)
                before == Ancestors[c]
                wanted == AskedBefore[d]
            IN  \A s \in DOMAIN queues :
                    BatchOf(plan, s) \in before =>
                        \/ s \in wanted
                        \/ presenting /\ preds # <<>> /\ c = Len(plan)

\* Documented, and not kept: "a composite cannot become a submission boundary
\* inside a larger chain". Its steps, of which the second relies on what the
\* first has bound in the command buffer, are recorded into one scope.
CompositeUnsplit ==
    phase = "ready" =>
        \A i \in composites : BatchOf(plan, i) = BatchOf(plan, i + 1)
=============================================================================
