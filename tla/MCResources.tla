----------------------------- MODULE MCResources -----------------------------
(***************************************************************************)
(* Who owns and who uses what, for TLC: the resource tracker of a graph,   *)
(* the scopes of submissions, the profiler's queries, the factories, what  *)
(* a context is made with, and the functions that carry callbacks.  They   *)
(* share no state; focus is the one that a behaviour is about, and the     *)
(* others stay in one initial state.                                       *)
(***************************************************************************)
EXTENDS MCResourceTracker, SubmitScope, Profiler, Factories, ContextCreation,
        MoveOnlyFunction

VARIABLE focus

MCPromotedIn ==
    [synchronization2 |-> 3, buffer_device_address |-> 2, shader_untyped_pointers |-> 9]

\* The operations are alike, all on one queue.
Symmetry == Permutations(Ops)

MCScopeFamily == [o \in Ops |-> "f1"]
MCRecorderFamily == [k \in Recorders |-> IF k = "c2" THEN 2 ELSE 1]

\* The tracker's declarations do not tell its queues apart: the first step is on
\* one of the family that has two.  The fourth step is on the queue of the third.
ResourcesInit ==
    /\ focus \in {"tracker", "scope", "profiler", "factory", "creation", "function"}
    /\ Init /\ ScopeInit /\ ProfilerInit /\ FactoryInit /\ CreationInit /\ FunctionInit
    /\ focus # "tracker" => queueOf = [t \in Steps |-> "graphics"]
    /\ queueOf[1] = "graphics" /\ queueOf[4] = queueOf[3]
    /\ focus # "factory" => factory.name = "buffer"

ResourcesNext ==
    /\ UNCHANGED focus
    /\ \/ focus = "tracker" /\ Next
          /\ UNCHANGED <<scopeVars, profilerVars, factoryVars, creationVars, functionVars>>
       \/ focus = "scope" /\ ScopeNext
          /\ UNCHANGED <<vars, profilerVars, factoryVars, creationVars, functionVars>>
       \/ focus = "profiler" /\ ProfilerNext
          /\ UNCHANGED <<vars, scopeVars, factoryVars, creationVars, functionVars>>
       \/ focus = "factory" /\ FactoryNext
          /\ UNCHANGED <<vars, scopeVars, profilerVars, creationVars, functionVars>>
       \/ focus = "creation" /\ CreationNext
          /\ UNCHANGED <<vars, scopeVars, profilerVars, factoryVars, functionVars>>
       \/ focus = "function" /\ FunctionNext
          /\ UNCHANGED <<vars, scopeVars, profilerVars, factoryVars, creationVars>>

ResourcesSpec ==
    ResourcesInit
    /\ [][ResourcesNext]_<<focus, vars, scopeVars, profilerVars, factoryVars, creationVars,
                           functionVars>>
===============================================================================
