------------------------------ MODULE MCProgress ------------------------------
(***************************************************************************)
(* The small protocols that have to come to an end, for TLC: a graph       *)
(* operation, the host agent, schedule and sync_wait, the retirement of    *)
(* contexts, the timeline sample and a loop of draws. They share no state; *)
(* focus is the one that a behaviour is about, and the others stay in one  *)
(* initial state.                                                          *)
(***************************************************************************)
EXTENDS MCGraphSubmit, HostAgent, ContextLifetime, TimelineFrames, DrawLoop,
        ScheduleWait

VARIABLE focus

MCThreadOf == [j1 |-> Agent("A"), j2 |-> Waiter("A"), j3 |-> Agent("B")]
MCHandlesOf == [j1 |-> {"A", "B"}, j2 |-> {"A"}, j3 |-> {"A", "B"}]

\* The callers of schedule are alike: u waits, and v is all there is besides.
ProgressInit ==
    /\ focus \in {"graph", "agent", "life", "timeline", "draws", "schedule"}
    /\ Init /\ AgentInit /\ LifeInit /\ TimelineInit /\ DrawInit /\ ScheduleInit
    /\ focus # "graph" => plan = Single /\ ~ presentation /\ ~ timeline
    /\ focus # "timeline" => oneQueue
    /\ parent["u"] = "sync_wait" /\ stateless \subseteq {"v"}
    /\ focus # "schedule" => stateless = {} /\ parent["v"] = "detached"

ProgressNext ==
    /\ UNCHANGED focus
    /\ \/ focus = "graph" /\ Next
          /\ UNCHANGED <<agentVars, lifeVars, timelineVars, drawVars, scheduleVars>>
       \/ focus = "agent" /\ AgentNext
          /\ UNCHANGED <<vars, lifeVars, timelineVars, drawVars, scheduleVars>>
       \/ focus = "life" /\ LifeNext
          /\ UNCHANGED <<vars, agentVars, timelineVars, drawVars, scheduleVars>>
       \/ focus = "timeline" /\ TimelineNext
          /\ UNCHANGED <<vars, agentVars, lifeVars, drawVars, scheduleVars>>
       \/ focus = "draws" /\ DrawNext
          /\ UNCHANGED <<vars, agentVars, lifeVars, timelineVars, scheduleVars>>
       \/ focus = "schedule" /\ ScheduleNext
          /\ UNCHANGED <<vars, agentVars, lifeVars, timelineVars, drawVars>>

ProgressSpec ==
    /\ ProgressInit /\ [][ProgressNext]_<<focus, vars, agentVars, lifeVars, timelineVars, drawVars, scheduleVars>>
    /\ \/ focus = "graph" /\ Fairness
       \/ focus = "agent" /\ AgentFairness
       \/ focus = "life" /\ LifeFairness
       \/ focus = "timeline" /\ TimelineFairness
       \/ focus = "draws" /\ DrawFairness
       \/ focus = "schedule" /\ ScheduleFairness
===============================================================================
