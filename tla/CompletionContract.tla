-------------------------- MODULE CompletionContract --------------------------
(***************************************************************************)
(* What the submitting code relies on when it hands a fence to the waiter: *)
(* the callback of a job comes once, after the GPU is done with the job's  *)
(* work (or the device is lost), and the waiter leaves only when it owes   *)
(* no callback.                                                            *)
(***************************************************************************)
EXTENDS Naturals

CONSTANT Jobs

VARIABLES owed,     \* jobs taken on whose callback is due
          refused,  \* jobs turned away whose callback is due
          retired,  \* jobs whose GPU work is over
          called,   \* jobs whose callback was invoked
          closed,   \* no further job is taken on
          gone      \* the waiter's thread has returned

vars == <<owed, refused, retired, called, closed, gone>>

Init ==
    /\ owed = {}
    /\ refused = {}
    /\ retired = {}
    /\ called = {}
    /\ closed = FALSE
    /\ gone = FALSE

Fresh(j) == j \notin owed \cup refused \cup called

Take(j) ==
    /\ Fresh(j)
    /\ ~closed
    /\ owed' = owed \cup {j}
    /\ UNCHANGED <<refused, retired, called, closed, gone>>

Refuse(j) ==
    /\ Fresh(j)
    /\ closed
    /\ refused' = refused \cup {j}
    /\ UNCHANGED <<owed, retired, called, closed, gone>>

\* Work finishes job by job, or for all of them when the device is lost.
Retire ==
    /\ retired' \in {retired \cup S : S \in SUBSET Jobs}
    /\ UNCHANGED <<owed, refused, called, closed, gone>>

Call(j) ==
    /\ j \in owed \cap retired
    /\ owed' = owed \ {j}
    /\ called' = called \cup {j}
    /\ UNCHANGED <<refused, retired, closed, gone>>

CallRefused(j) ==
    /\ j \in refused
    /\ refused' = refused \ {j}
    /\ called' = called \cup {j}
    /\ UNCHANGED <<owed, retired, closed, gone>>

Close ==
    /\ ~closed
    /\ closed' = TRUE
    /\ UNCHANGED <<owed, refused, retired, called, gone>>

Leave ==
    /\ closed
    /\ owed = {}
    /\ gone' = TRUE
    /\ UNCHANGED <<owed, refused, retired, called, closed>>

Next ==
    \/ \E j \in Jobs : Take(j) \/ Refuse(j) \/ Call(j) \/ CallRefused(j)
    \/ Retire
    \/ Close
    \/ Leave

Spec == Init /\ [][Next]_vars
=============================================================================
