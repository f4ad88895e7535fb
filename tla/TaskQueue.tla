------------------------------ MODULE TaskQueue ------------------------------
(***************************************************************************)
(* What a host agent promises to the code that hands it work, without the  *)
(* mutex, the condition variable and the thread that keep the promise: a   *)
(* queue of posted tasks started first-in first-out, a stack of the tasks  *)
(* being executed (a task may run another one inside itself), a gate that  *)
(* closes once, and an executor that goes away only when the gate is       *)
(* closed and there is nothing left to do.                                 *)
(***************************************************************************)
EXTENDS Naturals, Sequences

CONSTANT Tasks

VARIABLES queue,    \* posted, not yet started
          stack,    \* being executed, the innermost task last
          posted,   \* every task ever taken on
          done,     \* tasks that have ended
          closed,   \* no further task is taken from outside
          gone      \* the executor has retired

vars == <<queue, stack, posted, done, closed, gone>>

Init ==
    /\ queue = <<>>
    /\ stack = <<>>
    /\ posted = {}
    /\ done = {}
    /\ closed = FALSE
    /\ gone = FALSE

\* A task is taken on from outside, behind the ones that wait.
Post(t) ==
    /\ ~closed
    /\ t \notin posted
    /\ queue' = Append(queue, t)
    /\ posted' = posted \cup {t}
    /\ UNCHANGED <<stack, done, closed, gone>>

\* The executor is free and starts the oldest waiting task.
Begin ==
    /\ stack = <<>>
    /\ queue # <<>>
    /\ stack' = <<Head(queue)>>
    /\ queue' = Tail(queue)
    /\ UNCHANGED <<posted, done, closed, gone>>

\* The task being executed runs another one inside itself, at once.
Nest(t) ==
    /\ stack # <<>>
    /\ t \notin posted
    /\ stack' = Append(stack, t)
    /\ posted' = posted \cup {t}
    /\ UNCHANGED <<queue, done, closed, gone>>

\* The innermost task ends.
End ==
    /\ stack # <<>>
    /\ done' = done \cup {stack[Len(stack)]}
    /\ stack' = SubSeq(stack, 1, Len(stack) - 1)
    /\ UNCHANGED <<queue, posted, closed, gone>>

Close ==
    /\ ~closed
    /\ closed' = TRUE
    /\ UNCHANGED <<queue, stack, posted, done, gone>>

\* The executor leaves with every task that was taken on ended.
Retire ==
    /\ closed
    /\ ~gone
    /\ posted = done
    /\ gone' = TRUE
    /\ UNCHANGED <<queue, stack, posted, done, closed>>

Next ==
    \/ \E t \in Tasks : Post(t) \/ Nest(t)
    \/ Begin
    \/ End
    \/ Close
    \/ Retire

Spec == Init /\ [][Next]_vars
=============================================================================
