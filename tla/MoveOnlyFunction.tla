--------------------------- MODULE MoveOnlyFunction ---------------------------
(***************************************************************************)
(* detail::move_only_function, by which tasks, stop tests and completions  *)
(* get to the worker threads.  A holder has a buffer and three pointers to *)
(* functions, here its kind: "empty", "inline" (the buffer has the         *)
(* callable) or "heap" (the buffer has a unique_ptr to it).                *)
(*                                                                         *)
(* An operation is a composition of the private functions on the memory;   *)
(* faults collects what these must never do to it.                         *)
(***************************************************************************)
EXTENDS Naturals, FiniteSets

CONSTANTS Holders,   \* the functions
          Targets,   \* the callables; each is put into a function once
          Small       \* those that the buffer is large enough for

ASSUME FunctionAssumption == Small \subseteq Targets /\ "nothing" \notin Targets

VARIABLES memory,    \* kind and buffer of each holder, the heap, the faults
          holds,     \* what each function is, as a value
          unused     \* the callables nobody gave away

functionVars == <<memory, holds, unused>>

Nothing == "nothing"
Kind(h) == memory.kind[h]

FunctionInit ==
    /\ memory = [kind |-> [h \in Holders |-> "empty"],
                 buffer |-> [h \in Holders |-> Nothing],
                 heap |-> {}, faults |-> {}]
    /\ holds = [h \in Holders |-> Nothing]
    /\ unused = Targets

-----------------------------------------------------------------------------
(* The private functions *)

Fault(mem, name, happens) == IF happens THEN mem.faults \cup {name} ELSE mem.faults

\* Placement new: into a buffer without a live object.
Place(mem, h, t) ==
    [mem EXCEPT !.buffer[h] = t,
                !.faults = Fault(mem, "object overwritten", mem.buffer[h] # Nothing)]

\* destroy_object: of the callable, or of the pointer that has it.
DestroyTarget(mem, h) ==
    [mem EXCEPT !.buffer[h] = Nothing,
                !.heap = IF mem.kind[h] = "heap" THEN @ \ {mem.buffer[h]} ELSE @,
                !.faults = Fault(mem, "destroyed twice", mem.buffer[h] = Nothing)]

\* relocate: move-construct there, and destroy what was moved from here.
RelocateTo(mem, h, from) ==
    [Place(mem, h, mem.buffer[from]) EXCEPT !.buffer[from] = Nothing]

\* Mutant: the function moved from keeps its pointers.
MoveFrom_Kept(mem, h, from) ==
    IF mem.kind[from] = "empty" THEN mem
    ELSE [RelocateTo(mem, h, from) EXCEPT !.kind[h] = mem.kind[from]]

MoveFrom(mem, h, from) ==
    IF mem.kind[from] = "empty" THEN mem
    ELSE [RelocateTo(mem, h, from) EXCEPT !.kind[h] = mem.kind[from], !.kind[from] = "empty"]

ClearHolder(mem, h) ==
    IF mem.kind[h] = "empty" THEN mem
    ELSE [DestroyTarget(mem, h) EXCEPT !.kind[h] = "empty"]

InitHolder(mem, h, t) ==
    IF t \in Small THEN [Place(mem, h, t) EXCEPT !.kind[h] = "inline"]
    ELSE [Place(mem, h, t) EXCEPT !.kind[h] = "heap", !.heap = @ \cup {t}]

-----------------------------------------------------------------------------
(* The operations *)

\* Assignment of a callable; constructing it may throw, after the clear.
AssignTarget(h, t) ==
    /\ t \in unused /\ unused' = unused \ {t}
    /\ \/ /\ memory' = InitHolder(ClearHolder(memory, h), h, t)
          /\ holds' = [holds EXCEPT ![h] = t]
       \/ /\ memory' = ClearHolder(memory, h)
          /\ holds' = [holds EXCEPT ![h] = Nothing]

\* A function is made of a callable; no function is there if that throws.
ConstructTarget(h, t) ==
    /\ Kind(h) = "empty"
    /\ t \in unused /\ unused' = unused \ {t}
    /\ memory' = InitHolder(memory, h, t)
    /\ holds' = [holds EXCEPT ![h] = t]

MoveAssign(h, from) ==
    /\ IF h = from THEN UNCHANGED memory
       ELSE memory' = MoveFrom(ClearHolder(memory, h), h, from)
    /\ holds' = IF h = from THEN holds ELSE [holds EXCEPT ![h] = holds[from], ![from] = Nothing]
    /\ UNCHANGED unused

\* The new function's pointers are null whatever was in its place before.
MoveConstruct(h, from) ==
    /\ h # from /\ Kind(h) = "empty"
    /\ memory' = MoveFrom(memory, h, from)
    /\ holds' = [holds EXCEPT ![h] = holds[from], ![from] = Nothing]
    /\ UNCHANGED unused

\* The destructor, and assignment of nullptr.
AssignNothing(h) ==
    /\ memory' = ClearHolder(memory, h)
    /\ holds' = [holds EXCEPT ![h] = Nothing]
    /\ UNCHANGED unused

FunctionNext ==
    \E h \in Holders :
        \/ \E t \in Targets : AssignTarget(h, t) \/ ConstructTarget(h, t)
        \/ \E from \in Holders : MoveAssign(h, from) \/ MoveConstruct(h, from)
        \/ AssignNothing(h)

FunctionSpec == FunctionInit /\ [][FunctionNext]_functionVars

-----------------------------------------------------------------------------
(* Properties *)

\* What a call of the function runs, by its invoker.
Invoked(h) == IF Kind(h) = "empty" THEN Nothing ELSE memory.buffer[h]

\* Through any sequence of moves, assignments and exceptions a function calls
\* what it was given; no callable is destroyed twice, and none outlives the
\* function that has it, in a buffer or on the heap.
CallablesOwned ==
    /\ memory.faults = {}
    /\ \A h \in Holders :
          /\ Invoked(h) = holds[h]
          /\ Kind(h) = "empty" <=> memory.buffer[h] = Nothing
          /\ Kind(h) = "heap" <=> memory.buffer[h] \in memory.heap
    /\ memory.heap = {memory.buffer[h] : h \in Holders} \ (Small \cup {Nothing})
    /\ \A h, i \in Holders : h # i /\ holds[h] # Nothing => holds[h] # holds[i]
===============================================================================
