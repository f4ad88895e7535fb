--------------------------- MODULE ResourceTracker ---------------------------
(***************************************************************************)
(* The resource tracker of a pass graph: from the uses that each step      *)
(* declares it works out the barriers recorded before and after a step and *)
(* the edges between steps.  Every resource is cut into regions; a region  *)
(* remembers its layout, the queue family that owns it, and a frontier:    *)
(* the last access that nothing may overtake, and the reads after it.      *)
(* The declarations of a step are applied together, behind a journal.      *)
(*                                                                         *)
(* An interval is the set of its indices, where Top stands for the open    *)
(* end of an interval that has none.  A region is a box: aspects, mips and *)
(* layers.  A buffer is a box with one aspect and one layer and no layout. *)
(***************************************************************************)
EXTENDS Naturals, FiniteSets, SequencesExt

CONSTANTS Resources,  \* image and buffer handles
          Images,     \* the images among them
          Queues,     \* queue handles
          FamilyOf,   \* the family of each queue
          Declared,   \* the lists of declarations a step may make
          MaxSteps,   \* bound: steps in a graph
          Top,        \* the index that stands for an open end
          Throws      \* may an allocation fail?

Steps == 1 .. MaxSteps

\* What a step may declare: the extent of a resource, and a use of a box of it,
\* as normalize leaves it. Before a use the resource has the initial layout;
\* final is the layout after it, if it is another one, and pass says that the
\* render pass makes the transition.
Intervals == {b .. e : b, e \in 0 .. Top} \ {{}}
Boxes == [aspects : (SUBSET {"color", "depth", "stencil"}) \ {{}},
          mips : Intervals, layers : Intervals]
ExtentDeclarations ==
    [kind : {"extent"}, res : Resources, shared : BOOLEAN,
     extent : [mips : Intervals, layers : Intervals]]
UseDeclarations ==
    [kind : {"use"}, res : Resources, box : Boxes, access : {"read", "write", "readwrite"},
     stage : STRING, layout : STRING, initial : STRING, final : STRING, pass : BOOLEAN]

ASSUME TrackerAssumption ==
    /\ Images \subseteq Resources
    /\ MaxSteps \in Nat \ {0}
    /\ Top \in Nat
    /\ Throws \in BOOLEAN
    /\ Declared \subseteq Seq(ExtentDeclarations \cup UseDeclarations)

VARIABLES queueOf,   \* the queue of each step
          step,      \* the step whose declarations are applied
          todo,      \* declarations of that step still to apply
          phase,     \* "next", "batch", "done", "failed"
          tracked,   \* images_ and buffers_: regions, extents, sharing
          plan,      \* resource_sync_plan
          journal,   \* resource_state_tracker_batch_transaction
          kept,      \* history: tracker, plan and uses when the open batch began
          uses       \* history: the accepted uses

vars == <<queueOf, step, todo, phase, tracked, plan, journal, kept, uses>>

-----------------------------------------------------------------------------
(* resource_ranges.hpp *)

Cells(box) == box.aspects \X box.mips \X box.layers

Overlaps(a, b) == /\ a.aspects \cap b.aspects # {}
                  /\ a.mips \cap b.mips # {} /\ a.layers \cap b.layers # {}

Intersection(a, b) ==
    [aspects |-> a.aspects \cap b.aspects,
     mips |-> a.mips \cap b.mips, layers |-> a.layers \cap b.layers]

Before(i, j) == {x \in i : \A y \in j : x < y}
After(i, j) == {x \in i : \A y \in j : x > y}

\* subtract: what is left of a box, as at most five boxes.
Subtract(box, removed) ==
    LET common == Intersection(box, removed)
        piece(a, m, l) == [aspects |-> a, mips |-> m, layers |-> l]
    IN  IF ~ Overlaps(box, removed) THEN {box}
        ELSE {p \in {piece(box.aspects \ common.aspects, box.mips, box.layers),
                     piece(common.aspects, Before(box.mips, common.mips), box.layers),
                     piece(common.aspects, After(box.mips, common.mips), box.layers),
                     piece(common.aspects, common.mips, Before(box.layers, common.layers)),
                     piece(common.aspects, common.mips, After(box.layers, common.layers))} :
              Cells(p) # {}}

Adjacent(i, j) == \E x \in i, y \in j : x + 1 = y \/ y + 1 = x

\* merge_compatible: is the union of two boxes a box?
MergeCompatible(a, b) ==
    /\ a.aspects = b.aspects
    /\ \/ a.mips = b.mips /\ Adjacent(a.layers, b.layers)
       \/ a.layers = b.layers /\ Adjacent(a.mips, b.mips)

Union(a, b) == [a EXCEPT !.mips = @ \cup b.mips, !.layers = @ \cup b.layers]

\* ambiguous_open_remainder: a finite cut of an open interval.
CutsOpen(i, common) == Top \in i /\ Top \notin common

\* ambiguous_open_uncovered: an open gap beside what is tracked.
OpenBeside(gap, box) ==
    /\ gap.aspects \cap box.aspects # {}
    /\ \/ Top \in gap.mips /\ gap.layers \cap box.layers # {}
       \/ Top \in gap.layers /\ gap.mips \cap box.mips # {}

-----------------------------------------------------------------------------
(* resource_state_tracker_helpers.hpp *)

NoFrontier == [anchor |-> {}, readers |-> <<>>]

Untouched(box) ==
    [box |-> box, layout |-> "undefined", family |-> "ignored",
     accesses |-> NoFrontier]

Fresh(region) == region.accesses = NoFrontier

Chosen(set) == CHOOSE x \in set : TRUE

\* A finite set as a list, in some order.
Lengthened(list, set) == Append(list, Chosen(set \ Range(list)))
Listed(set) ==
    LET first[n \in 0 .. Cardinality(set)] ==
            IF n = 0 THEN <<>> ELSE Lengthened(first[n - 1], set)
    IN  first[Cardinality(set)]

\* The boxes of a range that no region covers.
Without(gaps, region) == UNION {Subtract(g, region.box) : g \in gaps}
Uncovered(box, regions) ==
    LET list == Listed(regions)
        gaps[n \in 0 .. Len(list)] ==
            IF n = 0 THEN {box} ELSE Without(gaps[n - 1], list[n])
    IN  gaps[Len(list)]

\* partition_buffer_regions, partition_image_regions: when they refuse.
Ambiguous(regions, box) ==
    \/ \E r \in regions :
        /\ Overlaps(r.box, box)
        /\ \/ CutsOpen(r.box.mips, box.mips \cap r.box.mips)
           \/ CutsOpen(r.box.layers, box.layers \cap r.box.layers)
    \/ \E g \in Uncovered(box, regions), r \in regions :
        OpenBeside(g, r.box)

\* The pieces: every region is cut along the box, its frontier copied, and
\* what no region covers starts without one.
PiecesOf(r, box) ==
    IF Overlaps(r.box, box)
    THEN {[r EXCEPT !.box = b] :
            b \in Subtract(r.box, box) \cup {Intersection(r.box, box)}}
    ELSE {r}
Partition(regions, box) ==
    (UNION {PiecesOf(r, box) : r \in regions})
    \cup {Untouched(g) : g \in Uncovered(box, regions)}

Alike(r, s) == [r EXCEPT !.box = s.box] = s

\* Two regions that can be one become one.
MergeTwo(regions) ==
    LET pairs == {p \in regions \X regions :
                    /\ p[1] # p[2]
                    /\ Alike(p[1], p[2])
                    /\ MergeCompatible(p[1].box, p[2].box)}
        p == Chosen(pairs)
    IN  IF pairs = {} THEN regions
        ELSE (regions \ {p[1], p[2]}) \cup {[p[1] EXCEPT !.box = Union(@, p[2].box)]}

\* merge_buffer_regions, merge_image_regions: join until nothing changes, which
\* is at most as often as there are regions.
Merge(regions) ==
    LET merged[n \in 0 .. Cardinality(regions)] ==
            IF n = 0 THEN regions ELSE MergeTwo(merged[n - 1])
    IN  merged[Cardinality(regions)]

\* The accesses a new one is ordered behind.
Accesses(frontier) ==
    IF frontier.readers = <<>> THEN frontier.anchor ELSE Range(frontier.readers)

\* source_scope: the stages to wait for on one queue.
SourceScope(accesses, queue) == {a.stage : a \in {x \in accesses : x.queue = queue}}

-----------------------------------------------------------------------------
(* What a use asks of a region *)

Family == FamilyOf[queueOf[step]]

Access(u) ==
    [access |-> u.access, stage |-> u.stage, step |-> step, queue |-> queueOf[step]]

LayoutAfter(u) == IF u.final # "undefined" THEN u.final ELSE u.layout

Transfers(u, region) == ~ tracked[u.res].shared /\ region.family # Family

Compatible(u, region) ==
    /\ u.access = "read"
    /\ ~ Transfers(u, region)
    /\ region.layout = u.layout
    /\ LayoutAfter(u) = u.layout
    /\ ~ u.pass

\* validate_image_use_conflicts, validate_buffer_use_conflicts.
Conflicts(u, region) ==
    IF Fresh(region)
    THEN u.res \in Images /\ u.access # "write" /\ u.initial = "undefined"
    ELSE \/ \E a \in region.accesses.anchor : a.step = step
         \/ /\ ~ Compatible(u, region)
            /\ \E a \in Range(region.accesses.readers) : a.step = step

\* clamp_image_region, clamp_buffer_range: inside the registered extent?
Fits(u) ==
    LET inside(i, all) == i \cap all # {} /\ (Top \in i \/ i \subseteq all)
    IN  \A e \in tracked[u.res].extent :
            inside(u.box.mips, e.mips) /\ inside(u.box.layers, e.layers)

Clamp(u) ==
    LET extent == tracked[u.res].extent
        within(i, all) == IF all = {} THEN i ELSE i \cap UNION all
    IN  [u EXCEPT !.box = [@ EXCEPT !.mips = within(@, {e.mips : e \in extent}),
                                    !.layers = within(@, {e.layers : e \in extent})]]

MixesAspects(regions, box) ==
    \E r \in regions : /\ r.box.aspects \cap box.aspects # {}
                       /\ r.box.aspects # box.aspects

Accepts(u) ==
    LET c == Clamp(u)
        regions == tracked[u.res].regions
    IN  /\ Fits(u)
        /\ u.res \in Images => ~ MixesAspects(regions, c.box)
        /\ ~ Ambiguous(regions, c.box)
        /\ \A r \in Partition(regions, c.box) :
            Overlaps(r.box, c.box) => ~ Conflicts(c, r)

-----------------------------------------------------------------------------
(* What a use emits: edges, and barriers before or after a step. *)

Barrier(u, region, old, new, src, dst, from, to) ==
    [res |-> u.res, box |-> region.box, old |-> old, new |-> new,
     src |-> src, dst |-> dst, from |-> from, to |-> to]

Edge(s, t) == [kind |-> "edge", at |-> t, what |-> <<s, t>>]
BarrierBefore(t, b) == [kind |-> "before", at |-> t, what |-> b]
BarrierAfter(t, b) == [kind |-> "after", at |-> t, what |-> b]

EdgesFrom(accesses, t) == Listed({Edge(a.step, t) : a \in accesses})

FirstLayout(u) == IF u.pass THEN u.initial ELSE u.layout

\* first_image_use, and the first use in advance_buffer_region.
EmitFirst(u, region) ==
    IF FirstLayout(u) = "undefined" THEN <<>>
    ELSE <<BarrierBefore(step, Barrier(u, region, u.initial, FirstLayout(u),
                                       {}, {u.stage}, "ignored", "ignored"))>>

AfterFirst(u, region) ==
    LET imported == /\ u.access = "read" /\ ~ u.pass
                    /\ u.initial = u.layout /\ LayoutAfter(u) = u.layout
    IN  [region EXCEPT
            !.layout = LayoutAfter(u), !.family = Family,
            !.accesses = IF imported
                         THEN [anchor |-> {}, readers |-> <<Access(u)>>]
                         ELSE [anchor |-> {Access(u)}, readers |-> <<>>]]

\* append_compatible_image_reader, and a read in advance_buffer_region.
EmitReader(u, region) ==
    LET anchor == region.accesses.anchor
        wait == Barrier(u, region, region.layout, u.layout,
                        SourceScope(anchor, queueOf[step]), {u.stage},
                        "ignored", "ignored")
    IN  EdgesFrom(anchor, step)
        \o (IF \E a \in anchor : a.access # "read"
            THEN <<BarrierBefore(step, wait)>> ELSE <<>>)

AfterReader(u, region) ==
    [region EXCEPT !.accesses.readers =
        IF Access(u) \in Range(@) THEN @ ELSE Append(@, Access(u))]

\* frontier_handoff_queue, collapse_frontier_for_transfer: the access after
\* which the region is released.
Handoff(frontier) == IF frontier.readers # <<>> THEN Last(frontier.readers)
                     ELSE Chosen(frontier.anchor)

EmitTransfer(u, region, new) ==
    LET handoff == Handoff(region.accesses)
        source == SourceScope(Accesses(region.accesses), handoff.queue)
    IN  EdgesFrom(Range(region.accesses.readers), handoff.step)
        \o <<BarrierAfter(handoff.step,
               Barrier(u, region, region.layout, new, source, {}, region.family, Family)),
             BarrierBefore(step,
               Barrier(u, region, region.layout, new, {}, {u.stage}, region.family, Family))>>

\* advance_image_state, advance_buffer_region: an access that must wait for
\* the whole frontier, in a new layout or on a new family perhaps.
EmitAdvance(u, region) ==
    LET new == IF u.pass THEN region.layout ELSE u.layout
        f == region.accesses
    IN  EdgesFrom(Accesses(f), step)
        \o IF Transfers(u, region) THEN EmitTransfer(u, region, new)
           ELSE <<BarrierBefore(step,
                    Barrier(u, region, region.layout, new,
                            SourceScope(Accesses(f), queueOf[step]), {u.stage},
                            "ignored", "ignored"))>>

\* Mutant: a read that advances a region is its anchor, and no reader.
AfterAdvance_NoReader(u, region) ==
    [region EXCEPT
        !.layout = LayoutAfter(u), !.family = Family,
        !.accesses = [anchor |-> {Access(u)}, readers |-> <<>>]]

\* A read that advances an image is a reader too; of a buffer it is not.
AfterAdvance(u, region) ==
    [region EXCEPT
        !.layout = LayoutAfter(u), !.family = Family,
        !.accesses = [anchor |-> {Access(u)},
                      readers |-> IF u.res \in Images /\ u.access = "read"
                                  THEN <<Access(u)>> ELSE <<>>]]

\* apply_image_region_uses, and the loop of use(buffer_use).
Emitted(u, region) == IF Fresh(region) THEN EmitFirst(u, region)
                      ELSE IF Compatible(u, region) THEN EmitReader(u, region)
                      ELSE EmitAdvance(u, region)

Advanced(u, region) == IF Fresh(region) THEN AfterFirst(u, region)
                       ELSE IF Compatible(u, region) THEN AfterReader(u, region)
                       ELSE AfterAdvance(u, region)

EmissionsOf(u) ==
    LET pieces == {r \in Partition(tracked[u.res].regions, u.box) :
                      Overlaps(r.box, u.box)}
        list == Listed(pieces)
        all[n \in 0 .. Len(list)] ==
            IF n = 0 THEN <<>> ELSE all[n - 1] \o Emitted(u, list[n])
    IN  all[Len(list)]

RegionsAfter(u) ==
    Merge({IF Overlaps(r.box, u.box) THEN Advanced(u, r) ELSE r :
           r \in Partition(tracked[u.res].regions, u.box)})

-----------------------------------------------------------------------------
(* The plan under construction and its journal. *)

Unknown == [known |-> FALSE, shared |-> FALSE, extent |-> {}, regions |-> {}]

NoJournal == [open |-> FALSE, known |-> {}, prior |-> <<>>, edges |-> 0,
              lengths |-> <<>>]

\* A map with one key more.
WithKey(map, key, value) ==
    [k \in DOMAIN map \cup {key} |-> IF k \in DOMAIN map THEN map[k] ELSE value]

\* Mutant: only the step that is declared is remembered.
Remember_OwnStep(j, p, at) ==
    IF at \in DOMAIN j.lengths \/ at # step THEN j
    ELSE [j EXCEPT !.lengths = WithKey(@, at, [before |-> Len(p.before[at]),
                                               after |-> Len(p.after[at])])]

\* remember_step: the lengths of a step's lists when they are first touched.
Remember(j, p, at) ==
    IF at \in DOMAIN j.lengths THEN j
    ELSE [j EXCEPT !.lengths = WithKey(@, at, [before |-> Len(p.before[at]),
                                               after |-> Len(p.after[at])])]

\* One emission written to the plan; add_dependency writes no edge twice.
Emit(work, e) ==
    LET p == work.plan
    IN  IF e.kind = "edge"
        THEN IF e.what[1] = e.what[2] \/ Contains(p.edges, e.what) THEN work
             ELSE [work EXCEPT !.plan = [p EXCEPT !.edges = Append(@, e.what)]]
        ELSE [plan |-> IF e.kind = "before"
                       THEN [p EXCEPT !.before[e.at] = Append(@, e.what)]
                       ELSE [p EXCEPT !.after[e.at] = Append(@, e.what)],
              journal |-> Remember(work.journal, p, e.at)]

\* remember_buffer, remember_image: a resource known before the batch.
RememberResource(j, r) ==
    IF r \notin j.known \/ r \in DOMAIN j.prior THEN j
    ELSE [j EXCEPT !.prior = WithKey(@, r, tracked[r])]

\* The plan and the journal after the first n emissions of a use.
Written(u, n) ==
    LET list == EmissionsOf(u)
        work[k \in 0 .. n] ==
            IF k = 0 THEN [plan |-> plan, journal |-> RememberResource(journal, u.res)]
            ELSE Emit(work[k - 1], list[k])
    IN  work[n]

\* rollback_batch.
RolledPlan(work) ==
    LET cut(t, list, now) == IF t \in DOMAIN work.journal.lengths
                             THEN SubSeq(now, 1, work.journal.lengths[t][list])
                             ELSE now
    IN  [edges |-> SubSeq(work.plan.edges, 1, work.journal.edges),
         before |-> [t \in Steps |-> cut(t, "before", work.plan.before[t])],
         after |-> [t \in Steps |-> cut(t, "after", work.plan.after[t])]]

RolledTracked(j) ==
    [r \in Resources |-> IF r \in DOMAIN j.prior THEN j.prior[r]
                         ELSE IF r \in j.known THEN tracked[r] ELSE Unknown]

-----------------------------------------------------------------------------
Init ==
    /\ queueOf \in [Steps -> Queues]
    /\ step = 1
    /\ todo = <<>>
    /\ phase = "next"
    /\ tracked = [r \in Resources |-> Unknown]
    /\ plan = [edges |-> <<>>, before |-> [t \in Steps |-> <<>>],
               after |-> [t \in Steps |-> <<>>]]
    /\ journal = NoJournal
    /\ uses = {}
    /\ kept = <<>>

\* use(Uses) opens the journal.
BeginBatch ==
    /\ phase = "next" /\ step \in Steps
    /\ todo' \in Declared
    /\ phase' = "batch"
    /\ journal' = [NoJournal EXCEPT
                    !.open = TRUE, !.edges = Len(plan.edges),
                    !.known = {r \in Resources : tracked[r].known}]
    /\ kept' = <<tracked, plan, uses>>
    /\ UNCHANGED <<queueOf, step, tracked, plan, uses>>

NextIs(kind) == phase = "batch" /\ todo # <<>> /\ Head(todo).kind = kind

RollBack(work) ==
    /\ tracked' = RolledTracked(work.journal)
    /\ plan' = RolledPlan(work)
    /\ uses' = kept[3]
    /\ todo' = <<>>
    /\ journal' = NoJournal
    /\ phase' = "failed"
    /\ UNCHANGED <<queueOf, step, kept>>

\* register_extent, for a resource not seen yet or seen with that extent.
Consistent(d) == LET t == tracked[d.res]
                 IN  t.known => t.extent = {d.extent} /\ t.shared = d.shared

RegisterExtent ==
    /\ NextIs("extent")
    /\ LET d == Head(todo)
       IN  /\ Consistent(d)
           /\ tracked' = [tracked EXCEPT ![d.res] =
                IF @.known THEN @
                ELSE [Unknown EXCEPT !.known = TRUE, !.shared = d.shared,
                                     !.extent = {d.extent}]]
    /\ todo' = Tail(todo)
    /\ UNCHANGED <<queueOf, step, phase, plan, journal, kept, uses>>

\* use(image_use), use_attachment, use(buffer_use).
Use ==
    /\ NextIs("use")
    /\ LET u == Clamp(Head(todo))
           work == Written(u, Len(EmissionsOf(u)))
       IN  /\ Accepts(Head(todo))
           /\ plan' = work.plan
           /\ journal' = work.journal
           /\ tracked' = [tracked EXCEPT ![u.res].known = TRUE,
                                         ![u.res].regions = RegionsAfter(u)]
           /\ uses' = uses \cup {u @@ [step |-> step, queue |-> queueOf[step]]}
    /\ todo' = Tail(todo)
    /\ UNCHANGED <<queueOf, step, phase, kept>>

\* A declaration is refused: the guard rolls back.
Refuse ==
    /\ \/ NextIs("extent") /\ ~ Consistent(Head(todo))
       \/ NextIs("use") /\ ~ Accepts(Head(todo))
    /\ RollBack([plan |-> plan, journal |-> journal])

\* An allocation fails among the emissions of a use: the guard's destructor
\* rolls back.
Throw ==
    /\ Throws
    /\ NextIs("use") /\ Accepts(Head(todo))
    /\ LET u == Clamp(Head(todo))
       IN  \E n \in 0 .. Len(EmissionsOf(u)) : RollBack(Written(u, n))

Commit ==
    /\ phase = "batch" /\ todo = <<>>
    /\ journal' = NoJournal
    /\ step' = step + 1
    /\ phase' = "next"
    /\ kept' = <<>>
    /\ UNCHANGED <<queueOf, todo, tracked, plan, uses>>

\* The tracker can be used after a failure as if nothing had been declared;
\* plan_resource_sync gives up instead, and stays here.
GoOn ==
    /\ phase = "failed"
    /\ phase' = "next"
    /\ kept' = <<>>
    /\ UNCHANGED <<queueOf, step, todo, tracked, plan, journal, uses>>

\* merge_barriers: a transfer keeps the range that its two halves share.
Joinable(b, c) ==
    /\ [b EXCEPT !.box = c.box] = c
    /\ b.from = b.to
    /\ MergeCompatible(b.box, c.box)

CoalesceTwo(barriers) ==
    LET pairs == {p \in (DOMAIN barriers) \X (DOMAIN barriers) :
                    p[1] < p[2] /\ Joinable(barriers[p[1]], barriers[p[2]])}
        p == Chosen(pairs)
    IN  IF pairs = {} THEN barriers
        ELSE RemoveAt([barriers EXCEPT ![p[1]].box = Union(@, barriers[p[2]].box)], p[2])

\* coalesce_barriers: two at a time, until nothing changes.
Coalesce(barriers) ==
    LET joined[n \in 0 .. Len(barriers)] ==
            IF n = 0 THEN barriers ELSE CoalesceTwo(joined[n - 1])
    IN  joined[Len(barriers)]

Finish ==
    /\ phase = "next" /\ step > MaxSteps
    /\ plan' = [plan EXCEPT
                    !.before = [t \in Steps |-> Coalesce(plan.before[t])],
                    !.after = [t \in Steps |-> Coalesce(plan.after[t])]]
    /\ phase' = "done"
    /\ UNCHANGED <<queueOf, step, todo, tracked, journal, kept, uses>>

Done == phase = "done" /\ UNCHANGED vars

Next == \/ BeginBatch \/ RegisterExtent \/ Use \/ Refuse \/ Throw
        \/ Commit \/ GoOn \/ Finish \/ Done

Spec == Init /\ [][Next]_vars

-----------------------------------------------------------------------------
(* Properties.  They speak of a tracker between two batches. *)

Settled == phase \in {"next", "done"}

\* The variables hold what the code's members can hold.
TypeOK ==
    /\ queueOf \in [Steps -> Queues]
    /\ step \in 1 .. MaxSteps + 1
    /\ phase \in {"next", "batch", "done", "failed"}
    /\ DOMAIN tracked = Resources
    /\ \A r \in Resources : tracked[r].regions # {} => tracked[r].known
    /\ DOMAIN plan.before = Steps /\ DOMAIN plan.after = Steps
    /\ \A e \in Range(plan.edges) : e[1] \in Steps /\ e[2] \in Steps
    /\ journal.open <=> phase = "batch"

UsesOf(r, c) == {u \in uses : u.res = r /\ c \in Cells(u.box)}
LastOf(us) == {u \in us : \A v \in us : v.step <= u.step}
Exclusive(r) == ~ tracked[r].shared

\* However a resource was cut and joined, each of its parts is in one region,
\* and that region remembers the last use of the part: its step is in the
\* frontier, its layout is the region's, its family the owner.
RegionsRemember ==
    Settled => \A r \in Resources : \A u \in uses :
        u.res = r => \A c \in Cells(u.box) : \E reg \in tracked[r].regions :
            /\ c \in Cells(reg.box)
            /\ \A other \in tracked[r].regions \ {reg} : c \notin Cells(other.box)
            /\ \A v \in LastOf(UsesOf(r, c)) :
                /\ \E a \in reg.accesses.anchor \cup Range(reg.accesses.readers) :
                    a.step = v.step
                /\ reg.layout = LayoutAfter(v)
                /\ Exclusive(r) => reg.family = FamilyOf[v.queue]

\* A path of edges leads from one step to another.
Connected(s, t) ==
    LET edges == Range(plan.edges)
        next(ts) == ts \cup {e[2] : e \in {e \in edges : e[1] \in ts}}
        from[n \in Nat] == IF n = 0 THEN {s} ELSE next(from[n - 1])
    IN  s # t /\ t \in from[MaxSteps]

Clash(u, v) ==
    \/ u.access # "read" \/ v.access # "read"
    \/ LayoutAfter(u) # v.layout \/ LayoutAfter(v) # v.layout \/ v.pass
    \/ Exclusive(u.res) /\ FamilyOf[u.queue] # FamilyOf[v.queue]

\* Two uses of one part of a resource that cannot go side by side are joined
\* by a path of edges, from the earlier to the later step.
ConflictsOrdered ==
    Settled => \A u, v \in uses :
        u.res = v.res /\ u.step < v.step /\ Overlaps(u.box, v.box) /\ Clash(u, v)
        => Connected(u.step, v.step)

\* The barriers that a step is recorded behind, for one part of a resource.
BarriersAt(r, c, t) ==
    {b \in Range(plan.before[t]) : b.res = r /\ c \in Cells(b.box)}

Previous(u, c) == LastOf({v \in UsesOf(u.res, c) : v.step < u.step})

\* The layouts of one part follow on each other: a barrier leads from the
\* layout after the previous use to the one its step needs, and where there is
\* none the part is in that layout already.
LayoutsFollow ==
    Settled => \A u \in uses : u.res \in Images => \A c \in Cells(u.box) :
        LET was == IF Previous(u, c) = {} THEN {u.initial}
                   ELSE {LayoutAfter(v) : v \in Previous(u, c)}
            needs == IF u.pass THEN was ELSE {u.layout}
        IN  /\ \A b \in BarriersAt(u.res, c, u.step) :
                b.old \in was /\ b.new \in needs
            /\ BarriersAt(u.res, c, u.step) = {} => was = needs \/ was = {"undefined"}

Halves(lists) == {x \in Steps \X (1 .. 9) :
    x[2] \in DOMAIN lists[x[1]] /\ lists[x[1]][x[2]].from # lists[x[1]][x[2]].to}

\* Ownership changes hands in two halves: every release has the acquire of the
\* same region in a later step that waits for it, and comes after every use
\* so far; every acquire has its release; and a use on another family than the
\* last one is preceded by an acquire.
TransfersPaired ==
    Settled =>
        /\ Cardinality(Halves(plan.before)) = Cardinality(Halves(plan.after))
        /\ \A x \in Halves(plan.after) : \E y \in Halves(plan.before) :
            LET rel == plan.after[x[1]][x[2]]
                acq == plan.before[y[1]][y[2]]
            IN  /\ [rel EXCEPT !.src = {}] = [acq EXCEPT !.dst = {}]
                /\ x[1] < y[1] /\ Connected(x[1], y[1])
                /\ \A u \in uses :
                    u.res = rel.res /\ Overlaps(u.box, rel.box) /\ u.step < x[1]
                    => Connected(u.step, x[1])
        /\ \A u \in uses : Exclusive(u.res) => \A c \in Cells(u.box) :
            \A v \in Previous(u, c) : FamilyOf[u.queue] # FamilyOf[v.queue] =>
                \E b \in BarriersAt(u.res, c, u.step) :
                    b.from = FamilyOf[v.queue] /\ b.to = FamilyOf[u.queue]

Between(u, v, c) == {w \in UsesOf(u.res, c) : u.step < w.step /\ w.step < v.step}

\* What step t does behind a barrier from these stages is behind an earlier use:
\* on one queue by its stage, on two by the semaphores of a path of edges.
Behind(t, stages, u) ==
    IF queueOf[t] = u.queue THEN u.stage \in stages ELSE Connected(u.step, t)

\* A use waits for an earlier one of the same part, by the barriers that reach
\* its stage.
WaitsFor(v, u, c) ==
    Behind(v.step, UNION {b.src : b \in {b \in BarriersAt(v.res, c, v.step) : v.stage \in b.dst}}, u)

\* The uses that come after a use of a part: those that wait for it, and those
\* that wait for them.
Followers(u, c) ==
    LET next(us) == us \cup {w \in UsesOf(u.res, c) :
                               \E x \in us : x.step < w.step /\ WaitsFor(w, x, c)}
        after[n \in 0 .. MaxSteps] == IF n = 0 THEN {u} ELSE next(after[n - 1])
    IN  after[MaxSteps]

\* A read that does not join the reads before it, but begins a frontier of its
\* own: it changes the layout, or comes from another family.
Anchors(w, c) ==
    /\ w.access = "read"
    /\ \/ w.pass \/ LayoutAfter(w) # w.layout
       \/ Previous(w, c) = {} /\ w.initial # w.layout
       \/ \E p \in Previous(w, c) :
            \/ w.layout # LayoutAfter(p)
            \/ Exclusive(w.res) /\ FamilyOf[w.queue] # FamilyOf[p.queue]

\* Where the code does not do what it should, and a run of its own shows it:
\* a read that joins one that anchors the frontier (ReadersGuarded);
BehindAnchor(u, v, c) ==
    /\ v.access = "read"
    /\ \E w \in Between(u, v, c) :
        /\ Anchors(w, c) /\ w.queue = v.queue
        /\ \A x \in Between(w, v, c) : x.access = "read"

\* a read that is the anchor and no reader, when others join it
\* (BufferReadersAwaited, ImageReadersAwaited).
LostReader(u, v, c) ==
    /\ Anchors(u, c) /\ (u.res \in Images => Previous(u, c) = {})
    /\ \E w \in Between(u, v, c) : w.access = "read" /\ w.queue = u.queue

\* Two uses of one part that cannot go side by side are separated on the GPU,
\* by barriers and semaphores or through the uses between them: edges alone do
\* not separate the steps of one command buffer.
ClashesAwaited ==
    Settled => \A u \in uses : \A c \in Cells(u.box) :
        LET later == Followers(u, c)
        IN  \A v \in UsesOf(u.res, c) : u.step < v.step /\ Clash(u, v) =>
                \/ WaitsFor(v, u, c) \/ v \in later
                \/ BehindAnchor(u, v, c) \/ LostReader(u, v, c)

\* A release is recorded behind every use of its region so far, or behind
\* others that wait for it.
ReleasesWait ==
    Settled => \A x \in Halves(plan.after) :
        LET rel == plan.after[x[1]][x[2]]
        IN  \A u \in uses : \A c \in Cells(u.box) \cap Cells(rel.box) :
            u.res = rel.res /\ u.step <= x[1] =>
                \/ Behind(x[1], rel.src, u)
                \/ \E w \in Followers(u, c) : w.step <= x[1] /\ Behind(x[1], rel.src, w)
                \/ \E v \in UsesOf(u.res, c) : v.step > x[1] /\ LostReader(u, v, c)

\* Documented, and not kept: a later write waits for every reader in the
\* frontier, of a buffer as of an image.
ReadersAwaited(some) ==
    Settled => \A u \in uses : u.res \in some /\ u.access = "read" =>
        \A c \in Cells(u.box) : \A v \in UsesOf(u.res, c) :
            u.step < v.step /\ v.access # "read" => v \in Followers(u, c)

BufferReadersAwaited == ReadersAwaited(Resources \ Images)
ImageReadersAwaited == ReadersAwaited(Images)

\* Documented, and not kept: steps of one queue are recorded into one command
\* buffer, where an edge is no barrier.  A read after a write is recorded
\* behind a barrier that reaches its stage, by its own or through the reads
\* before it.
ReadersGuarded ==
    Settled => \A u, v \in uses : \A c \in Cells(u.box) \cap Cells(v.box) :
        /\ u.res = v.res /\ u.step < v.step /\ u.queue = v.queue
        /\ u.access # "read" /\ v.access = "read"
        /\ \A w \in Between(u, v, c) : w.access = "read" /\ w.queue = u.queue
        => \/ BarriersAt(v.res, c, v.step) # {}
           \/ \E w \in Between(u, v, c) :
                w.stage = v.stage /\ BarriersAt(w.res, c, w.step) # {}

\* A batch that fails leaves tracker and plan as they were, also when it had
\* written to the lists of an earlier step.
FailureChangesNothing ==
    [][phase = "batch" /\ phase' = "failed"
       => <<tracked', plan'>> = <<kept[1], kept[2]>>]_vars

\* Declared uses are synchronised: clashing ones by a path of edges, and behind
\* barriers that wait for the right stages, follow on in layout and hand over
\* ownership in two matching halves.
UsesSynchronized ==
    ConflictsOrdered /\ ClashesAwaited /\ ReleasesWait /\ LayoutsFollow /\ TransfersPaired

\* However uses cut and merge regions, every part has one region, which knows
\* its history.
RegionsKept == TypeOK /\ RegionsRemember

\* The tracker remembers what it must and synchronises what it remembers.
TrackerSound == UsesSynchronized /\ RegionsKept
=============================================================================
