------------------------------ MODULE Profiler ------------------------------
(***************************************************************************)
(* The GPU profiler: pairs of timestamp queries are lent to regions, which *)
(* captures of the user and profiled passes of recorded graphs open.  When *)
(* the GPU is done with a region its timestamps are read, the pair goes    *)
(* back, and an event is published to a list of bounded length.            *)
(*                                                                         *)
(* A step is one operation on the profiler's state under its mutex, or one *)
(* of the captures' or graphs' own; these may be on any thread.  A pair's  *)
(* queries are reset by the GPU when it executes the region.               *)
(***************************************************************************)
EXTENDS Naturals, Sequences, FiniteSets

CONSTANTS Captures, Graphs,
          RecorderFamily, \* the queue family of each of them
          Pages,          \* bound: the query pools that may be created
          PairsPerPage,   \* queries_per_pool / 2
          MaxInFlight,    \* max_in_flight_regions
          MaxCompleted,   \* max_completed_events
          MaxRegions      \* bound: regions of one capture

Recorders == Captures \cup Graphs
Pairs == Pages \X (1 .. PairsPerPage)
Regions == Recorders \X (1 .. MaxRegions)
Nobody == <<>>

ASSUME ProfilerAssumption ==
    /\ Captures \cap Graphs = {} /\ IsFiniteSet(Recorders)
    /\ PairsPerPage \in Nat \ {0} /\ MaxInFlight \in Nat \ {0}
    /\ MaxCompleted \in Nat \ {0} /\ MaxRegions \in Nat \ {0}

VARIABLES pages,        \* the families of the pools that were created
          freePairs,    \* free_pairs of each page, as a stack
          lent,         \* in_flight_
          events,       \* completed_
          dropped,      \* dropped_
          delivered,    \* how many events take_completed has given out
          held,         \* the pairs of each recorder's regions
          open,         \* active_regions_ of each capture
          life,         \* "new", "recording", "submitted", "executed", "lost",
                        \* "resolving", "committing", "releasing", "gone"
          resolved,     \* how many of its regions were resolved
          ready,        \* completed_ of a graph's profiled pass
          stamped,      \* whose timestamps are in each pair
          quarantined,
          lostDevice

pageVars == <<pages, freePairs, lent>>
eventVars == <<events, dropped, delivered>>
holderVars == <<held, open, life, resolved, ready>>
profilerVars == <<pageVars, eventVars, holderVars, stamped, quarantined, lostDevice>>

ProfilerInit ==
    /\ pages = <<>> /\ freePairs = [p \in Pages |-> <<>>] /\ lent = 0
    /\ events = <<>> /\ dropped = 0 /\ delivered = 0
    /\ held = [k \in Recorders |-> <<>>] /\ open = [k \in Recorders |-> 0]
    /\ life = [k \in Recorders |-> "new"] /\ resolved = [k \in Recorders |-> 0]
    /\ ready = [k \in Graphs |-> <<>>]
    /\ stamped = [q \in Pairs |-> Nobody]
    /\ quarantined = {} /\ lostDevice = FALSE

LifeGoes(k, from, to) == life[k] = from /\ life' = [life EXCEPT ![k] = to]

-----------------------------------------------------------------------------
(* profiler_state *)

\* Pages are numbered in the order of pages_.
Usable(k) == {p \in DOMAIN pages : pages[p] = RecorderFamily[k] /\ freePairs[p] # <<>>}

LendPair(k, p, list) ==
    /\ freePairs' = [freePairs EXCEPT ![p] = SubSeq(list, 1, Len(list) - 1)]
    /\ lent' = lent + 1
    /\ held' = [held EXCEPT ![k] = Append(@, <<p, list[Len(list)]>>)]

\* reserve: a pair of the first page of the family that has one, or of a new
\* page. A page that cannot be created is not kept.
Reserve(k) ==
    /\ lent < MaxInFlight
    /\ IF Usable(k) # {}
       THEN LET p == CHOOSE p \in Usable(k) : \A other \in Usable(k) : p <= other
            IN  LendPair(k, p, freePairs[p]) /\ UNCHANGED pages
       ELSE /\ Len(pages) + 1 \in Pages
            /\ pages' = Append(pages, RecorderFamily[k])
            /\ LendPair(k, Len(pages) + 1, [i \in 1 .. PairsPerPage |-> i])

\* release_slot, for the first pair that k holds.
ReleaseSlot(k) ==
    /\ LET pair == Head(held[k])
       IN freePairs' = [freePairs EXCEPT ![pair[1]] = Append(@, pair[2])]
    /\ lent' = lent - 1
    /\ held' = [held EXCEPT ![k] = Tail(@)]
    /\ UNCHANGED pages

\* resolve: what the queries of the pair hold; the read fails on a lost device.
Sample(k, i) ==
    [region |-> <<k, i>>,
     stamp |-> IF lostDevice THEN Nobody ELSE stamped[held[k][i]]]

IsFull == Len(events) >= MaxCompleted

\* publish
Published(event) ==
    IF IsFull THEN dropped' = dropped + 1 /\ UNCHANGED events
    ELSE events' = Append(events, event) /\ UNCHANGED dropped

TakeCompleted ==
    /\ events # <<>>
    /\ delivered' = delivered + Len(events)
    /\ events' = <<>>
    /\ UNCHANGED <<pageVars, dropped, holderVars, stamped, quarantined, lostDevice>>

-----------------------------------------------------------------------------
(* manual_capture *)

CreateCapture(c) ==
    /\ LifeGoes(c, "new", "recording")
    /\ UNCHANGED <<pageVars, eventVars, held, open, resolved, ready, stamped, quarantined, lostDevice>>

\* scoped_region
OpenRegion(c) ==
    /\ life[c] = "recording" /\ Len(held[c]) < MaxRegions
    /\ Reserve(c)
    /\ open' = [open EXCEPT ![c] = @ + 1]
    /\ UNCHANGED <<eventVars, life, resolved, ready, stamped, quarantined, lostDevice>>

CloseRegion(c) ==
    /\ life[c] = "recording" /\ open[c] > 0
    /\ open' = [open EXCEPT ![c] = @ - 1]
    /\ UNCHANGED <<pageVars, eventVars, held, life, resolved, ready, stamped, quarantined, lostDevice>>

\* mark_submitted; a capture that is destroyed before gives its pairs back.
MarkSubmitted(c) ==
    /\ open[c] = 0
    /\ LifeGoes(c, "recording", "submitted") \/ LifeGoes(c, "recording", "releasing")
    /\ UNCHANGED <<pageVars, eventVars, held, open, resolved, ready, stamped, quarantined, lostDevice>>

\* Mutant: the capture does not look at its fence.
IsDone_Unasked(c) == life[c] \in {"submitted", "executed"}

\* The capture's fence is signalled.
IsDone(c) == life[c] = "executed"

\* resolve_after_gpu, discard_after_gpu
ResolveCapture(c) ==
    /\ IsDone(c)
    /\ \E to \in {"resolving", "releasing"} : life' = [life EXCEPT ![c] = to]
    /\ UNCHANGED <<pageVars, eventVars, held, open, resolved, ready, stamped, quarantined, lostDevice>>

\* A region is resolved and its event published.
PublishRegion(c) ==
    /\ life[c] = "resolving" /\ resolved[c] < Len(held[c])
    /\ Published(Sample(c, resolved[c] + 1))
    /\ resolved' = [resolved EXCEPT ![c] = @ + 1]
    /\ UNCHANGED <<pageVars, delivered, held, open, life, ready, stamped, quarantined, lostDevice>>

\* All regions are published, or an event could not be made: the capture ends.
EndResolve(c) ==
    /\ LifeGoes(c, "resolving", "releasing")
    /\ UNCHANGED <<pageVars, eventVars, held, open, resolved, ready, stamped, quarantined, lostDevice>>

ReleaseCapture(k) ==
    /\ life[k] = "releasing"
    /\ IF held[k] # <<>> THEN ReleaseSlot(k) /\ UNCHANGED life
       ELSE life' = [life EXCEPT ![k] = "gone"] /\ UNCHANGED <<pageVars, held>>
    /\ UNCHANGED <<eventVars, open, resolved, ready, stamped, quarantined, lostDevice>>

HeldBy(k) == {held[k][i] : i \in DOMAIN held[k]}

\* The fence reports a lost device: the pairs are never lent again.
QuarantineCapture(c) ==
    /\ LifeGoes(c, "lost", "gone")
    /\ quarantined' = quarantined \cup HeldBy(c)
    /\ held' = [held EXCEPT ![c] = <<>>]
    /\ UNCHANGED <<pageVars, eventVars, open, resolved, ready, stamped, lostDevice>>

-----------------------------------------------------------------------------
(* profiled_pass_step in a recorded_graph *)

\* record; when the pass it wraps cannot be recorded, the pair goes back.
RecordGraph(g) ==
    /\ Reserve(g)
    /\ LifeGoes(g, "new", "recording") \/ LifeGoes(g, "new", "releasing")
    /\ UNCHANGED <<eventVars, open, resolved, ready, stamped, quarantined, lostDevice>>

\* recorded_graph's mark_submitted and abandon.
SubmitGraph(g) ==
    /\ LifeGoes(g, "recording", "submitted") \/ LifeGoes(g, "recording", "releasing")
    /\ UNCHANGED <<pageVars, eventVars, held, open, resolved, ready, stamped, quarantined, lostDevice>>

\* complete, first half: after_gpu resolves the region and gives its pair back.
AfterGpu(g) ==
    /\ LifeGoes(g, "executed", "committing")
    /\ ready' = [ready EXCEPT ![g] = <<Sample(g, 1)>>]
    /\ ReleaseSlot(g)
    /\ UNCHANGED <<eventVars, open, resolved, stamped, quarantined, lostDevice>>

\* complete, second half: commit_after_gpu publishes, unless an earlier pass's
\* throws.
CommitAfterGpu(g) ==
    /\ LifeGoes(g, "committing", "gone")
    /\ ready' = [ready EXCEPT ![g] = <<>>]
    /\ \/ Published(ready[g][1]) /\ resolved' = [resolved EXCEPT ![g] = 1]
       \/ UNCHANGED <<events, dropped, resolved>>
    /\ UNCHANGED <<pageVars, delivered, held, open, stamped, quarantined, lostDevice>>

\* The graph's owner gives up on a submission that the device lost.
DropLostGraph(g) ==
    /\ LifeGoes(g, "lost", "releasing")
    /\ UNCHANGED <<pageVars, eventVars, held, open, resolved, ready, stamped, quarantined, lostDevice>>

-----------------------------------------------------------------------------
(* The GPU *)

\* It executes what a recorder submitted, and signals its fence.
ExecuteRegions(k) ==
    /\ ~ lostDevice
    /\ LifeGoes(k, "submitted", "executed")
    /\ stamped' = [q \in Pairs |->
                    IF \E i \in DOMAIN held[k] : held[k][i] = q
                    THEN <<k, CHOOSE i \in DOMAIN held[k] : held[k][i] = q>>
                    ELSE stamped[q]]
    /\ UNCHANGED <<pageVars, eventVars, held, open, resolved, ready, quarantined, lostDevice>>

LoseQueries ==
    /\ ~ lostDevice /\ \E k \in Recorders : life[k] = "submitted"
    /\ lostDevice' = TRUE
    /\ UNCHANGED <<pageVars, eventVars, holderVars, stamped, quarantined>>

FenceLost(k) ==
    /\ lostDevice /\ LifeGoes(k, "submitted", "lost")
    /\ UNCHANGED <<pageVars, eventVars, held, open, resolved, ready, stamped, quarantined, lostDevice>>

CaptureStep(c) ==
    CreateCapture(c) \/ OpenRegion(c) \/ CloseRegion(c) \/ MarkSubmitted(c) \/ ResolveCapture(c)
    \/ PublishRegion(c) \/ EndResolve(c) \/ QuarantineCapture(c)
GraphStep(g) ==
    RecordGraph(g) \/ SubmitGraph(g) \/ AfterGpu(g) \/ CommitAfterGpu(g) \/ DropLostGraph(g)

ProfilerNext ==
    \/ \E c \in Captures : CaptureStep(c)
    \/ \E g \in Graphs : GraphStep(g)
    \/ \E k \in Recorders : ReleaseCapture(k) \/ ExecuteRegions(k) \/ FenceLost(k)
    \/ TakeCompleted \/ LoseQueries

ProfilerSpec == ProfilerInit /\ [][ProfilerNext]_profilerVars

-----------------------------------------------------------------------------
(* Properties *)

MadePairs == (1 .. Len(pages)) \X (1 .. PairsPerPage)
FreeAt(q) == {i \in DOMAIN freePairs[q[1]] : freePairs[q[1]][i] = q[2]}
HeldAt(q) == {r \in Regions : r[2] \in DOMAIN held[r[1]] /\ held[r[1]][r[2]] = q}

\* Every query pair is in one place: free once, lent to one region, or out of
\* use for good; in_flight_ counts those that are not free, within its limit.
PairsInOnePlace ==
    /\ \A q \in MadePairs :
        Cardinality(FreeAt(q)) + Cardinality(HeldAt(q)) + (IF q \in quarantined THEN 1 ELSE 0) = 1
    /\ lent = Cardinality({q \in MadePairs : FreeAt(q) = {}})
    /\ lent <= MaxInFlight

\* An event with timestamps has those of its own region, and not what another
\* region left in the pair before the GPU came to reset it.
OwnTimestamps ==
    \A i \in DOMAIN events : events[i].stamp \in {Nobody, events[i].region}

Resolved == {r \in Regions : r[2] <= resolved[r[1]]}

\* Each region that was resolved and published is delivered, waits in the list,
\* or is counted as dropped; the list keeps its bound, and no region is in it
\* twice.
EventsAccounted ==
    /\ delivered + Len(events) + dropped = Cardinality(Resolved)
    /\ Len(events) <= MaxCompleted
    /\ \A i, j \in DOMAIN events : i # j => events[i].region # events[j].region

\* Every query pair and every region is accounted for: a pair is in one place,
\* its timestamps go to the region that wrote them, and each event is
\* delivered, waiting or counted as dropped.
QueriesAccounted == PairsInOnePlace /\ OwnTimestamps /\ EventsAccounted
=============================================================================
