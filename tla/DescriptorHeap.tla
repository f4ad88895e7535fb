---------------------------- MODULE DescriptorHeap ----------------------------
(***************************************************************************)
(* Resource tables lowered into descriptor heaps: the layout that the      *)
(* device asks for, the two heaps, and bind_resources steps that write     *)
(* their descriptors into mapped memory when they are recorded.            *)
(*                                                                         *)
(* Memory is a function from bytes to what was written there: <<step,      *)
(* kind, what>> for a descriptor, what being the entry for which the       *)
(* caller meant the buffer, view or sampler. The mapped range is the whole *)
(* heap, with the range at its end that the device keeps for itself.       *)
(***************************************************************************)
EXTENDS Integers, Sequences, FiniteSets, SequencesExt

CONSTANTS Devices,     \* what devices say: sizes of descriptors, alignments or 0
          HeapSlots,   \* the descriptors that each heap is made for
          MaxEntries   \* bound: entries in the tables of both steps

ASSUME HeapAssumption ==
    /\ Devices \subseteq [buffer : Nat, image : Nat, sampler : Nat, descriptor : Nat,
                          heap : Nat, reserved : Nat]
    /\ HeapSlots \in Nat \ {0} /\ MaxEntries \in Nat

VARIABLES props,   \* of the device: VkPhysicalDeviceDescriptorHeapPropertiesEXT
          layout,  \* descriptor_heap_layout, NoLayout before it is asked for
          heaps,   \* the mapped bytes of each heap, <<>> before it is made
          tables,  \* the table of each step
          given,   \* the index that the caller has given to each entry
          lowered  \* of each step: "not yet", "failed" or "lowered", with its heap_index_map

heapVars == <<props, layout, heaps, tables, given, lowered>>

NoLayout == [stride |-> 0]
Nothing == <<0, "", 0>>
HeapSteps == {1, 2}
HeapKinds == {"storage_buffer", "storage_image", "sampled_image", "sampler"}
Images == {"storage_image", "sampled_image"}
NotSamplers == HeapKinds \ {"sampler"}
HeapOf(kind) == IF kind = "sampler" THEN "sampler" ELSE "resource"

HeapInit ==
    /\ props \in Devices
    /\ tables \in [HeapSteps -> BoundedSeq([slot : 0 .. MaxEntries - 1, kind : HeapKinds], MaxEntries)]
    /\ Len(tables[1]) + Len(tables[2]) <= MaxEntries
    /\ layout = NoLayout
    /\ heaps = [h \in {"resource", "sampler"} |-> <<>>]
    /\ given = [s \in HeapSteps |-> <<>>]
    /\ lowered = [s \in HeapSteps |-> [state |-> "not yet", map |-> <<>>]]

-----------------------------------------------------------------------------
(* descriptor_heap.cpp, buffer.hpp *)

AlignUp(value, alignment) ==
    IF alignment = 0 THEN value
    ELSE ((value + alignment - 1) \div alignment) * alignment

\* Mutant: buffers alone decide how far apart the slots are.
QueryLayout_Buffers ==
    /\ layout = NoLayout
    /\ props.buffer # 0 /\ props.sampler # 0
    /\ AlignUp(props.buffer, props.descriptor) = props.buffer
    /\ layout' = [stride |-> props.buffer]
    /\ UNCHANGED <<props, heaps, tables, given, lowered>>

\* query_descriptor_heap_layout: both kinds of descriptors share the slots. A
\* device for which that cannot be is refused.
QueryLayout ==
    LET stride == IF props.buffer > props.image THEN props.buffer ELSE props.image
    IN  /\ layout = NoLayout
        /\ stride # 0 /\ props.sampler # 0
        /\ AlignUp(stride, props.descriptor) = stride
        /\ layout' = [stride |-> stride]
        /\ UNCHANGED <<props, heaps, tables, given, lowered>>

\* The size of a descriptor, and the distance between two in their heap.
SizeOf(kind) ==
    CASE kind = "sampler" -> props.sampler
      [] kind \in Images -> props.image
      [] OTHER -> props.buffer
Stride(heap) == IF heap = "sampler" THEN props.sampler ELSE layout.stride

\* descriptor_heap_byte_size and sampler_heap_byte_size: the reserved range
\* comes last.
ReservedOffset(heap) == AlignUp(Stride(heap) * HeapSlots, props.heap)
ByteSize(heap) == ReservedOffset(heap) + props.reserved

\* make_descriptor_heap_buffer; an allocation that is too small is refused.
MakeHeap(heap) ==
    /\ layout # NoLayout /\ heaps[heap] = <<>> /\ ByteSize(heap) > 0
    /\ heap = "sampler" => heaps["resource"] # <<>>
    /\ heaps' = [heaps EXCEPT ![heap] = [b \in 1 .. ByteSize(heap) |-> Nothing]]
    /\ UNCHANGED <<props, layout, tables, given, lowered>>

-----------------------------------------------------------------------------
(* heap_descriptor_backend::lower: strategy.cpp *)

\* The entries of some kinds, in table order; of[n] are those of the first n.
EntriesOf(s, kinds) ==
    LET of[n \in 0 .. Len(tables[s])] ==
            IF n = 0 THEN <<>>
            ELSE IF tables[s][n].kind \in kinds THEN Append(of[n - 1], n) ELSE of[n - 1]
    IN  of[Len(tables[s])]

\* heap_table_lower_env: indices of all entries but samplers, and of samplers;
\* views of images and infos of samplers, each meant for one entry.
Env(s, index) ==
    [indices  |-> [n \in DOMAIN EntriesOf(s, NotSamplers) |-> index[EntriesOf(s, NotSamplers)[n]]],
     samplers |-> [n \in DOMAIN EntriesOf(s, {"sampler"}) |-> index[EntriesOf(s, {"sampler"})[n]]],
     views    |-> EntriesOf(s, Images),
     infos    |-> EntriesOf(s, {"sampler"})]

\* What lower compares before it writes.
Matches(s, env) ==
    /\ Len(env.indices) = Len(tables[s]) - Len(EntriesOf(s, {"sampler"}))
    /\ Len(env.samplers) = Len(EntriesOf(s, {"sampler"})) /\ Len(env.infos) = Len(env.samplers)
    /\ Len(env.views) = Len(EntriesOf(s, Images))

\* descriptor_destination: the bytes at an index, {} if they are not mapped.
Destination(kind, index) ==
    LET offset == index * Stride(HeapOf(kind))
    IN  IF SizeOf(kind) = 0 \/ offset + SizeOf(kind) > Len(heaps[HeapOf(kind)]) THEN {}
        ELSE offset + 1 .. offset + SizeOf(kind)

Start == [ok |-> TRUE, heaps |-> heaps, map |-> <<>>, resource |-> 1, image |-> 1, sampler |-> 1]

\* lower_entry of entry p, which the device may fail to write. Each position
\* advances with the entries of its kind.
LowerEntry(s, env, failing, acc, p) ==
    LET entry == tables[s][p]
        sampler == entry.kind = "sampler"
        index == IF sampler THEN env.samplers[acc.sampler] ELSE env.indices[acc.resource]
        what == CASE sampler -> env.infos[acc.sampler]
                  [] entry.kind \in Images -> env.views[acc.image]
                  [] OTHER -> p
        bytes == Destination(entry.kind, index)
        count(condition) == IF condition THEN 1 ELSE 0
    IN  IF \/ ~acc.ok \/ p = failing
           \/ \E n \in DOMAIN acc.map : acc.map[n].slot = entry.slot
           \/ bytes = {}
        THEN [acc EXCEPT !.ok = FALSE]
        ELSE [ok |-> TRUE,
              heaps |-> [acc.heaps EXCEPT ![HeapOf(entry.kind)] =
                            [b \in DOMAIN @ |-> IF b \in bytes THEN <<s, entry.kind, what>>
                                                ELSE @[b]]],
              map |-> Append(acc.map, [slot |-> entry.slot, index |-> index]),
              resource |-> acc.resource + count(~sampler),
              image |-> acc.image + count(entry.kind \in Images),
              sampler |-> acc.sampler + count(sampler)]

\* lower: the entries one after the other; after[n] is what the first n leave.
Lower(s, env, failing) ==
    LET after[n \in 0 .. Len(tables[s])] ==
            IF n = 0 THEN Start ELSE LowerEntry(s, env, failing, after[n - 1], n)
    IN  after[Len(tables[s])]

\* Callers give every descriptor of a heap an index of its own.
OwnIndices(s, index) ==
    \A p \in DOMAIN tables[s], t \in HeapSteps : \A q \in DOMAIN given[t] :
        HeapOf(tables[s][p].kind) = HeapOf(tables[t][q].kind) => index[p] # given[t][q]

\* record_descriptor_heap_bind_resources_step. The caller's arrays may be too
\* short, an index may be one too large; what a failed step has written stays.
RecordHeapStep(s) ==
    /\ lowered[s].state = "not yet" /\ heaps["sampler"] # <<>>
    /\ \E index \in [DOMAIN tables[s] -> 0 .. HeapSlots],
          failing \in 0 .. Len(tables[s]), short \in BOOLEAN :
        LET all == Env(s, index)
            env == IF short THEN [all EXCEPT !.indices = Tail(@)] ELSE all
            end == Lower(s, env, failing)
        IN  /\ \A p, q \in DOMAIN index :
                p # q /\ HeapOf(tables[s][p].kind) = HeapOf(tables[s][q].kind) =>
                    index[p] # index[q]
            /\ OwnIndices(s, index)
            /\ short => all.indices # <<>> /\ failing = 0
            /\ given' = [given EXCEPT ![s] = index]
            /\ IF Matches(s, env) /\ end.ok
               THEN /\ lowered' = [lowered EXCEPT ![s] = [state |-> "lowered", map |-> end.map]]
                    /\ heaps' = end.heaps
               ELSE /\ lowered' = [lowered EXCEPT ![s].state = "failed"]
                    /\ heaps' = IF Matches(s, env) THEN end.heaps ELSE heaps
    /\ UNCHANGED <<props, layout, tables>>

HeapNext ==
    \/ QueryLayout
    \/ \E heap \in {"resource", "sampler"} : MakeHeap(heap)
    \/ \E s \in HeapSteps : RecordHeapStep(s)

HeapSpec == HeapInit /\ [][HeapNext]_heapVars

-----------------------------------------------------------------------------
(* Properties *)

\* heap_index_map::index_for; maps name a slot once.
IndexFor(map, slot) == {map[n].index : n \in {n \in DOMAIN map : map[n].slot = slot}}

\* What a shader finds at the index of a slot is the descriptor of that slot's
\* entry, whatever was lowered before or after it or failed half way, and no
\* byte of the range that belongs to the device is written, as long as callers
\* keep to the slots that the heap was made for.
HeapFaithful ==
    /\ \A s \in HeapSteps : lowered[s].state = "lowered" =>
        \A p \in DOMAIN tables[s] :
            LET entry == tables[s][p]
            IN  /\ IndexFor(lowered[s].map, entry.slot) = {given[s][p]}
                /\ \A b \in Destination(entry.kind, given[s][p]) :
                    heaps[HeapOf(entry.kind)][b] = <<s, entry.kind, p>>
    /\ (\A s \in HeapSteps : \A p \in DOMAIN given[s] : given[s][p] < HeapSlots) =>
        \A h \in DOMAIN heaps : \A b \in DOMAIN heaps[h] :
            b > ReservedOffset(h) => heaps[h][b] = Nothing
=============================================================================
