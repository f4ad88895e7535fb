---------------------------- MODULE DescriptorSets ----------------------------
(***************************************************************************)
(* Resource tables, pipelines and descriptor sets: which slots a pipeline  *)
(* has, what is written into its sets, and the binding that compute_pass   *)
(* and draws record with. A binding whose metadata is "complete" tells the *)
(* resource tracker everything that the shader touches; then the graph     *)
(* needs no list of uses from its author.                                  *)
(*                                                                         *)
(* A resource is its kind and whether it can be tracked: a buffer with a   *)
(* size, an image with its range and not its view alone.                   *)
(***************************************************************************)
EXTENDS Integers, Sequences, FiniteSets, SequencesExt

CONSTANTS Slots,       \* slots that shaders name
          Accesses,    \* what a binding may do: buffer_access
          SetIds,      \* the sets of a pipeline's pool
          MaxBindings  \* bound: bindings in a pipeline, entries in a table

ASSUME DescriptorsAssumption ==
    /\ Slots \subseteq Nat
    /\ Accesses \subseteq {"readonly", "writeonly", "readwrite"}
    /\ "none" \notin SetIds /\ MaxBindings \in Nat

VARIABLES pipe,    \* the pipeline
          table,   \* the resource_table that the caller binds
          schema,  \* the descriptor_schema of both, <<>> if they have none
          holder,  \* of each set: "pool", "caller", "step" or, leaked, "lost"
          written, \* the sets into which the table is written
          bind     \* the binding that the caller has made last

setVars == <<pipe, table, schema, holder, written, bind>>

-----------------------------------------------------------------------------
(* Tables, schemas and pipelines *)

ResourceKinds == {"storage_buffer", "storage_image", "sampled_image", "sampler"}

\* buffer_resource, storage_image_resource, sampled_image_resource and
\* sampler_resource; a sampler needs no tracking.
Resources(kind) == [kind : {kind}, tracked : IF kind = "sampler" THEN {TRUE} ELSE BOOLEAN]

ResourceTables ==
    BoundedSeq([slot : Slots, resource : UNION {Resources(k) : k \in ResourceKinds}],
               MaxBindings)

Pipeline(binds, accesses, slots, kinds) ==
    [binds |-> binds, opaque |-> binds = "heap", accesses |-> accesses,
     slots |-> slots, kinds |-> kinds,
     count |-> IF binds = "graphics" THEN Len(slots) ELSE Len(accesses)]

\* make_compute_bindings: a layout_desc may leave out slots and kinds.
ComputePipelines ==
    {Pipeline("compute", l[1], l[2], l[3]) :
        l \in {l \in BoundedSeq(Accesses, MaxBindings) \X BoundedSeq(Slots, MaxBindings)
                         \X BoundedSeq(ResourceKinds, MaxBindings) :
                Len(l[2]) \in {0, Len(l[1])} /\ Len(l[3]) \in {0, Len(l[1])}}}

\* create of a graphics pipeline, whose layout is that of a table.
GraphicsPipelines ==
    {Pipeline("graphics", <<>>, [i \in DOMAIN t |-> t[i].slot],
              [i \in DOMAIN t |-> t[i].resource.kind]) : t \in ResourceTables}

\* create with descriptor_heap: no layout, and nothing known of the shader.
HeapPipeline == Pipeline("heap", <<>>, <<>>, <<>>)

\* A descriptor_schema: its slots are unique and sorted.
Schemas ==
    {s \in BoundedSeq([slot : Slots, kind : ResourceKinds, access : Accesses], MaxBindings) :
        /\ \A i, j \in DOMAIN s : i < j => s[i].slot < s[j].slot
        /\ \A i \in DOMAIN s :
            s[i].access = CASE s[i].kind = "storage_image" -> "readwrite"
                            [] s[i].kind = "storage_buffer" -> s[i].access
                            [] OTHER -> "readonly"}

\* layout_desc_from_schema, and the pipeline that is created with it.
SchemaPipeline(s) ==
    Pipeline("compute", [i \in DOMAIN s |-> s[i].access], [i \in DOMAIN s |-> s[i].slot],
             [i \in DOMAIN s |-> s[i].kind])

\* make_resource_table: slots and kinds are those of the schema.
SchemaTables(s) ==
    {t \in [DOMAIN s -> [slot : Slots, resource : UNION {Resources(k) : k \in ResourceKinds}]] :
        \A i \in DOMAIN s : t[i].slot = s[i].slot /\ t[i].resource.kind = s[i].kind}

NoBind == [set |-> "none", metadata |-> "none", uses |-> <<>>, described |-> FALSE]

SetsInit ==
    /\ \/ /\ schema = <<>>
          /\ pipe \in ComputePipelines \cup GraphicsPipelines \cup {HeapPipeline}
          /\ table \in ResourceTables
       \/ /\ schema \in Schemas \ {<<>>}
          /\ pipe = SchemaPipeline(schema)
          /\ table \in SchemaTables(schema)
    /\ holder = [s \in SetIds |-> "pool"]
    /\ written = {}
    /\ bind = NoBind

-----------------------------------------------------------------------------
(* bind_compute and bind_graphics *)

\* Without a table: only a pipeline without bindings is known.
BindSet(s) ==
    [NoBind EXCEPT !.set = s,
                   !.metadata = IF ~pipe.opaque /\ pipe.count = 0 THEN "complete" ELSE "none"]

\* binding_index: the first binding at the slot; the slot itself without slots.
BindingIndex(slot) ==
    IF pipe.slots = <<>> /\ pipe.binds # "graphics" THEN {slot + 1} \cap (1 .. pipe.count)
    ELSE {i \in DOMAIN pipe.slots :
            pipe.slots[i] = slot /\ \A j \in 1 .. i - 1 : pipe.slots[j] # slot}

BindingKind(i) == IF pipe.kinds = <<>> THEN "storage_buffer" ELSE pipe.kinds[i]

\* What the shader may do at a binding; draws may do anything with storage.
BindingAccess(i) ==
    IF pipe.binds = "compute" THEN pipe.accesses[i]
    ELSE IF pipe.kinds[i] = "sampled_image" THEN "readonly" ELSE "readwrite"

Partial(b) == [b EXCEPT !.metadata = "partial"]

\* append_resource_use.
AppendResourceUse(b, resource, access) ==
    CASE resource.kind = "sampler" -> b
      [] resource.kind # "sampler"
         /\ (~resource.tracked \/ (resource.kind = "sampled_image" /\ access # "readonly")) ->
            Partial(b)
      [] OTHER -> [b EXCEPT !.uses = Append(@, [kind |-> resource.kind, access |-> access])]

\* Mutant: kinds are not compared.
BindEntry_AnyKind(acc, entry) ==
    LET found == BindingIndex(entry.slot) \ acc.seen
        i == CHOOSE i \in found : TRUE
    IN  IF found = {} THEN [acc EXCEPT !.bind = Partial(@)]
        ELSE [seen |-> acc.seen \cup {i},
              bind |-> AppendResourceUse(acc.bind, entry.resource, BindingAccess(i))]

\* One entry of the table, and the bindings seen so far.
BindEntry(acc, entry) ==
    LET found == BindingIndex(entry.slot) \ acc.seen
        i == CHOOSE i \in found : TRUE
    IN  CASE found = {} -> [acc EXCEPT !.bind = Partial(@)]
          [] found # {} /\ BindingKind(i) # entry.resource.kind ->
                [seen |-> IF pipe.binds = "graphics" THEN acc.seen ELSE acc.seen \cup {i},
                 bind |-> Partial(acc.bind)]
          [] OTHER -> [seen |-> acc.seen \cup {i},
                       bind |-> AppendResourceUse(acc.bind, entry.resource, BindingAccess(i))]

\* With a table: its uses are retained for the graph's plan. bound[n] is what
\* the loop over the table has after n entries.
BindTable(s) ==
    LET sized == ~pipe.opaque /\ Len(table) = pipe.count
        start == [BindSet(s) EXCEPT !.metadata = IF sized THEN "complete" ELSE "partial",
                                    !.described = TRUE]
        bound[n \in 0 .. Len(table)] ==
            IF n = 0 THEN [seen |-> {}, bind |-> start]
            ELSE BindEntry(bound[n - 1], table[n])
        end == bound[Len(table)]
    IN  IF end.seen = 1 .. pipe.count THEN end.bind ELSE Partial(end.bind)

-----------------------------------------------------------------------------
(* The sets of the pipeline's pool; allocation may also fail *)

Fits == Len(table) = pipe.count
OfBuffers == \A i \in DOMAIN table : table[i].resource.kind = "storage_buffer"

\* allocate_compute_set, for the caller.
AllocateSet(s) ==
    /\ holder[s] = "pool" /\ pipe.binds # "heap"
    /\ holder' = [holder EXCEPT ![s] = "caller"]
    /\ written' = written \ {s}
    /\ UNCHANGED <<pipe, table, schema, bind>>

\* owned::compute_pipeline::update_set, of a table or of storage buffers.
UpdateSet(s) ==
    /\ holder[s] = "caller" /\ Fits
    /\ written' = written \cup {s}
    /\ UNCHANGED <<pipe, table, schema, holder, bind>>

\* free_compute_set; the caller forgets its binding.
FreeSet(s) ==
    /\ holder[s] = "caller"
    /\ holder' = [holder EXCEPT ![s] = "pool"]
    /\ bind' = IF bind.set = s THEN NoBind ELSE bind
    /\ UNCHANGED <<pipe, table, schema, written>>

\* bind_resources_factory frees the set when the update fails.
BindResourcesFactory(s) ==
    /\ holder[s] = "pool" /\ pipe.binds = "compute"
    /\ IF Fits
       THEN /\ holder' = [holder EXCEPT ![s] = "caller"]
            /\ written' = written \cup {s}
            /\ bind' = BindTable(s)
       ELSE UNCHANGED <<holder, written, bind>>
    /\ UNCHANGED <<pipe, table, schema>>

\* bind_storage_factory does not.
BindStorageFactory(s) ==
    /\ holder[s] = "pool" /\ pipe.binds = "compute" /\ OfBuffers
    /\ IF Fits
       THEN /\ holder' = [holder EXCEPT ![s] = "caller"]
            /\ written' = written \cup {s}
            /\ bind' = BindTable(s)
       ELSE /\ holder' = [holder EXCEPT ![s] = "lost"]
            /\ written' = written \ {s}
            /\ UNCHANGED bind
    /\ UNCHANGED <<pipe, table, schema>>

\* bind_compute, bind_graphics: the table describes what the set holds.
MakeBind(s) ==
    /\ s = "none" \/ (s \in SetIds /\ holder[s] = "caller")
    /\ \/ s \in written /\ bind' = BindTable(s)
       \/ bind' = BindSet(s)
    /\ UNCHANGED <<pipe, table, schema, holder, written>>

\* set_descriptor_backend::lower, in a bind_resources step that may have been
\* recorded before: the set of that time is freed first.
RecordBindStep(s) ==
    LET released == [t \in SetIds |-> IF holder[t] = "step" THEN "pool" ELSE holder[t]]
    IN  /\ pipe.binds = "compute" /\ released[s] = "pool"
        /\ IF Fits
           THEN holder' = [released EXCEPT ![s] = "step"] /\ written' = written \cup {s}
           ELSE holder' = released /\ UNCHANGED written
        /\ UNCHANGED <<pipe, table, schema, bind>>

\* release_bind_resources_step, after the GPU is done.
ReleaseBindStep ==
    /\ \E s \in SetIds : holder[s] = "step"
    /\ holder' = [s \in SetIds |-> IF holder[s] = "step" THEN "pool" ELSE holder[s]]
    /\ UNCHANGED <<pipe, table, schema, written, bind>>

SetsNext ==
    \/ \E s \in SetIds :
        \/ AllocateSet(s) \/ UpdateSet(s) \/ FreeSet(s)
        \/ BindResourcesFactory(s) \/ BindStorageFactory(s) \/ RecordBindStep(s)
    \/ \E s \in SetIds \cup {"none"} : MakeBind(s)
    \/ ReleaseBindStep

SetsSpec == SetsInit /\ [][SetsNext]_setVars

-----------------------------------------------------------------------------
(* Properties *)

\* The table and the shader agree: each binding has one entry, of its kind and
\* fit for the tracker, and no entry is beside the bindings.
Agree ==
    /\ ~pipe.opaque /\ Fits
    /\ \E place \in [1 .. pipe.count -> DOMAIN table] :
        \A i \in 1 .. pipe.count :
            LET entry == table[place[i]]
                slot == IF pipe.slots = <<>> THEN i - 1 ELSE pipe.slots[i]
            IN  /\ entry.slot = slot /\ entry.resource.kind = BindingKind(i)
                /\ entry.resource.tracked
                /\ entry.resource.kind = "sampled_image" => BindingAccess(i) = "readonly"
                /\ \A k \in DOMAIN table : table[k].slot = slot => k = place[i]
                /\ \A j \in 1 .. pipe.count : place[j] = place[i] => j = i

\* What the tracker has to be told.
Touched ==
    {i \in 1 .. pipe.count : BindingKind(i) # "sampler"}

\* Metadata is complete just when table and shader agree, and then the uses are
\* all that the shader does: nothing escapes the graph's barriers, a slot named
\* twice, missing or of another kind is noticed, and a pipeline and a table of
\* one schema always agree once the resources can be tracked.
MetadataTruthful ==
    /\ bind.described => (bind.metadata = "complete" <=> Agree)
    /\ ~bind.described /\ bind.metadata = "complete" => ~pipe.opaque /\ Touched = {}
    /\ bind.metadata = "complete" /\ bind.described =>
        /\ Len(bind.uses) = Cardinality(Touched)
        /\ \A i \in Touched : \E u \in Range(bind.uses) :
            u = [kind |-> BindingKind(i), access |-> BindingAccess(i)]
        /\ bind.set \in SetIds => bind.set \in written /\ holder[bind.set] = "caller"
    /\ schema # <<>> /\ bind.described /\ (\A i \in DOMAIN table : table[i].resource.tracked) =>
        bind.metadata = "complete"
=============================================================================
