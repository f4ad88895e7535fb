------------------------------ MODULE Transfers ------------------------------
(***************************************************************************)
(* Data on its way between host and device: tensors with their mirror on   *)
(* the host, a mapped staging buffer and a device buffer, the pass steps   *)
(* and calls that copy between them, and the barriers these record.        *)
(*                                                                         *)
(* Commands of one queue may overlap and see stale data unless barriers    *)
(* order them. An access that the host has not waited for keeps the stages *)
(* that come after it; a write also whether it is available, and to which  *)
(* accesses it is visible. The host's wait for a fence, and the submission *)
(* that follows, order everything.                                         *)
(***************************************************************************)
EXTENDS Integers, Sequences, FiniteSets, SequencesExt

CONSTANTS MaxTransfers,    \* bound: passes and calls
          MaxGraphs    \* bound: graphs in flight

ASSUME TransfersAssumption == {MaxTransfers, MaxGraphs} \subseteq Nat \ {0}

VARIABLES backend,   \* synchronization_backend
          coherent,  \* is the staging memory coherent, which it need not be?
          mem,       \* values: the mirror, the mapped bytes, both buffers
          want,      \* what mirror and device hold when all runs one by one
          accesses,  \* what the GPU has been told to do and nobody waited for
          graph,     \* the graph that is being recorded
          inflight,  \* graphs that have been submitted
          last,      \* the last pass that nobody waited for, and what came since
          faults,    \* history: "race", "unflushed"
          taken      \* passes and calls so far

transferVars == <<backend, coherent, mem, want, accesses, graph, inflight, last, faults, taken>>

NoPass == [pass |-> "none", barriers |-> {}]

TransferInit ==
    /\ backend \in {"sync2", "legacy"} /\ coherent \in BOOLEAN
    /\ mem = [mirror |-> 1, mapped |-> 1, staging |-> 1, device |-> 0]
    /\ want = [mirror |-> 1, device |-> 0]
    /\ accesses = {} /\ graph = <<>> /\ inflight = <<>> /\ last = NoPass
    /\ faults = {} /\ taken = 0

-----------------------------------------------------------------------------
(* barrier.cpp. A scope is a set of stages and a set of accesses; the masks  *)
(* of synchronization2 are finer than the legacy ones.                       *)

LegacyStage(stage) == IF stage \in {"copy", "blit", "all_transfer"} THEN "transfer" ELSE stage
LegacyAccess(access) ==
    CASE access \in {"sampled_read", "storage_read"} -> "shader_read"
      [] access = "storage_write" -> "shader_write"
      [] OTHER -> access

\* The stages and accesses that a mask stands for.
Stages(mask) ==
    UNION {IF s \in {"transfer", "all_transfer"} THEN {"copy", "blit"} ELSE {s} : s \in mask}
AccessesIn(mask) ==
    UNION {CASE a = "shader_read" -> {"sampled_read", "storage_read"}
             [] a = "shader_write" -> {"storage_write"}
             [] OTHER -> {a} : a \in mask}

Barrier(src, from, dst, to, buffers) ==
    [src |-> Stages(src), from |-> AccessesIn(from), dst |-> Stages(dst), to |-> AccessesIn(to),
     buffers |-> buffers]

\* memory_barrier and buffer_barrier, by either command.
AsRecorded(src, from, dst, to, buffers) ==
    IF backend = "sync2" THEN Barrier(src, from, dst, to, buffers)
    ELSE Barrier({LegacyStage(s) : s \in src}, {LegacyAccess(a) : a \in from},
                 {LegacyStage(s) : s \in dst}, {LegacyAccess(a) : a \in to}, buffers)

Both == {"staging", "device"}
ShaderAccess == {"shader_read", "shader_write"}

TransferToCompute ==
    AsRecorded({"all_transfer"}, {"transfer_write"}, {"compute"}, ShaderAccess, Both)
ComputeToCompute ==
    AsRecorded({"compute"}, {"shader_write"}, {"compute", "indirect"},
            ShaderAccess \cup {"indirect_read"}, Both)
ComputeToGraphics ==
    AsRecorded({"compute"}, {"shader_write"}, {"indirect", "vertex", "fragment"},
            {"indirect_read", "shader_read"}, Both)
GraphicsToCompute ==
    AsRecorded({"vertex", "fragment"}, {"shader_read"}, {"compute"}, {"shader_write"}, Both)
ComputeRead ==
    AsRecorded({"compute"}, {"shader_write"}, {"vertex", "compute"}, {"shader_read"}, Both)
\* barrier::buffer with parameters of the caller's.
ComputeToCopy ==
    AsRecorded({"compute"}, {"storage_write"}, {"copy"}, {"transfer_read", "transfer_write"},
            {"device"})

BarrierSteps == {"transfer_to_compute", "compute_to_compute", "compute_to_graphics",
                 "graphics_to_compute", "compute_read", "buffer"}
Recorded(step) ==
    CASE step = "transfer_to_compute" -> TransferToCompute
      [] step = "compute_to_compute" -> ComputeToCompute
      [] step = "compute_to_graphics" -> ComputeToGraphics
      [] step = "graphics_to_compute" -> GraphicsToCompute
      [] step = "compute_read" -> ComputeRead
      [] OTHER -> ComputeToCopy

-----------------------------------------------------------------------------
(* What a barrier and a command do to the accesses before them *)

Order(set, b) ==
    {LET matched == ({a.stage} \cup a.after) \cap b.src # {}
         avail == a.avail \/ (matched /\ a.write /\ a.buffer \in b.buffers /\ a.access \in b.from)
     IN  [a EXCEPT !.after = IF matched THEN @ \cup b.dst ELSE @,
                   !.avail = avail,
                   !.visible = IF matched /\ avail /\ a.buffer \in b.buffers
                               THEN @ \cup (b.dst \X b.to) ELSE @] : a \in set}

OrderAll(set, barriers) == FoldLeft(Order, set, barriers)

Access(buffer, stage, access, write) ==
    [buffer |-> buffer, stage |-> stage, access |-> access, write |-> write, after |-> {},
     avail |-> FALSE, visible |-> {}, graph |-> Len(inflight) + 1]

\* A command with these accesses races with one before it.
Races(set, new) ==
    \E a \in set, n \in new :
        /\ a.buffer = n.buffer /\ (a.write \/ n.write)
        /\ n.stage \notin a.after \/ (a.write /\ <<n.stage, n.access>> \notin a.visible)

\* A write takes the place of all that it comes after.
Perform(set, new) ==
    LET written == {n.buffer : n \in {n \in new : n.write}}
    IN  {a \in set : a.buffer \notin written}
        \cup {n \in new : n.write \/ n.buffer \notin written}

Copy(from, to) ==
    {Access(from, "copy", "transfer_read", FALSE), Access(to, "copy", "transfer_write", TRUE)}
Dispatch ==
    {Access("device", "compute", "storage_read", FALSE),
     Access("device", "compute", "storage_write", TRUE)}
Fill == {Access("device", "compute", "storage_write", TRUE)}
Draw == {Access("device", "vertex", "storage_read", FALSE)}

HostToTransfer ==
    <<Barrier({"host"}, {"host_write"}, {"transfer"}, {"transfer_read"}, {"staging"}),
      Barrier({"host"}, {}, {"transfer"}, {"transfer_write"}, {"device"})>>
TransferToHost ==
    <<Barrier({"transfer"}, {"transfer_write"}, {"host"}, {"host_read"}, {"staging"})>>

\* Mutant: only copies come before the copy to the host.
BeforeToHost_NoCompute ==
    <<Barrier({"transfer"}, {"shader_write", "transfer_write"}, {"transfer"},
              {"transfer_read"}, {"device"}),
      Barrier({"transfer"}, {}, {"transfer"}, {"transfer_write"}, {"staging"})>>

\* The barriers that sync_to_host records before its copy.
BeforeToHost ==
    <<Barrier({"compute", "transfer"}, {"shader_write", "transfer_write"}, {"transfer"},
              {"transfer_read"}, {"device"}),
      Barrier({"compute", "transfer"}, {}, {"transfer"}, {"transfer_write"}, {"staging"})>>

\* The passes: make_sync_to_device_step and make_sync_to_host_step, a dispatch
\* that updates the device buffer, one that fills it, a draw that reads it.
Passes == {"sync_to_device", "sync_to_host", "compute", "fill", "draw"}
Before(pass) ==
    CASE pass = "sync_to_device" -> HostToTransfer
      [] pass = "sync_to_host" -> BeforeToHost
      [] OTHER -> <<>>
AccessesOf(pass) ==
    CASE pass = "sync_to_device" -> Copy("staging", "device")
      [] pass = "sync_to_host" -> Copy("device", "staging")
      [] pass = "compute" -> Dispatch
      [] pass = "fill" -> Fill
      [] OTHER -> Draw
After(pass) ==
    CASE pass = "sync_to_device" -> <<TransferToCompute>>
      [] pass = "sync_to_host" -> TransferToHost
      [] OTHER -> <<>>

\* What a pass computes, and what callers expect of it.
Computed(m, pass) ==
    CASE pass = "compute" -> [m EXCEPT !.device = @ + 10]
      [] pass = "fill" -> [m EXCEPT !.device = 5]
      [] OTHER -> m
Execute(m, pass) ==
    CASE pass = "sync_to_device" -> [m EXCEPT !.device = m.staging]
      [] pass = "sync_to_host" ->
            [m EXCEPT !.staging = m.device, !.mapped = IF coherent THEN m.device ELSE @]
      [] OTHER -> Computed(m, pass)
Expected(w, pass) ==
    CASE pass = "sync_to_device" -> [w EXCEPT !.device = w.mirror]
      [] pass = "sync_to_host" -> [w EXCEPT !.mirror = w.device]
      [] OTHER -> Computed(w, pass)

\* The host writes the staging buffer and flushes it.
HostWrites(m) == [m EXCEPT !.mapped = m.mirror, !.staging = m.mirror]

-----------------------------------------------------------------------------
(* What callers have to see to: nothing else orders a graph's passes, and    *)
(* the staging buffer is shared by all the graphs in flight. These are the   *)
(* sequences for which the steps and presets of the library are meant.       *)

Shaders == {"compute", "fill"}

OnGpu(pass) == \E g \in DOMAIN inflight : pass \in Range(inflight[g])
Unfinished(pass) == OnGpu(pass) \/ pass \in Range(graph)

Follows(pass) ==
    \/ <<last.pass, pass>> \in
         ({"sync_to_device"} \X {"compute", "fill", "sync_to_host"})
         \cup (Shaders \X {"sync_to_host"})
         \cup {<<"sync_to_host", "sync_to_host">>, <<"sync_to_host", "sync_to_device">>,
               <<"draw", "draw">>, <<"draw", "sync_to_host">>}
    \/ last.pass \in Shaders /\ pass \in Shaders /\ "compute_to_compute" \in last.barriers
    \/ last.pass = "sync_to_host" /\ pass \in Shaders /\ "transfer_to_compute" \in last.barriers
    \/ last.pass # "draw" /\ pass = "draw" /\ "compute_to_graphics" \in last.barriers
    \/ last.pass \in Shaders /\ pass = "draw" /\ "compute_read" \in last.barriers
    \/ last.pass = "draw" /\ pass = "fill" /\ "graphics_to_compute" \in last.barriers
       /\ ~Unfinished("sync_to_host")
    \/ last.pass # "draw" /\ pass = "sync_to_device" /\ "buffer" \in last.barriers

Ordered(pass) ==
    /\ last.pass = "none" \/ Follows(pass)
    /\ pass \in Shaders \cup {"sync_to_device"} /\ Unfinished("draw") => last.pass = "draw"

StagingFree(pass) ==
    /\ pass = "sync_to_device" => ~OnGpu("sync_to_device") /\ ~OnGpu("sync_to_host")
    /\ pass = "sync_to_host" => ~OnGpu("sync_to_host")

-----------------------------------------------------------------------------
(* Graphs *)

Count == /\ taken < MaxTransfers /\ faults = {} /\ taken' = taken + 1

\* The host may touch the staging buffer: nothing in flight does.
HostRaces(set, write) ==
    \E a \in set : /\ a.buffer = "staging" /\ a.graph <= Len(inflight)
                   /\ a.write \/ write

\* A pass is recorded. sync_to_device writes the staging buffer at once.
RecordPass(pass) ==
    LET ordered == OrderAll(accesses, Before(pass))
        new == AccessesOf(pass)
    IN  /\ Count /\ Len(inflight) < MaxGraphs
        /\ Ordered(pass) /\ StagingFree(pass)
        /\ mem' = IF pass = "sync_to_device" THEN HostWrites(mem) ELSE mem
        /\ faults' = IF \/ Races(ordered, new)
                        \/ pass = "sync_to_device" /\ HostRaces(accesses, TRUE)
                     THEN {"race"} ELSE {}
        /\ accesses' = OrderAll(Perform(ordered, new), After(pass))
        /\ graph' = Append(graph, pass)
        /\ want' = Expected(want, pass)
        /\ last' = [pass |-> pass, barriers |-> {}]
        /\ UNCHANGED <<backend, coherent, inflight>>

\* lower_vkexec_pass_step of a barrier.
RecordBarrier(step) ==
    /\ last.pass # "none" /\ last.barriers = {} /\ Len(inflight) < MaxGraphs /\ faults = {}
    /\ accesses' = Order(accesses, Recorded(step))
    /\ last' = [last EXCEPT !.barriers = {step}]
    /\ UNCHANGED <<backend, coherent, mem, want, graph, inflight, faults, taken>>

\* The graph goes to the GPU.
SubmitGraph ==
    /\ graph # <<>>
    /\ mem' = FoldLeft(Execute, mem, graph)
    /\ inflight' = Append(inflight, graph) /\ graph' = <<>>
    /\ UNCHANGED <<backend, coherent, want, accesses, last, faults, taken>>

\* The flush fails while sync_to_device is recorded: the graph is given up, and
\* the staging buffer has been written.
RecordFails ==
    /\ Count /\ graph = <<>> /\ StagingFree("sync_to_device")
    /\ faults' = IF HostRaces(accesses, TRUE) THEN {"race"} ELSE {}
    /\ \E flushed \in {mem.staging, mem.mirror} :
        mem' = [mem EXCEPT !.mapped = mem.mirror,
                           !.staging = IF coherent THEN mem.mirror ELSE flushed]
    /\ UNCHANGED <<backend, coherent, want, accesses, graph, inflight, last>>

\* The host has waited for the fence of the first graph; after_gpu of
\* sync_to_host invalidates the mapping and reads it.
FinishGraph ==
    LET copied == "sync_to_host" \in Range(inflight[1])
        others == {[a EXCEPT !.graph = @ - 1] : a \in {a \in accesses : a.graph > 1}}
        unseen == \E a \in accesses :
                    /\ a.graph = 1 /\ a.buffer = "staging" /\ a.write
                    /\ <<"host", "host_read">> \notin a.visible
    IN  /\ inflight # <<>> /\ graph = <<>> /\ faults = {}
        /\ mem' = IF copied THEN [mem EXCEPT !.mapped = mem.staging, !.mirror = mem.staging] ELSE mem
        /\ faults' = IF copied /\ (unseen \/ \E a \in others : a.buffer = "staging" /\ a.write)
                     THEN {"race"} ELSE {}
        /\ accesses' = others
        /\ inflight' = Tail(inflight)
        /\ last' = IF others = {} THEN NoPass ELSE last
        /\ UNCHANGED <<backend, coherent, want, graph, taken>>

-----------------------------------------------------------------------------
(* Calls that return when their copy is done: submit_and_wait *)

\* The user writes the mirror.
WriteMirror(value) ==
    /\ Count /\ graph = <<>> /\ inflight = <<>>
    /\ mem' = [mem EXCEPT !.mirror = value]
    /\ want' = [want EXCEPT !.mirror = value]
    /\ UNCHANGED <<backend, coherent, accesses, graph, inflight, last, faults>>

\* A copy with a command buffer of its own; others are still in flight.
OneShot(pass, barriers, end, fault) ==
    LET ordered == OrderAll(accesses, barriers)
        done == Perform(ordered, AccessesOf(pass))
    IN  /\ Count /\ graph = <<>> /\ Ordered(pass) /\ StagingFree(pass)
        /\ mem' = end
        /\ want' = Expected(want, pass)
        /\ faults' = (IF \/ Races(ordered, AccessesOf(pass))
                         \/ pass = "sync_to_device" /\ HostRaces(accesses, TRUE)
                      THEN {"race"} ELSE fault)
        /\ accesses' = {a \in OrderAll(done, After(pass)) : a.graph <= Len(inflight)}
        /\ last' = IF accesses' = {} THEN NoPass ELSE last
        /\ UNCHANGED <<backend, coherent, graph, inflight>>

\* The barrier of download and download_to_host covers dispatches only.
BeforeDownload ==
    <<Barrier({"compute"}, {"shader_write"}, {"transfer"}, {"transfer_read"}, {"device"}),
      Barrier({"compute"}, {}, {"transfer"}, {"transfer_write"}, {"staging"})>>

\* tensor::upload and tensor::download.
Upload ==
    OneShot("sync_to_device", <<HostToTransfer[1]>>,
            Execute(HostWrites(mem), "sync_to_device"), {})
Download ==
    LET copied == Execute(mem, "sync_to_host")
    IN  OneShot("sync_to_host", <<BeforeDownload[1]>>,
                [copied EXCEPT !.mapped = mem.device, !.mirror = mem.device], {})

\* Either fails: before the copy, or when it is done. The user then finds what
\* the call left in the buffers.
UploadFails ==
    /\ Count /\ graph = <<>> /\ Ordered("sync_to_device") /\ StagingFree("sync_to_device")
    /\ \/ mem' = HostWrites(mem)
       \/ mem' = Execute(HostWrites(mem), "sync_to_device")
       \/ ~coherent /\ mem' = [mem EXCEPT !.mapped = mem.mirror]
    /\ want' = [want EXCEPT !.device = mem'.device]
    /\ UNCHANGED <<backend, coherent, accesses, graph, inflight, last, faults>>

DownloadFails ==
    /\ Count /\ graph = <<>> /\ Ordered("sync_to_host") /\ StagingFree("sync_to_host")
    /\ \E copied \in BOOLEAN :
        mem' = IF copied THEN Execute(mem, "sync_to_host") ELSE mem
    /\ UNCHANGED <<backend, coherent, want, accesses, graph, inflight, last, faults>>

-----------------------------------------------------------------------------
(* vma::upload_to_device and vma::download_to_host, which neither flush nor  *)
(* invalidate: without coherent memory either value may be what is there.    *)

Unflushed == IF coherent THEN {} ELSE {"unflushed"}

UploadToDevice ==
    \E staged \in IF coherent THEN {mem.mirror} ELSE {mem.mirror, mem.staging} :
        OneShot("sync_to_device", HostToTransfer,
                [mem EXCEPT !.mapped = mem.mirror, !.staging = staged, !.device = staged],
                Unflushed)

DownloadToHost ==
    \E seen \in IF coherent THEN {mem.device} ELSE {mem.device, mem.mapped} :
        OneShot("sync_to_host", BeforeDownload,
                [mem EXCEPT !.staging = mem.device, !.mapped = seen, !.mirror = seen],
                Unflushed)

TransferNext ==
    \/ \E pass \in Passes : RecordPass(pass)
    \/ \E step \in BarrierSteps : RecordBarrier(step)
    \/ SubmitGraph \/ RecordFails \/ FinishGraph
    \/ \E value \in {1, 2} : WriteMirror(value)
    \/ Upload \/ Download
    \/ UploadFails \/ DownloadFails
    \/ UploadToDevice \/ DownloadToHost

TransferSpec == TransferInit /\ [][TransferNext]_transferVars

-----------------------------------------------------------------------------
(* Properties *)

DataArrives ==
    graph = <<>> =>
        /\ mem.device = want.device
        /\ inflight = <<>> => mem.mirror = want.mirror

\* Passes, calls and graphs in flight end with what they would give if each ran
\* alone after the one before, with either command for barriers: no dispatch
\* reads what a copy has not finished, and the host reads what was copied.
TransfersRight ==
    /\ "race" \notin faults
    /\ faults = {} => DataArrives

\* copy.cpp: "host->staging visibility, copy, then submit_and_wait".
CopiesArrive == "race" \notin faults => DataArrives
=============================================================================
