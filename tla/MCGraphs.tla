------------------------------- MODULE MCGraphs -------------------------------
(***************************************************************************)
(* Pass graphs for TLC: how they are written and planned (focus "plan"),   *)
(* how they are recorded (focus "record"), on two queues of which one is   *)
(* both the context's default and not the presenter's, the resources that  *)
(* their passes bind, by descriptor sets (focus "sets") or heaps (focus    *)
(* "heap"), and the data that they move (focus "transfer"). These share no *)
(* state; focus is what a behaviour is about.                              *)
(***************************************************************************)
EXTENDS PassBuilder, Recording, DescriptorSets, DescriptorHeap, Transfers

CONSTANTS Compute, Graphics, Focuses

VARIABLE focus

TwoQueues == {Compute, Graphics}

\* A device is <<buffer, image, sampler, descriptor, heap, reserved>>. The last
\* but one is refused: its descriptors would not be aligned.
MCDevices ==
    {[buffer |-> d[1], image |-> d[2], sampler |-> d[3], descriptor |-> d[4], heap |-> d[5],
      reserved |-> d[6]] :
        d \in {<<1, 2, 1, 0, 0, 2>>, <<2, 1, 1, 2, 4, 2>>, <<1, 2, 2, 2, 4, 2>>, <<2, 2, 1, 1, 4, 0>>,
               <<2, 1, 2, 0, 2, 1>>, <<1, 1, 1, 2, 0, 2>>, <<1, 1, 2, 1, 4, 2>>}}

\* What is not in focus stays in one state.
NoPlan ==
    /\ kind = "typed" /\ open = <<>> /\ composites = {}
    /\ phase = "building" /\ timeline = FALSE /\ hazards = <<>> /\ plan = <<>>
    /\ scopes = 0 /\ sync = NoSync /\ asked = {}
    /\ queues = <<>> /\ preds = <<>> /\ presenting = FALSE
NoRecording ==
    /\ familyOf = [q \in Queues |-> 1] /\ passes = <<>> /\ external = FALSE
    /\ shows = {} /\ stage = "start"
    /\ opened = <<>> /\ todo = <<>> /\ sets = <<>> /\ calls = <<>> /\ gpu = "none"
    /\ lifecycle = [o \in Objects |-> "retired"] /\ owner = "operation"
NoSets ==
    /\ pipe = HeapPipeline /\ table = <<>> /\ schema = <<>> /\ holder = <<>>
    /\ written = {} /\ bind = NoBind
NoHeap ==
    /\ props = <<>> /\ layout = NoLayout
    /\ heaps = [h \in {"resource", "sampler"} |-> <<>>]
    /\ tables = [s \in HeapSteps |-> <<>>]
    /\ given = [s \in HeapSteps |-> <<>>]
    /\ lowered = [s \in HeapSteps |-> [state |-> "not yet", map |-> <<>>]]
NoTransfers == TransferInit /\ backend = "sync2" /\ coherent

GraphsInit ==
    /\ focus \in Focuses
    /\ \/ focus = "plan" /\ BuilderInit /\ NoRecording /\ NoSets /\ NoHeap /\ NoTransfers
       \/ focus = "record" /\ RecordingInit
          /\ kind = "typed" /\ open = <<>> /\ composites = {}
          /\ phase = "building" /\ timeline = FALSE /\ hazards = <<>> /\ plan = <<>>
          /\ scopes = 0 /\ sync = NoSync /\ asked = {}
          /\ NoSets /\ NoHeap /\ NoTransfers
       \/ focus = "sets" /\ SetsInit /\ NoPlan /\ NoRecording /\ NoHeap /\ NoTransfers
       \/ focus = "heap" /\ HeapInit /\ NoPlan /\ NoRecording /\ NoSets /\ NoTransfers
       \/ focus = "transfer" /\ TransferInit /\ NoPlan /\ NoRecording /\ NoSets /\ NoHeap

GraphsNext ==
    /\ UNCHANGED focus
    /\ \/ focus = "plan" /\ BuilderNext
          /\ UNCHANGED <<recordingVars, setVars, heapVars, transferVars>>
       \/ focus = "record" /\ RecordingNext
          /\ UNCHANGED <<builderVars, setVars, heapVars, transferVars>>
       \/ focus = "sets" /\ SetsNext
          /\ UNCHANGED <<vars, builderVars, recordingVars, heapVars, transferVars>>
       \/ focus = "heap" /\ HeapNext
          /\ UNCHANGED <<vars, builderVars, recordingVars, setVars, transferVars>>
       \/ focus = "transfer" /\ TransferNext
          /\ UNCHANGED <<vars, builderVars, recordingVars, setVars, heapVars>>

GraphsSpec == GraphsInit /\ [][GraphsNext]_
    <<focus, vars, builderVars, recordingVars, setVars, heapVars, transferVars>>
===============================================================================
