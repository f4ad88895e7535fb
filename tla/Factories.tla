------------------------------ MODULE Factories ------------------------------
(***************************************************************************)
(* What the factories make, in which order, and what they undo when a call *)
(* fails; what the owners they return destroy, and how owners are moved.   *)
(*                                                                         *)
(* A factory is a sequence of instructions: "make" an object of the device *)
(* and note it in the owner, "temp" for one that is only the factory's,    *)
(* "adopt" one of the caller's, "check" for a call that may fail and makes *)
(* nothing; each of these says what is undone when it fails.  "kill" is a  *)
(* vkDestroy call on a handle, "forget" clears the owner's field, "drop"   *)
(* does both when the field is set.                                        *)
(***************************************************************************)
EXTENDS Naturals, Sequences, FiniteSets

CONSTANT MaxMade   \* bound: the times a factory is called

ASSUME MaxMadeAssumption == MaxMade \in Nat \ {0}

Instruction(does, what, undo) == [does |-> does, what |-> what, undo |-> undo]
Make(what, undo) == Instruction("make", what, undo)
Temp(what, undo) == Instruction("temp", what, undo)
Adopt(what) == Instruction("adopt", what, <<>>)
Check(undo) == Instruction("check", "", undo)
Kill(what) == Instruction("kill", what, <<>>)
Forget(what) == Instruction("forget", what, <<>>)
Drop(what) == Instruction("drop", what, <<>>)
Drops(names) == [i \in DOMAIN names |-> Drop(names[i])]
Makes(names, undo) == [i \in DOMAIN names |-> Make(names[i], undo)]

Factory(name, make, destroy) == [name |-> name, make |-> make, destroy |-> destroy]

-----------------------------------------------------------------------------
(* Contexts. The agents use the device until they have stopped. *)

ContextDestroy == Drops(<<"agent", "waiter", "device", "instance">>)

ContextHeadless ==
    Makes(<<"instance", "device">>, ContextDestroy) \o <<Check(ContextDestroy)>>
    \o Makes(<<"waiter", "agent">>, ContextDestroy)

ContextAdopted ==
    <<Adopt("instance"), Adopt("device"), Check(ContextDestroy)>>
    \o Makes(<<"waiter", "agent">>, ContextDestroy)

AllocatorMake == <<Make("allocator", <<>>)>>
AllocatorAdopt == <<Adopt("allocator")>>

-----------------------------------------------------------------------------
(* Pipelines with descriptor sets. A pool that cannot be registered is     *)
(* destroyed at once.                                                      *)

PipelineDestroy == Drops(<<"pipeline", "pipeline layout", "descriptor pool", "set layout">>)

Unregistered(destroy) == <<Kill("descriptor pool"), Forget("descriptor pool")>> \o destroy

ComputeDestroy == PipelineDestroy \o <<Drop("shader")>>

ComputeCreate ==
    Makes(<<"shader", "set layout", "pipeline layout", "pipeline", "descriptor pool">>,
          ComputeDestroy)
    \o <<Check(Unregistered(ComputeDestroy))>>

\* Mutant: the vertex shader's module is forgotten.
NoFragmentShader_Leak == PipelineDestroy

NoFragmentShader == <<Kill("vertex shader")>> \o PipelineDestroy

\* The modules are destroyed whether there is a pipeline or not.
NoGraphicsPipeline == <<Kill("fragment shader"), Kill("vertex shader")>> \o PipelineDestroy

GraphicsBuild ==
    <<Make("pipeline", NoGraphicsPipeline), Kill("fragment shader"), Kill("vertex shader")>>

GraphicsCreate ==
    Makes(<<"set layout", "pipeline layout", "descriptor pool">>, PipelineDestroy)
    \o <<Check(Unregistered(PipelineDestroy)),
         Temp("vertex shader", PipelineDestroy), Temp("fragment shader", NoFragmentShader)>>
    \o GraphicsBuild

\* make_graphics_pipeline: the set that it binds is of the pipeline's pool.
GraphicsFactory == GraphicsCreate \o <<Check(PipelineDestroy)>>

(* Pipelines of a descriptor heap have no layouts and no pool. *)
HeapDestroy == Drops(<<"pipeline", "shader">>)

HeapComputeCreate == Makes(<<"shader", "pipeline">>, HeapDestroy)

HeapGraphicsBuild ==
    <<Make("pipeline", <<Kill("fragment shader"), Kill("vertex shader")>>),
      Kill("fragment shader"), Kill("vertex shader")>>

HeapGraphicsCreate ==
    <<Temp("vertex shader", <<>>), Temp("fragment shader", <<Kill("vertex shader")>>)>>
    \o HeapGraphicsBuild

(* Descriptor sets of a pipeline. *)
SetFree == <<Drop("set")>>
BindResources == <<Make("set", <<>>), Check(SetFree)>>
BindStorage == <<Make("set", <<>>), Check(<<Forget("set")>>)>>

-----------------------------------------------------------------------------
(* Memory and images. *)

BufferMake == <<Make("buffer", <<>>), Check(<<Kill("buffer"), Forget("buffer")>>)>>
ImageMake == <<Make("image", <<>>)>>
ViewMake == <<Make("view", <<>>)>>
SamplerMake == <<Make("sampler", <<>>)>>

TargetDestroy ==
    Drops(<<"framebuffer", "pass", "depth view", "depth image", "color view", "color image">>)

TargetCreate ==
    Makes(<<"color image", "color view", "depth image", "depth view", "pass", "framebuffer">>,
          TargetDestroy)

\* A copy's command buffer is freed when the GPU is done with it.
CopyCommands(checked) ==
    <<Make("commands", <<>>)>> \o [i \in 1 .. checked |-> Check(<<Drop("commands")>>)]
    \o <<Drop("commands")>>
UploadToDevice == CopyCommands(3)
DownloadToHost == CopyCommands(2)

-----------------------------------------------------------------------------
(* Presentation. *)

SwapchainDestroy == Drops(<<"views", "swapchain">>)
SwapchainMake == Makes(<<"swapchain", "views">>, SwapchainDestroy)

TimelineMake == <<Make("timeline", <<>>)>>

RingDestroy == Drops(<<"finished 1", "finished 2", "acquire 1", "acquire 2", "timeline">>)
RingFreeImages == Drops(<<"finished 1", "finished 2">>)

RingMake ==
    <<Make("timeline", <<>>), Make("acquire 1", RingDestroy),
      Make("acquire 2", <<Kill("acquire 1"), Forget("acquire 1")>> \o RingDestroy)>>
    \o Makes(<<"finished 1", "finished 2">>, RingFreeImages \o RingDestroy)

PresenterDestroy ==
    Drops(<<"fence", "available", "finished 1", "commands", "framebuffer", "depth view",
            "views", "swapchain", "pass", "surface", "agent", "waiter", "device", "instance">>)
PresenterMakes(names) == Makes(names, PresenterDestroy)

\* The surface is made between the context's instance and its device.
InstanceOnly == PresenterMakes(<<"instance">>)
CompleteForSurface == PresenterMakes(<<"device">>) \o <<Check(PresenterDestroy)>>
                      \o PresenterMakes(<<"waiter", "agent">>)
CreateSwapchainSync == PresenterMakes(<<"finished 1">>)
CreateSwapchain == PresenterMakes(<<"swapchain", "views">>) \o CreateSwapchainSync
CreateRenderPass == PresenterMakes(<<"pass">>)
CreateDepth == PresenterMakes(<<"depth view">>) \o <<Check(PresenterDestroy)>>
CreateFramebuffers == PresenterMakes(<<"framebuffer">>)
CreateFrameResources == PresenterMakes(<<"available", "fence", "commands">>)

PresenterInit ==
    InstanceOnly \o PresenterMakes(<<"surface">>) \o CompleteForSurface \o CreateSwapchain
    \o CreateRenderPass \o CreateDepth \o CreateFramebuffers \o CreateFrameResources

Factories ==
    {Factory("headless context", ContextHeadless, ContextDestroy),
     Factory("adopted context", ContextAdopted, ContextDestroy),
     Factory("allocator", AllocatorMake, Drops(<<"allocator">>)),
     Factory("adopted allocator", AllocatorAdopt, Drops(<<"allocator">>)),
     Factory("compute", ComputeCreate, ComputeDestroy),
     Factory("graphics", GraphicsFactory, PipelineDestroy),
     Factory("heap compute", HeapComputeCreate, HeapDestroy),
     Factory("heap graphics", HeapGraphicsCreate, HeapDestroy),
     Factory("resources", BindResources, SetFree),
     Factory("storage", BindStorage, SetFree),
     Factory("buffer", BufferMake, Drops(<<"buffer">>)),
     Factory("image", ImageMake, Drops(<<"image">>)),
     Factory("view", ViewMake, Drops(<<"view">>)),
     Factory("sampler", SamplerMake, Drops(<<"sampler">>)),
     Factory("target", TargetCreate, TargetDestroy),
     Factory("upload", UploadToDevice, <<>>),
     Factory("download", DownloadToHost, <<>>),
     Factory("swapchain", SwapchainMake, SwapchainDestroy),
     Factory("timeline", TimelineMake, Drops(<<"timeline">>)),
     Factory("ring", RingMake, RingDestroy),
     Factory("presenter", PresenterInit, PresenterDestroy)}

-----------------------------------------------------------------------------

VARIABLES factory,   \* the one that is called
          ops,       \* what is left of the call that runs
          calls,     \* how many there were
          place,     \* the owner that it makes or destroys,
          taken,     \* and the one it is then moved from, or 0
          owners,    \* what is noted in two owners
          alive      \* the objects of the device

factoryVars == <<factory, ops, calls, place, taken, owners, alive>>

Owners == 1 .. 2
Borrowed == {<<0, "instance">>, <<0, "device">>, <<0, "allocator">>}
\* An object is named after the call that makes it.
Object(what) == <<calls, what>>
Field(what) == {x \in owners[place] : x[2] = what}

FactoryInit ==
    /\ factory \in Factories
    /\ ops = <<>> /\ calls = 0 /\ place = 1 /\ taken = 0
    /\ owners = [o \in Owners |-> {}]
    /\ alive = Borrowed

CallFactory(o) ==
    /\ ops = <<>> /\ owners[o] = {} /\ calls < MaxMade
    /\ calls' = calls + 1 /\ place' = o /\ taken' = 0
    /\ ops' = factory.make
    /\ UNCHANGED <<factory, owners, alive>>

\* The destructor, or reset.
DestroyOwner(o) ==
    /\ ops = <<>> /\ owners[o] # {}
    /\ place' = o /\ taken' = 0 /\ ops' = factory.destroy
    /\ UNCHANGED <<factory, calls, owners, alive>>

\* The move constructor and the move assignment: what the target owns is
\* destroyed first, then the handles are taken over.
MoveOwner(o, from) ==
    /\ ops = <<>> /\ o # from /\ owners[from] # {} /\ factory.destroy # <<>>
    /\ place' = o /\ taken' = from
    /\ ops' = Append(factory.destroy, Instruction("take", "", <<>>))
    /\ UNCHANGED <<factory, calls, owners, alive>>

Is(does) == ops # <<>> /\ Head(ops).does = does
What == Head(ops).what
Proceed == ops' = Tail(ops)
Noted(x) == owners' = [owners EXCEPT ![place] = @ \cup x]
Cleared(x) == owners' = [owners EXCEPT ![place] = @ \ x]

MakeObject ==
    /\ \/ Is("make") /\ Noted({Object(What)})
       \/ Is("temp") /\ UNCHANGED owners
    /\ alive' = alive \cup {Object(What)}
    /\ Proceed
    /\ UNCHANGED <<factory, calls, place, taken>>

AdoptObject ==
    /\ Is("adopt") /\ Proceed
    /\ UNCHANGED <<factory, calls, place, taken, owners, alive>>

CheckPasses ==
    /\ Is("check") /\ Proceed
    /\ UNCHANGED <<factory, calls, place, taken, owners, alive>>

CallFails ==
    /\ Is("make") \/ Is("temp") \/ Is("check")
    /\ ops' = Head(ops).undo
    /\ UNCHANGED <<factory, calls, place, taken, owners, alive>>

Destroyed ==
    IF Is("kill") THEN {Object(What)} ELSE IF Is("drop") THEN Field(What) ELSE {}

DestroyObject ==
    /\ \/ Is("kill") /\ UNCHANGED owners
       \/ Is("drop") /\ Cleared(Field(What))
       \/ Is("forget") /\ Cleared(Field(What))
    /\ alive' = alive \ Destroyed
    /\ Proceed
    /\ UNCHANGED <<factory, calls, place, taken>>

TakeOver ==
    /\ Is("take") /\ Proceed
    /\ owners' = [owners EXCEPT ![place] = owners[taken], ![taken] = {}]
    /\ UNCHANGED <<factory, calls, place, taken, alive>>

FactoryNext ==
    \/ \E o \in Owners : CallFactory(o) \/ DestroyOwner(o)
    \/ \E o, from \in Owners : MoveOwner(o, from)
    \/ MakeObject \/ AdoptObject \/ CheckPasses \/ CallFails \/ DestroyObject \/ TakeOver

FactorySpec == FactoryInit /\ [][FactoryNext]_factoryVars

-----------------------------------------------------------------------------
(* Properties *)

\* What must be gone before each object is destroyed.
Needs(what) ==
    CASE what = "instance" -> {"device", "surface"}
      [] what = "surface" -> {"swapchain"}
      [] what = "swapchain" -> {"views", "framebuffer"}
      [] what = "color image" -> {"color view"}
      [] what = "depth image" -> {"depth view"}
      [] what \in {"color view", "depth view", "views", "pass"} -> {"framebuffer"}
      [] what = "device" ->
            {"waiter", "agent", "swapchain", "views", "pass", "framebuffer", "depth view",
             "commands", "fence", "available", "finished 1"}
      [] OTHER -> {}

\* No object is destroyed twice, whichever call of a factory fails and however
\* the owner that it leaves behind is destroyed.
DestroyedOnce == Destroyed \subseteq alive

\* Nothing is destroyed while an object that was made from it is alive.
ChildrenFirst ==
    \A x \in Destroyed, y \in alive : y[1] = x[1] => y[2] \notin Needs(x[2])

\* bind_storage does not free the set it could not write; the pool will.
LeftToThePool == {x \in alive : factory.name = "storage" /\ x[2] = "set"}

\* Between two calls every object that is alive has one owner, or is the
\* caller's: a factory that fails keeps nothing, and what was borrowed stays.
NothingLost ==
    ops = <<>> =>
        /\ Borrowed \subseteq alive
        /\ alive \ LeftToThePool \subseteq Borrowed \cup UNION {owners[o] : o \in Owners}
        /\ UNION {owners[o] : o \in Owners} \subseteq alive
        /\ owners[1] \cap owners[2] = {}

\* Whatever call fails, each object is destroyed once, after those made from
\* it, and none is left without an owner.
OwnershipKept == DestroyedOnce /\ ChildrenFirst /\ NothingLost
=============================================================================
