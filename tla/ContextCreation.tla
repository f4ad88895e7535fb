--------------------------- MODULE ContextCreation ---------------------------
(***************************************************************************)
(* What a caller asks of a context, what the library adds to it, and what  *)
(* the context then says of the device that it has: the capabilities, the  *)
(* synchronization backend with its commands, and the queues.              *)
(*                                                                         *)
(* A version is the minor of Vulkan 1.x.  A capability is also the name of *)
(* its feature, and of the extension that has it on an older version.      *)
(***************************************************************************)
EXTENDS Naturals, FiniteSets

CONSTANTS PromotedIn,   \* the version whose core has each capability
          MinimumApi,   \* vulkan_library::k_min_api_version_minor
          MaxApi        \* bound: the versions are 0 .. MaxApi

Capabilities == DOMAIN PromotedIn
Sync2 == "synchronization2"
Untyped == "shader_untyped_pointers"
Address == "buffer_device_address"
Versions == 0 .. MaxApi

ASSUME CreationAssumption ==
    /\ MaxApi \in Nat /\ MinimumApi \in Versions
    /\ {Sync2, Untyped, Address} \subseteq Capabilities
    /\ PromotedIn \in [Capabilities -> Nat]

\* The library asks for no more than Vulkan 1.0 by itself, and no version has
\* the heap's shader feature in its core.
ASSUME LibraryAssumption == MinimumApi = 0 /\ PromotedIn[Untyped] > MaxApi

VARIABLES creation,   \* "ask", then the calls done, "ready", "refused" or "aborted"
          blamed,     \* the call that failed
          origin,     \* "headless", "surface", "adopted"
          asked,      \* vulkan_requirements, as the caller left them,
          needs,      \* and as the context has them
          loader,     \* the instance has the extension to query features
          gpu,        \* the device of the host
          enabled,    \* what the logical device has
          caps,       \* device_capabilities
          backend,    \* synchronization_backend
          commands,   \* the barrier and the submission it uses
          queueOfRole, familyOfRole,
          known       \* the queues that have a lock

creationVars == <<creation, blamed, origin, asked, needs, loader, gpu, enabled, caps, backend,
                  commands, queueOfRole, familyOfRole, known>>

-----------------------------------------------------------------------------
(* Requirements *)

NothingAsked ==
    [api |-> 0, props2 |-> FALSE, exts |-> {}, optExts |-> {}, feats |-> {}, optFeats |-> {}]

AtLeast(req, minor) == req.api >= minor

\* feature_traits<...>::configure: the feature of the core, or the extension.
WithFeature(req, f) ==
    IF AtLeast(req, PromotedIn[f])
    THEN [req EXCEPT !.feats = @ \cup {f}]
    ELSE [req EXCEPT !.feats = @ \cup {f}, !.exts = @ \cup {f}]

\* synchronization2 also asks for what a 1.0 instance needs.
WithSync2(req) ==
    IF AtLeast(req, 1) THEN WithFeature(req, Sync2)
    ELSE [WithFeature(req, Sync2) EXCEPT !.props2 = TRUE]

\* The descriptor heap, and its shaders', where the device has them.
WithHeap(req) ==
    [WithFeature(req, Address) EXCEPT !.optExts = @ \cup {Untyped}, !.optFeats = @ \cup {Untyped}]

ResolveVersion(req) == IF req.api < MinimumApi THEN MinimumApi ELSE req.api

FeatureRequested(req) == Sync2 \in req.feats \cup req.optFeats

OptionalExtension(req) ==
    IF Sync2 \in req.exts \cup req.optExts THEN req
    ELSE [req EXCEPT !.optExts = @ \cup {Sync2}]

OptionalFeature(req) ==
    IF FeatureRequested(req) THEN req ELSE [req EXCEPT !.optFeats = @ \cup {Sync2}]

\* synchronization2 is used where it can be had and nobody asked for it.
OptionalSync2(req, api, available) ==
    IF api >= PromotedIn[Sync2] THEN OptionalFeature(req)
    ELSE IF api >= 1 \/ req.props2 THEN OptionalFeature(OptionalExtension(req))
    ELSE IF ~ available THEN req
    ELSE OptionalFeature(OptionalExtension([req EXCEPT !.props2 = TRUE]))

-----------------------------------------------------------------------------
(* Devices *)

\* A device with an extension has its feature; a core may have it as well.
Gpus ==
    {d \in [api : Versions, exts : SUBSET Capabilities, feats : SUBSET Capabilities] :
        /\ d.exts \subseteq d.feats
        /\ \A f \in d.feats \ d.exts : PromotedIn[f] <= d.api}

\* The device that the selector of vk-bootstrap accepts.
Suitable(d, req, api) == d.api >= api /\ req.exts \subseteq d.exts /\ req.feats \subseteq d.feats

EnabledExts(d, req) == req.exts \cup (req.optExts \cap d.exts)

\* Mutant: the feature alone is enough for synchronization2.
EnablesFeature_Alone(d, req, api, f) == f \in d.feats

\* An optional feature is enabled where present, but synchronization2 of an
\* older version only with its extension.
EnablesFeature(d, req, api, f) ==
    /\ f \in d.feats
    /\ f = Sync2 /\ api < PromotedIn[Sync2] => f \in EnabledExts(d, req)

EnabledCaps(d, req, api) ==
    req.feats \cup {f \in req.optFeats \ req.feats : EnablesFeature(d, req, api, f)}

SelectBackend(has, api) ==
    IF Sync2 \notin has THEN "legacy"
    ELSE IF api >= PromotedIn[Sync2] THEN "core" ELSE "khr"

\* What vkGetDeviceProcAddr finds.
CommandsOf(device) ==
    {"none"} \cup (IF device.api >= PromotedIn[Sync2] THEN {"core"} ELSE {})
        \cup (IF Sync2 \in device.exts THEN {"khr"} ELSE {})

-----------------------------------------------------------------------------
(* Queues: "g" is of family 1, "c" of family 2 and "p" of family 3. *)

FamilyOfQueue == [g |-> 1, c |-> 2, p |-> 3, none |-> 0]
Roles == {"compute", "graphics", "present"}
NoQueues == [r \in Roles |-> "none"]
Families(queues) == [r \in Roles |-> FamilyOfQueue[queues[r]]]

\* fetch_queues: compute without a queue of its own shares that of graphics,
\* and graphics that of compute; nobody presents without a surface.
FetchedQueues(found, presents) ==
    LET compute == IF found.compute # "none" THEN found.compute ELSE found.graphics
        graphics == IF found.graphics # "none" THEN found.graphics ELSE compute
    IN  [compute |-> compute, graphics |-> graphics,
         present |-> IF presents THEN found.present ELSE graphics]

AdoptedQueues(given) ==
    LET graphics == IF given["graphics"] # "none" THEN given["graphics"] ELSE given["compute"]
    IN  [compute |-> given["compute"], graphics |-> graphics,
         present |-> IF given["present"] # "none" THEN given["present"] ELSE graphics]

-----------------------------------------------------------------------------
(* Asking *)

CreationInit ==
    /\ creation = "ask" /\ blamed = "nobody" /\ origin = "headless"
    /\ asked = NothingAsked /\ needs = NothingAsked
    /\ loader = FALSE
    /\ gpu = [api |-> 0, exts |-> {}, feats |-> {}]
    /\ enabled = gpu
    /\ caps = [api |-> 0, has |-> {}] /\ backend = "legacy" /\ commands = "none"
    /\ queueOfRole = NoQueues /\ familyOfRole = Families(NoQueues) /\ known = {}

asking == <<origin, needs, loader, gpu, enabled, caps, backend, commands, queueOfRole,
            familyOfRole, known>>

\* The caller raises the version, configures features, or names the extension.
Ask ==
    /\ creation = "ask"
    /\ \/ \E api \in Versions : api > asked.api /\ asked' = [asked EXCEPT !.api = api]
       \/ \E f \in Capabilities \ {Sync2, Untyped} : asked' = WithFeature(asked, f)
       \/ asked' = WithSync2(asked)
       \/ asked' = WithHeap(asked)
       \/ asked' = [asked EXCEPT !.exts = @ \cup {Sync2}]
       \/ asked' = [asked EXCEPT !.optExts = @ \cup {Sync2}]
    /\ asked' # asked
    /\ UNCHANGED <<creation, blamed, asking>>

-----------------------------------------------------------------------------
(* Creation *)

\* init_headless and the constructor for a surface, up to the instance. The
\* constructor ends the program when there is none; init returns the error.
BuildInstance ==
    /\ creation = "ask"
    /\ origin' \in {"headless", "surface"}
    /\ loader' \in BOOLEAN
    /\ LET api == ResolveVersion(asked)
           req == OptionalSync2(asked, api, loader') IN
           /\ needs' = req
           /\ caps' = [api |-> api, has |-> {}]
           /\ IF req.props2 => loader'
              THEN creation' = "instance" /\ blamed' = blamed
              ELSE /\ creation' = (IF origin' = "surface" THEN "aborted" ELSE "refused")
                   /\ blamed' = "instance"
    /\ UNCHANGED <<asked, gpu, enabled, backend, commands, queueOfRole, familyOfRole, known>>

\* select_physical_device, apply_optional_device_requests, the backend.
SelectDevice ==
    /\ creation = "instance"
    /\ gpu' \in Gpus
    /\ IF Suitable(gpu', needs, caps.api)
       THEN LET has == EnabledCaps(gpu', needs, caps.api) IN
            /\ caps' = [caps EXCEPT !.has = has]
            /\ enabled' = [api |-> caps.api, feats |-> has,
                           exts |-> EnabledExts(gpu', needs)]
            /\ backend' = SelectBackend(has, caps.api)
            /\ creation' = "device"
            /\ UNCHANGED blamed
       ELSE /\ creation' = "refused" /\ blamed' = "device"
            /\ UNCHANGED <<enabled, caps, backend>>
    /\ UNCHANGED <<origin, asked, needs, loader, commands, queueOfRole, familyOfRole, known>>

FetchQueues ==
    /\ creation = "device"
    /\ \E found \in [compute : {"none", "c"}, graphics : {"none", "g"},
                     present : {"none", "g", "p"}] :
           LET queues == FetchedQueues(found, origin = "surface") IN
           IF "none" \in {queues[r] : r \in Roles}
           THEN /\ creation' = "refused" /\ blamed' = "queues"
                /\ UNCHANGED <<queueOfRole, familyOfRole>>
           ELSE /\ queueOfRole' = queues /\ familyOfRole' = Families(queues)
                /\ creation' = "queues" /\ UNCHANGED blamed
    /\ UNCHANGED <<origin, asked, needs, loader, gpu, enabled, caps, backend, commands, known>>

\* init_adopted: the embedder tells what its device has enabled. It may tell
\* less; and it may be wrong about synchronization2's extension.
AdoptDevice ==
    /\ creation = "ask" /\ asked = NothingAsked
    /\ origin' = "adopted"
    /\ \E api \in Versions, has, exts \in SUBSET {Sync2},
          given \in [Roles -> {"none", "g", "c"}] :
           /\ enabled' = [api |-> api, exts |-> exts, feats |-> has]
           /\ IF given["compute"] = "none"
              THEN /\ creation' = "refused" /\ blamed' = "queues"
                   /\ UNCHANGED <<caps, backend, queueOfRole, familyOfRole>>
              ELSE /\ caps' = [api |-> api, has |-> has]
                   /\ backend' = SelectBackend(has, api)
                   /\ queueOfRole' = AdoptedQueues(given)
                   /\ familyOfRole' = Families(AdoptedQueues(given))
                   /\ creation' = "queues" /\ UNCHANGED blamed
    /\ UNCHANGED <<asked, needs, loader, gpu, commands, known>>

\* load_device_procs: the commands of the backend, by the name they have there.
LoadProcs ==
    /\ creation = "queues"
    /\ IF backend = "legacy" \/ backend \in CommandsOf(enabled)
       THEN /\ commands' = IF backend = "legacy" THEN "none" ELSE backend
            /\ creation' = "loaded" /\ UNCHANGED blamed
       ELSE creation' = "refused" /\ blamed' = "commands" /\ UNCHANGED commands
    /\ UNCHANGED <<origin, asked, needs, loader, gpu, enabled, caps, backend, queueOfRole,
                   familyOfRole, known>>

RegisterQueues ==
    /\ creation = "loaded"
    /\ known' = {queueOfRole[r] : r \in Roles} \ {"none"}
    /\ creation' = "ready"
    /\ UNCHANGED <<blamed, origin, asked, needs, loader, gpu, enabled, caps, backend, commands,
                   queueOfRole, familyOfRole>>

CreationNext ==
    Ask \/ BuildInstance \/ SelectDevice \/ FetchQueues \/ AdoptDevice \/ LoadProcs \/ RegisterQueues

CreationSpec == CreationInit /\ [][CreationNext]_creationVars

-----------------------------------------------------------------------------
(* Properties *)

Owned == origin # "adopted"

\* Of a device that the context made, a capability is reported only when its
\* feature is enabled and the version or an enabled extension has it.
CapabilitiesUsable ==
    creation = "ready" /\ Owned =>
        \A f \in caps.has : f \in enabled.feats /\ (enabled.api >= PromotedIn[f] \/ f \in enabled.exts)

\* synchronization2 is never missed where this context could have it.
Sync2Used ==
    creation = "ready" /\ Owned /\ Sync2 \in gpu.feats
    /\ (caps.api >= PromotedIn[Sync2] \/ Sync2 \in gpu.exts) /\ (caps.api >= 1 \/ loader) =>
        backend # "legacy" /\ commands = backend

\* What is only an option never costs the caller the context: one is refused
\* because of what the caller asked for itself.
RefusedForOwnNeeds ==
    creation \in {"refused", "aborted"} /\ Owned =>
        /\ blamed # "commands"
        /\ blamed = "instance" => asked.props2
        /\ blamed = "device" => ~ Suitable(gpu, asked, asked.api)

\* Nothing that the caller required is weakened on the way.
NeedsKept ==
    creation = "ready" /\ Owned =>
        asked.exts \subseteq enabled.exts /\ asked.feats \subseteq enabled.feats

\* Every queue that the context hands out has its family and its lock.
QueuesKnown ==
    creation = "ready" =>
        \A r \in Roles : queueOfRole[r] \in known /\ familyOfRole[r] = FamilyOfQueue[queueOfRole[r]]

\* The backend's commands are there whenever it is not the legacy one.
CommandsThere == creation = "ready" /\ backend # "legacy" => commands \in CommandsOf(enabled)

\* A context says only what is true of its device, weakens nothing that was
\* asked for and refuses nobody without a cause of their own.
CreationHonest ==
    CapabilitiesUsable /\ Sync2Used /\ RefusedForOwnNeeds /\ NeedsKept /\ QueuesKnown /\ CommandsThere

\* Documented, and not kept: whichever call fails, who asked for a context is
\* told by an error; the program goes on.
FailureReturned == creation # "aborted"
===============================================================================
