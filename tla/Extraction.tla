------------------------------ MODULE Extraction ------------------------------
(***************************************************************************)
(* From resources to draws: chunk tasks of a frame lease what the objects  *)
(* of the world refer to (renderer/extraction.cpp) while the resource      *)
(* manager goes on loading and unloading, their join builds the snapshot,  *)
(* the renderer sorts and batches its commands (renderer/renderer.cpp),    *)
(* and the presentation records them with the GPU objects it prepared for  *)
(* a handle and a version (renderer/presentation/presentation.cpp).        *)
(*                                                                         *)
(* Transforms and cameras are left out, a view is its position, a handle a *)
(* number that orders as slot and generation do; what is uploaded is named *)
(* by the lease it was made from.                                          *)
(***************************************************************************)
EXTENDS LeaseStore, Sequences, FiniteSets, TLC

CONSTANTS
    Class,         \* the class of what a handle names: mesh, material, image or sampler
    Identity,      \* the identity a handle was asked for
    Binds,         \* the identities of the images and samplers a material binds
    Objects,       \* number of objects of the world
    Views,         \* number of views
    ChunkSize,     \* objects per chunk task
    NoComponent,   \* a component that refers to nothing
    Pipelines      \* the pipelines materials are prepared with

ASSUME ExtractionAssumption ==
    /\ Class \in [Handles -> {"mesh", "material", "image", "sampler"}]
    /\ DOMAIN Identity = Handles
    /\ Handles \subseteq Nat /\ NoComponent \notin Handles
    /\ Objects \in Nat /\ Views \in Nat /\ ChunkSize \in Nat \ {0}

VARIABLES
    components,    \* the mesh and material each object refers to
    frame,         \* the frame being drawn: stage, chunks, snapshot, plan
    prepared       \* GPU objects: meshes, materials, bound images and samplers

drawVars == <<components, frame, prepared>>

NoFrame == [stage |-> "IDLE", chunks |-> <<>>, objects |-> <<>>, commands |-> <<>>, batches |-> {}]

InitDraw ==
    /\ StoreInit
    /\ components = [o \in 1 .. Objects |-> [mesh |-> NoComponent, material |-> NoComponent]]
    /\ frame = NoFrame
    /\ prepared = [meshes |-> {}, materials |-> {}, bound |-> <<>>]

\* The world may not be written while a frame reads it.
Assign(object, mesh, material) ==
    /\ frame.stage = "IDLE"
    /\ Class[mesh] = "mesh" /\ Class[material] = "material"
    /\ status[mesh] = "LIVE" /\ status[material] = "LIVE"
    /\ components' = [components EXCEPT ![object] =
                        [mesh |-> mesh, material |-> material]]
    /\ UNCHANGED <<storeVars, frame, prepared>>

-----------------------------------------------------------------------------
(* Extraction.                                                             *)

ChunkCount == Objects \div ChunkSize + (IF Objects % ChunkSize # 0 THEN 1 ELSE 0)
FirstObject(c) == (c - 1) * ChunkSize + 1
LastObject(c) == IF c * ChunkSize < Objects THEN c * ChunkSize ELSE Objects

Chunk(c) == [next |-> FirstObject(c), mesh |-> NoLease, half |-> FALSE, objects |-> <<>>, error |-> FALSE]

ScheduleRenderWorldExtraction ==
    /\ frame.stage = "IDLE" /\ frame.chunks = <<>>
    /\ frame' = [NoFrame EXCEPT !.stage = "EXTRACT", !.chunks = [c \in 1 .. ChunkCount |-> Chunk(c)]]
    /\ UNCHANGED <<storeVars, components, prepared>>

ChunkEnded(c) == frame.chunks[c].error \/ frame.chunks[c].next > LastObject(c)
Stale(handle) == handle # NoComponent /\ status[handle] # "LIVE"
LeaseOf(handle) == IF handle = NoComponent THEN NoLease ELSE Lease(handle)
InChunk(c) == c \in DOMAIN frame.chunks /\ ~ChunkEnded(c)
Becomes(c, chunk) == frame' = [frame EXCEPT !.chunks[c] = chunk]

\* A stale handle ends the chunk, not the frame: the others still run.
AcquireMesh(c) ==
    LET chunk == frame.chunks[c]
        mesh == components[chunk.next].mesh
    IN  /\ InChunk(c) /\ ~chunk.half
        /\ Becomes(c, IF Stale(mesh) THEN [chunk EXCEPT !.error = TRUE]
                      ELSE [chunk EXCEPT !.half = TRUE, !.mesh = LeaseOf(mesh)])
        /\ UNCHANGED <<storeVars, components, prepared>>

\* The second lease is a second lock. An object without both is not drawn.
AcquireMaterial(c) ==
    LET chunk == frame.chunks[c]
        handle == components[chunk.next].material
        material == LeaseOf(handle)
        object == [id |-> chunk.next, mesh |-> chunk.mesh, material |-> material]
        complete == chunk.mesh # NoLease /\ material # NoLease
    IN  /\ InChunk(c) /\ chunk.half
        /\ Becomes(c, IF Stale(handle) THEN [chunk EXCEPT !.error = TRUE]
                      ELSE [chunk EXCEPT !.half = FALSE, !.next = @ + 1, !.mesh = NoLease,
                                         !.objects = IF complete THEN Append(@, object) ELSE @])
        /\ UNCHANGED <<storeVars, components, prepared>>

Merged[c \in 0 .. ChunkCount] ==
    IF c = 0 THEN <<>> ELSE Merged[c - 1] \o frame.chunks[c].objects

\* A bug: the failure of a chunk ends the frame at once.
MutantMayJoin ==
    \/ \E c \in DOMAIN frame.chunks : frame.chunks[c].error
    \/ \A c \in DOMAIN frame.chunks : ChunkEnded(c)
MayJoin == \A c \in DOMAIN frame.chunks : ChunkEnded(c)
StillRunning ==
    [c \in {d \in DOMAIN frame.chunks : ~ChunkEnded(d)} |-> frame.chunks[c]]
Join ==
    /\ frame.stage = "EXTRACT"
    /\ MayJoin
    /\ frame' = IF \E c \in DOMAIN frame.chunks : frame.chunks[c].error
                THEN [NoFrame EXCEPT !.chunks = StillRunning]
                ELSE [NoFrame EXCEPT !.stage = "WORLD", !.objects = Merged[ChunkCount],
                                  !.chunks = StillRunning]
    /\ UNCHANGED <<storeVars, components, prepared>>

-----------------------------------------------------------------------------
(* The plan.                                                               *)

BatchKey(command) ==
    <<command.view,
      command.material.resource, command.material.version,
      command.mesh.resource, command.mesh.version>>

Precedes(a, b) ==
    \E i \in DOMAIN a : a[i] < b[i] /\ \A j \in 1 .. i - 1 : a[j] = b[j]
LessCommand(left, right) ==
    Precedes(Append(BatchKey(left), left.object), Append(BatchKey(right), right.object))

\* One command for each object in each view.
PrepareItem(i) ==
    LET object == frame.objects[((i - 1) % Len(frame.objects)) + 1]
    IN  [view |-> (i - 1) \div Len(frame.objects) + 1, object |-> object.id,
         mesh |-> object.mesh, material |-> object.material]
Items == [i \in 1 .. Views * Len(frame.objects) |-> PrepareItem(i)]

\* A sort: nothing is taken twice, and nothing belongs before its predecessor.
IsSort(from, items) ==
    /\ \A i, j \in DOMAIN items : i # j => from[i] # from[j]
    /\ \A i \in 2 .. Len(items) : ~LessCommand(items[from[i]], items[from[i - 1]])
SortCommands(items) ==
    LET from == CHOOSE f \in [DOMAIN items -> DOMAIN items] : IsSort(f, items)
    IN  [i \in DOMAIN items |-> items[from[i]]]

\* A batch is a position and a number of commands.
Starts(commands) ==
    {i \in DOMAIN commands : i = 1 \/ BatchKey(commands[i - 1]) # BatchKey(commands[i])}
BatchesOf(commands) ==
    {[first |-> i, count |-> Cardinality({j \in DOMAIN commands :
                                 j >= i /\ \A s \in Starts(commands) : s > i => j < s})] :
     i \in Starts(commands)}

Prepare ==
    LET commands == SortCommands(Items)
    IN  /\ frame.stage = "WORLD"
        /\ frame' = [frame EXCEPT !.stage = "PLAN", !.commands = commands,
                                  !.batches = BatchesOf(commands)]
        /\ UNCHANGED <<storeVars, components, prepared>>

-----------------------------------------------------------------------------
(* Prepared objects. They are kept until the presentation is destroyed.    *)

IsPrepared(set, lease) ==
    \E p \in set : p.lease.resource = lease.resource /\ p.lease.version = lease.version

PrepareMesh(handle) ==
    LET lease == Lease(handle)
    IN  /\ status[handle] = "LIVE" /\ Class[handle] = "mesh"
        /\ lease # NoLease /\ ~IsPrepared(prepared.meshes, lease)
        /\ prepared' = [prepared EXCEPT !.meshes = @ \cup {[lease |-> lease]}]
        /\ UNCHANGED <<storeVars, components, frame>>

\* Images and samplers are found by identity, the newest first.
PrepareBound(handle) ==
    LET lease == Lease(handle)
        known == {prepared.bound[i] : i \in DOMAIN prepared.bound}
    IN  /\ status[handle] = "LIVE" /\ Class[handle] \in {"image", "sampler"}
        /\ lease # NoLease /\ ~IsPrepared(known, lease)
        /\ prepared' = [prepared EXCEPT !.bound =
                          Append(@, [lease |-> lease, identity |-> Identity[handle]])]
        /\ UNCHANGED <<storeVars, components, frame>>

NewestBound(identity) ==
    CHOOSE i \in DOMAIN prepared.bound :
        /\ prepared.bound[i].identity = identity
        /\ \A j \in i + 1 .. Len(prepared.bound) : prepared.bound[j].identity # identity

\* A version is prepared with one pipeline; another one is refused.
PrepareMaterial(handle, pipeline) ==
    LET lease == Lease(handle)
    IN  /\ status[handle] = "LIVE" /\ Class[handle] = "material"
        /\ lease # NoLease /\ ~IsPrepared(prepared.materials, lease)
        /\ \A identity \in Binds :
              \E i \in DOMAIN prepared.bound : prepared.bound[i].identity = identity
        /\ prepared' = [prepared EXCEPT !.materials = @ \cup
                          {[lease |-> lease, pipeline |-> pipeline,
                            sets |-> [identity \in Binds |-> NewestBound(identity)]]}]
        /\ UNCHANGED <<storeVars, components, frame>>

-----------------------------------------------------------------------------
(* Recording: every draw finds its prepared mesh and material, or the frame *)
(* fails before anything is recorded; either way it is over.               *)

IsOf(object, lease) ==
    object.lease.resource = lease.resource /\ object.lease.version = lease.version
FindMesh(command) == {p \in prepared.meshes : IsOf(p, command.mesh)}
FindMaterial(command) == {p \in prepared.materials : IsOf(p, command.material)}

Render ==
    /\ frame.stage = "PLAN"
    /\ frame' = [NoFrame EXCEPT !.chunks = frame.chunks]
    /\ UNCHANGED <<storeVars, components, prepared>>

ExtractionNext ==
    \/ StoreNext /\ UNCHANGED drawVars
    \/ \E object \in 1 .. Objects, mesh, material \in Handles : Assign(object, mesh, material)
    \/ ScheduleRenderWorldExtraction
    \/ \E c \in 1 .. ChunkCount : AcquireMesh(c) \/ AcquireMaterial(c)
    \/ Join
    \/ Prepare
    \/ \E handle \in Handles :
          \/ PrepareMesh(handle)
          \/ PrepareBound(handle)
          \/ \E pipeline \in Pipelines : PrepareMaterial(handle, pipeline)
    \/ Render

ExtractionSpec == InitDraw /\ [][ExtractionNext]_<<storeVars, drawVars>>

-----------------------------------------------------------------------------
(* Properties. *)

\* The join neither publishes nor fails, and so does not let the frame and the
\* storage of its components go, while a chunk still reads them.
ReadersEndFirst == frame.stage # "EXTRACT" => \A c \in DOMAIN frame.chunks : ChunkEnded(c)

\* The snapshot holds objects in the order of the world, each with leases of
\* what its component refers to under a version that was published.
SnapshotIsPublished ==
    /\ \A i, j \in DOMAIN frame.objects : i < j => frame.objects[i].id < frame.objects[j].id
    /\ \A i \in DOMAIN frame.objects :
          LET object == frame.objects[i]
          IN  /\ object.mesh.version \in 1 .. versions[object.mesh.resource]
              /\ object.material.version \in 1 .. versions[object.material.resource]
              /\ components[object.id] = [mesh |-> object.mesh.resource,
                                          material |-> object.material.resource]

\* Batches part the commands, and commands that may share a batch do.
BatchesAreRuns ==
    LET Of(b) == b.first .. b.first + b.count - 1
    IN  /\ UNION {Of(b) : b \in frame.batches} = DOMAIN frame.commands
        /\ \A i, j \in DOMAIN frame.commands :
              BatchKey(frame.commands[i]) = BatchKey(frame.commands[j])
              <=> \E b \in frame.batches : {i, j} \subseteq Of(b)

\* A draw shows the payloads its frame leased, whatever was unloaded, loaded
\* again or prepared since.
DrawsShowTheirLeases ==
    \A i \in DOMAIN frame.commands :
        LET command == frame.commands[i]
        IN  /\ \A found \in FindMesh(command) : found.lease = command.mesh
            /\ \A found \in FindMaterial(command) : found.lease = command.material

\* A frame shows what it leased, in whole batches, and ends after its readers.
DrawsAreTrue ==
    ReadersEndFirst /\ SnapshotIsPublished /\ BatchesAreRuns /\ DrawsShowTheirLeases
=============================================================================
