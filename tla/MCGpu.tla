------------------------------- MODULE MCGpu -------------------------------
(***************************************************************************)
(* From the world to the screen, side by side: the entities of a world, the *)
(* draws extracted from it, the render graph, and below them the handles,   *)
(* states, uploads, descriptors and frames of the GPU.  A behaviour is one  *)
(* of one component, the others resting in their initial states.  Extraction *)
(* runs on LeaseStore, which the resource manager implements (ServesLeases). *)
(***************************************************************************)
EXTENDS WorldEntities, Extraction, RenderGraph, GraphicsObjects, ResourceStates,
        Uploads, Descriptors, PresentPath

CONSTANTS d1, d2     \* destinations of uploads

(* A world with one system.  With three entities no second command waits. *)
MCSystems == <<1>>
MaxWork == 4     \* bound on the entities issued and the commands waiting

(* A mesh that may be published twice, a material and the image it binds.     *)
MCClass == <<"mesh", "material", "image">>
MCIdentity == <<1, 2, 3>>
MCMaxVersions == <<2, 1, 1>>

(* A frame that clears or loads the screen, with an image it may draw first. *)
Imported(o, k, i, f, c) == [object |-> o, kind |-> k, initial |-> i, final |-> f, caps |-> c]
MCImports ==
  {Imported("target", "SWAPCHAIN", "UNDEFINED", "PRESENT", {"COLOR_ATTACHMENT_WRITE"}),
   Imported("image", "IMAGE", "UNDEFINED", "SAMPLED_READ",
          {"COLOR_ATTACHMENT_WRITE", "SAMPLED_READ", "GPU_READ"})}
Attachment(r, l, s) == [resource |-> r, depth |-> FALSE, load |-> l, store |-> s]
Form(sampled, attachments) ==
  [reads |-> {[resource |-> r, usage |-> "SAMPLED_READ"] : r \in sampled},
   attachments |-> attachments, writes |-> {WriteOf(a) : a \in attachments},
   draws |-> attachments # {}]
Cleared == Attachment(1, "CLEAR", "STORE")
MCForms ==
       {Form({}, {Attachment(1, l, "STORE")}) : l \in Loads}
  \cup {Form({}, {Attachment(2, "CLEAR", s)}) : s \in Stores}
  \cup {Form({}, {Attachment(2, "LOAD", "STORE")})}
  \cup {Form({2}, {Cleared}), Form({2}, {}), Form({1}, {Cleared})}

(* Two owners of graphics objects; images have two descriptors and views two *)
(* levels. *)
MCKinds == <<{"pipeline", "image", "view"}, {"image", "buffer", "sampler"}>>
MCDescriptors ==
  [pipeline |-> {[tag |-> 1]},
   buffer |-> {[size |-> s, usage |-> {"vertex"}, access |-> {"r"}] : s \in {0, 1}},
   sampler |-> {[minLod |-> 0, maxLod |-> 1]},
   image |-> {[extent |-> <<2, 1, 1>>, mips |-> m, layers |-> 1, usage |-> {"sampled"},
               access |-> {"r"}, format |-> "color"] : m \in {2, 3}},
   view |-> {[image |-> NoHandle, aspects |-> {"color"}, format |-> "color", base |-> b,
              levels |-> 1] : b \in {1, 2}}]
MCMaxGeneration ==
  [k \in AllKinds |-> IF k = "image" THEN 3 ELSE 2]

(* Batches that fit an arena, fill it and exceed it. *)
MCBatches == {<<[to |-> d1, size |-> 3]>>,
              <<[to |-> d1, size |-> 3], [to |-> d2, size |-> 2]>>,
              <<[to |-> d2, size |-> 8]>>}

(* Descriptor sets that differ in an object, an offset or their order only.  *)
Slotted(s, t) == [slot |-> s, type |-> t, visible |-> {"vertex"}]
Uniform(v, o) == [slot |-> 0, type |-> "uniform", objects |-> <<<<1, v, 7>>>>,
                  offset |-> o, size |-> 4]
Texture(v) == [slot |-> 1, type |-> "combined", objects |-> <<<<2, v, 5>>, <<3, 1, 9>>>>,
               offset |-> 0, size |-> 0]
First == Slotted(0, "uniform")
Second == Slotted(1, "combined")
MCRequests ==
       {[layout |-> <<First, Second>>, bindings |-> <<Uniform(1, 0), Texture(v)>>] : v \in {1, 2}}
  \cup {[layout |-> <<Second, First>>, bindings |-> <<Texture(1), Uniform(1, 0)>>]}
  \cup {[layout |-> <<First>>, bindings |-> <<Uniform(1, o)>>] : o \in {3, 4}}

(* A surface that dictates no extent, with no upper limit of images, and one *)
(* that is minimized. *)
MCSurfaces == {[current |-> Unset, low |-> 1, high |-> 2, minImages |-> 1, maxImages |-> 0],
               [current |-> 0, low |-> 1, high |-> 2, minImages |-> 2, maxImages |-> 2]}

-----------------------------------------------------------------------------
VARIABLE part     \* the component that runs

drawingVars == <<storeVars, drawVars>>

MCInit ==
  /\ part \in {"world", "draws", "graph", "objects", "states", "uploads",
               "descriptors", "path"}
  /\ WorldInit /\ InitDraw /\ GraphInit /\ ObjectInit /\ StateInit /\ UploadInit
  /\ DescriptorInit /\ PathInit
  \* What rests does so in one of its initial states.
  /\ part # "states" => kind = "buffer"
  /\ part # "path" => path.size = 0

MCVars == <<part, worldVars, drawingVars, graphVars, objectVars, stateVars, uploadVars,
            descriptorVars, pathVars>>

MCNext ==
  \/ /\ part = "world" /\ WorldNext /\ issued'.count + Waiting' <= MaxWork
     /\ UNCHANGED <<part, drawingVars, graphVars, objectVars, stateVars, uploadVars,
                    descriptorVars, pathVars>>
  \/ /\ part = "draws" /\ ExtractionNext
     /\ UNCHANGED <<part, worldVars, graphVars, objectVars, stateVars, uploadVars,
                    descriptorVars, pathVars>>
  \/ /\ part = "graph" /\ GraphNext
     /\ UNCHANGED <<part, worldVars, drawingVars, objectVars, stateVars, uploadVars,
                    descriptorVars, pathVars>>
  \/ /\ part = "objects" /\ ObjectNext
     /\ UNCHANGED <<part, worldVars, drawingVars, graphVars, stateVars, uploadVars,
                    descriptorVars, pathVars>>
  \/ /\ part = "states" /\ StateNext
     /\ UNCHANGED <<part, worldVars, drawingVars, graphVars, objectVars, uploadVars,
                    descriptorVars, pathVars>>
  \/ /\ part = "uploads" /\ UploadNext
     /\ UNCHANGED <<part, worldVars, drawingVars, graphVars, objectVars, stateVars,
                    descriptorVars, pathVars>>
  \/ /\ part = "descriptors" /\ DescriptorNext
     /\ UNCHANGED <<part, worldVars, drawingVars, graphVars, objectVars, stateVars,
                    uploadVars, pathVars>>
  \/ /\ part = "path" /\ PathNext
     /\ UNCHANGED <<part, worldVars, drawingVars, graphVars, objectVars, stateVars,
                    uploadVars, descriptorVars>>

MCSpec == MCInit /\ [][MCNext]_MCVars

(* What the CPU hands to the GPU - memory, states, sets, images - lasts and  *)
(* is in order until the GPU is done (ResourceStates, Uploads, Descriptors,  *)
(* PresentPath). *)
GpuWorkIsSafe == StatesAreSafe /\ UploadsAreSafe /\ DescriptorsAreSafe /\ PathIsSafe
=============================================================================
