-------------------------- MODULE GraphicsObjects --------------------------
(***************************************************************************)
(* The objects a Graphics hands out (graphics/graphics.cpp).  Buffers,     *)
(* pipelines, images, views and samplers each have a table from the values *)
(* of the backend to a descriptor and a generation; a handle names its     *)
(* owner, value and generation.  The backend is external: it may throw,    *)
(* answer 0, a value it used before or one that is still in use.           *)
(***************************************************************************)
EXTENDS Integers, FiniteSets

CONSTANTS Owners,          \* the Graphics objects of the program
          Kinds,           \* Kinds[owner]: what is created at each, of AllKinds
          Values,          \* values the backends answer with
          Descriptors,     \* Descriptors[kind]: what callers ask for
          MaxGeneration,   \* numeric_limits<uint64_t>::max(), of each kind
          MaxFramesInFlight, MaxSubmits

AllKinds == {"buffer", "pipeline", "image", "view", "sampler"}

ASSUME GraphicsObjectsAssumption ==
    /\ Owners \subseteq Nat \ {0} /\ Values \subseteq Nat \ {0}
    /\ Kinds \in [Owners -> SUBSET AllKinds]
    /\ MaxGeneration \in [AllKinds -> Nat \ {0}] /\ MaxSubmits \in Nat /\ MaxFramesInFlight \in Nat \ {0}
    /\ \A d \in Descriptors["view"] : "image" \in DOMAIN d

VARIABLES records,      \* records[owner][kind]: value -> descriptor and generation
          next,         \* next[owner][kind]: the next generation
          handles,      \* every handle and completion point callers were given
          objects,      \* backend objects: [owner, kind, value, of, until]
          timelines,    \* [submitted, done] values of each owner's backend
          givenBack     \* handles whose object a refused creation destroyed;
                        \* no step reads it

objectVars == <<records, next, handles, objects, timelines, givenBack>>

InUse == -1   \* until of an object that was not destroyed
NoCompletion == 0
NoHandle == [owner |-> 0, kind |-> "image", value |-> 0, generation |-> 0]

---------------------------------------------------------------------------
(* Descriptors *)

ExpectedImageAspect(format) == IF format = "depth" THEN {"depth"} ELSE {"color"}

CalculateMaxMipLevels(extent) ==
    LET most == IF extent[1] > extent[2] THEN extent[1] ELSE extent[2]
    IN  CHOOSE levels \in 1 .. most : 2^(levels - 1) <= most /\ most < 2^levels

KnownUsages == {"vertex", "transfer", "color", "depth", "sampled"}

ValidBuffer(d) == d.size > 0 /\ d.usage # {} /\ d.usage \subseteq KnownUsages /\ d.access # {}

ValidImage(d) ==
    /\ d.extent[1] > 0 /\ d.extent[2] > 0 /\ d.extent[3] = 1
    /\ d.mips > 0 /\ d.mips <= CalculateMaxMipLevels(d.extent) /\ d.layers = 1
    /\ d.usage # {} /\ d.usage \subseteq KnownUsages /\ d.access # {}
    /\ (IF d.format = "depth" THEN "color" ELSE "depth") \notin d.usage

(* a view needs a live image, its aspect, its format and a range of it     *)
ValidView(d, image) ==
    /\ d.aspects = ExpectedImageAspect(image.format) /\ d.format = image.format
    /\ d.levels > 0 /\ d.base < image.mips /\ d.levels <= image.mips - d.base

ValidSampler(d) == d.minLod >= 0 /\ d.maxLod >= d.minLod

---------------------------------------------------------------------------
(* Handles *)

HasRecord(o, kind, value) == value \in DOMAIN records[o][kind]

(* only the value is looked up *)
MutantResolves(o, h) == /\ h.owner = o /\ HasRecord(o, h.kind, h.value)

Resolves(o, h) == /\ h.owner = o /\ HasRecord(o, h.kind, h.value)
                  /\ records[o][h.kind][h.value].generation = h.generation

HandleOf(o, kind, value) == [owner |-> o, kind |-> kind, value |-> value,
                             generation |-> records[o][kind][value].generation]

ValidateCompletionOwner(o, c) == c.value # NoCompletion => c.owner = o

(* The descriptor passes the checks of its kind; the image of a view       *)
(* descriptor is a handle the caller holds.                                *)
Accepts(o, kind, d) ==
    CASE kind = "buffer" -> ValidBuffer(d)
      [] kind = "image" -> ValidImage(d)
      [] kind = "sampler" -> ValidSampler(d)
      [] kind = "view" -> /\ Resolves(o, d.image)
                          /\ ValidView(d, records[o]["image"][d.image.value].descriptor)
      [] OTHER -> TRUE

Asked(kind) ==
    IF kind # "view" THEN Descriptors[kind]
    ELSE {[d EXCEPT !.image = h] : d \in Descriptors[kind],
                                   h \in {x \in handles : x.kind = "image"}}

---------------------------------------------------------------------------
(* The backend *)

Named(o, kind, value) == {x \in objects : x.owner = o /\ x.kind = kind /\ x.value = value}

(* An object destroyed after a completion stays until the GPU is there.    *)
Collected(set, o, done) == {x \in set : x.owner = o => x.until = InUse \/ x.until > done}

BackendDestroys(o, kind, value, until) ==
    objects' = Collected({IF x \in Named(o, kind, value) /\ x.until = InUse
                          THEN [x EXCEPT !.until = until] ELSE x : x \in objects},
                         o, timelines[o].done)

BackendMakes(o, kind, value, d) ==
    objects' = objects \cup {[owner |-> o, kind |-> kind, value |-> value, of |-> next[o][kind],
                                 image |-> IF kind = "view" THEN d.image ELSE NoHandle,
                                 until |-> InUse]}

---------------------------------------------------------------------------

ObjectInit ==
    /\ records = [o \in Owners |-> [k \in AllKinds |-> <<>>]]
    /\ next = [o \in Owners |-> [k \in AllKinds |-> 1]]
    /\ handles = {} /\ objects = {} /\ givenBack = {}
    /\ timelines = [o \in Owners |-> [submitted |-> 0, done |-> 0]]

(* A new value gets a record and a handle with the next generation.        *)
Create(o, kind, d) ==
    /\ kind \in Kinds[o] /\ Accepts(o, kind, d) /\ next[o][kind] < MaxGeneration[kind]
    /\ UNCHANGED <<timelines, givenBack>>
    /\ \E value \in Values :
          /\ Named(o, kind, value) = {} /\ ~HasRecord(o, kind, value)
          /\ BackendMakes(o, kind, value, d)
          /\ LET record == [descriptor |-> d, generation |-> next[o][kind]]
             IN  records' = [records EXCEPT ![o][kind] =
                     [v \in DOMAIN @ \cup {value} |-> IF v = value THEN record ELSE @[v]]]
          /\ next' = [next EXCEPT ![o][kind] = @ + 1]
          /\ handles' = handles \cup {[owner |-> o, kind |-> kind, value |-> value,
                                       generation |-> next[o][kind]]}

(* the record of a value in use is overwritten *)
MutantCreateDuplicate(o, kind, d) ==
    /\ kind \in Kinds[o] /\ Accepts(o, kind, d) /\ next[o][kind] < MaxGeneration[kind]
    /\ UNCHANGED <<objects, timelines, givenBack>>
    /\ next' = [next EXCEPT ![o][kind] = @ + 1]
    /\ \E value \in {v \in Values : HasRecord(o, kind, v)} :
          /\ records' = [records EXCEPT ![o][kind][value] =
                             [descriptor |-> d, generation |-> next[o][kind]]]
          /\ handles' = handles \cup {[owner |-> o, kind |-> kind, value |-> value,
                                       generation |-> next[o][kind]]}

(* A value that has a record is refused and the record stays.  Pipelines   *)
(* are looked up before the guard exists; the guard of the other kinds     *)
(* destroys what has the value, although its handle still resolves.        *)
CreateDuplicate(o, kind, d) ==
    /\ kind \in Kinds[o] /\ Accepts(o, kind, d) /\ next[o][kind] < MaxGeneration[kind]
    /\ UNCHANGED <<records, next, handles, timelines>>
    /\ \E value \in {v \in Values : HasRecord(o, kind, v)} :
          IF kind = "pipeline" THEN UNCHANGED <<objects, givenBack>>
          ELSE /\ BackendDestroys(o, kind, value, NoCompletion)
               /\ givenBack' = givenBack \cup {HandleOf(o, kind, value)}

(* a view of this image, made from this handle, is not destroyed *)
HasLiveViews(o, h) ==
    /\ h.kind = "image"
    /\ \E v \in DOMAIN records[o]["view"] :
          LET image == records[o]["view"][v].descriptor.image
          IN  image.value = h.value /\ image.generation = h.generation

(* An object is destroyed now, or after a completion of the same owner.    *)
Destroy(o, h, c) ==
    /\ Resolves(o, h) /\ ~HasLiveViews(o, h) /\ ValidateCompletionOwner(o, c)
    /\ BackendDestroys(o, h.kind, h.value, c.value)
    /\ records' = [records EXCEPT ![o][h.kind] =
           [v \in DOMAIN @ \ {h.value} |-> @[v]]]
    /\ UNCHANGED <<next, handles, timelines, givenBack>>

(* A submission of a slot in range gets a completion point of the owner.   *)
SubmitFrame(o, slot) ==
    /\ slot < MaxFramesInFlight /\ timelines[o].submitted < MaxSubmits
    /\ timelines' = [timelines EXCEPT ![o].submitted = @ + 1]
    /\ UNCHANGED <<records, next, handles, objects, givenBack>>

GpuCompletes(o) ==
    /\ timelines[o].done < timelines[o].submitted
    /\ timelines' = [timelines EXCEPT ![o].done = @ + 1]
    /\ objects' = Collected(objects, o, timelines[o].done + 1)
    /\ UNCHANGED <<records, next, handles, givenBack>>

Completions == {[owner |-> o, value |-> v] : o \in Owners, v \in 0 .. MaxSubmits}
Given(c) == c.value <= timelines[c.owner].submitted

Creates(o, kind) ==
    \E d \in Asked(kind) : Create(o, kind, d) \/ CreateDuplicate(o, kind, d)
CreateBuffer(o) == Creates(o, "buffer")
CreateGraphicsPipeline(o) == Creates(o, "pipeline")
CreateImage(o) == Creates(o, "image")
CreateImageView(o) == Creates(o, "view")
CreateSampler(o) == Creates(o, "sampler")

Destroys(o, kind) ==
    \E h \in {x \in handles : x.kind = kind}, c \in {x \in Completions : Given(x)} :
       Destroy(o, h, c)
DestroyBuffer(o) == Destroys(o, "buffer")
DestroyGraphicsPipeline(o) == Destroys(o, "pipeline")
DestroyImage(o) == Destroys(o, "image")
DestroyImageView(o) == Destroys(o, "view")
DestroySampler(o) == Destroys(o, "sampler")

ObjectNext ==
    \E o \in Owners :
       \/ CreateBuffer(o) \/ CreateGraphicsPipeline(o) \/ CreateImage(o)
       \/ CreateImageView(o) \/ CreateSampler(o)
       \/ DestroyBuffer(o) \/ DestroyGraphicsPipeline(o) \/ DestroyImage(o)
       \/ DestroyImageView(o) \/ DestroySampler(o)
       \/ \E slot \in 0 .. MaxFramesInFlight : SubmitFrame(o, slot)
       \/ GpuCompletes(o)

ObjectSpec == ObjectInit /\ [][ObjectNext]_objectVars

---------------------------------------------------------------------------

Live(o, kind, value) == {x \in Named(o, kind, value) : x.until = InUse}

(* A handle that resolves leads to the object it was made for, although    *)
(* the backend uses values again and two Graphics use the same ones.  If a *)
(* creation that was refused destroyed that object it leads to none.       *)
HandlesAreFaithful ==
    \A o \in Owners, h \in handles :
       Resolves(o, h) =>
          IF h \in givenBack THEN h.kind # "pipeline" /\ Live(o, h.kind, h.value) = {}
          ELSE \E x \in Live(o, h.kind, h.value) : x.of = h.generation

(* The image of a view in use was not destroyed by its owner.              *)
ViewsHaveTheirImage ==
    \A x \in objects : x.kind = "view" /\ x.until = InUse =>
        \/ x.image \in givenBack
        \/ \E y \in Live(x.owner, "image", x.image.value) : y.of = x.image.generation

(* Every object that was not destroyed has a record, and a record has its  *)
(* object unless that was given back.                                      *)
NothingLeaks ==
    \A o \in Owners, kind \in AllKinds, value \in Values :
       Live(o, kind, value) # {} <=>
          HasRecord(o, kind, value) /\ HandleOf(o, kind, value) \notin givenBack

(* An object given up until a completion is there until the GPU is there.  *)
WaitsAreKept == \A x \in objects : x.until \in {InUse} \cup timelines[x.owner].done + 1 .. MaxSubmits

(* A handle names what it was created for until the GPU is done with it, or *)
(* nothing, and never another object.                                      *)
ObjectsAreSafe == HandlesAreFaithful /\ ViewsHaveTheirImage /\ NothingLeaks /\ WaitsAreKept
=============================================================================
