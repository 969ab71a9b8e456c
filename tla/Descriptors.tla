---------------------------- MODULE Descriptors ----------------------------
(***************************************************************************)
(* The descriptor sets of materials                                        *)
(* (graphics/vulkan/descriptor_manager.cpp).  A set is written once and     *)
(* cached under a key made of the request; the same request gets the same  *)
(* set for the life of the manager.  Callers report until which completion *)
(* a set is used, and which completions they observed.                     *)
(***************************************************************************)
EXTENDS Integers, Sequences, FiniteSets

CONSTANTS Requests,      \* layouts with the bindings resolved for them, see Request
          PoolSize,      \* DESCRIPTOR_POOL_SET_COUNT
          Alignment, MaxRange,    \* VulkanDescriptorLimits
          MaxUses        \* bound on the submissions that use a set

(* A request: per slot the declared type and visibility, and per binding   *)
(* the type, the objects (resource, version, handle) and the range.        *)
Request == [layout : Seq([slot : Nat, type : STRING, visible : SUBSET STRING]),
            bindings : Seq([slot : Nat, type : STRING, objects : Seq(Seq(Nat)),
                            offset : Nat, size : Nat])]

ASSUME DescriptorsAssumption == /\ Requests \subseteq Request
                                /\ PoolSize \in Nat /\ MaxUses \in Nat
                                /\ Alignment \in Nat \ {0} /\ MaxRange \in Nat \ {0}

VARIABLES cache,       \* m_cache: [key, set]
          written,     \* set -> the bindings WriteSet wrote
          leases,      \* what callers hold: [request, set]
          inFlight,    \* m_inFlightCompletions
          uses,        \* submissions that use a set: [value, set]
          clock,       \* [next, done, reported] values of the caller's timeline
          ended        \* "no", "destroyed" or "terminated"

descriptorVars == <<cache, written, leases, inFlight, uses, clock, ended>>

SetElements(s) == {s[k] : k \in 1 .. Len(s)}

---------------------------------------------------------------------------
(* Requests *)

ObjectCount(type) == CASE type = "combined" -> 2 [] OTHER -> 1

ValidateBufferBinding(b) == /\ b.size > 0 /\ b.size <= MaxRange
                            /\ b.offset % Alignment = 0

(* every handle and every version is set *)
ValidateBinding(b) ==
    /\ Len(b.objects) = ObjectCount(b.type)
    /\ \A o \in SetElements(b.objects) : o[2] # 0 /\ o[3] # 0
    /\ b.type \in {"uniform", "storage"} => ValidateBufferBinding(b)

ValidateLayout(layout) ==
    layout # <<>> /\ \A e \in SetElements(layout) : e.visible # {}

(* Slots are declared once, bound once and with the declared type.         *)
ValidateRequest(r) ==
    /\ ValidateLayout(r.layout) /\ Len(r.layout) = Len(r.bindings)
    /\ \A k, m \in 1 .. Len(r.layout) : r.layout[k].slot = r.layout[m].slot => k = m
    /\ \A k, m \in 1 .. Len(r.bindings) : r.bindings[k].slot = r.bindings[m].slot => k = m
    /\ \A b \in SetElements(r.bindings) :
          /\ ValidateBinding(b)
          /\ \E e \in SetElements(r.layout) : e.slot = b.slot /\ e.type = b.type

(* the version of a resource is not part of the key *)
MutantMakeKey(r) ==
    [layout |-> SetElements(r.layout),
     bindings |-> {[b EXCEPT !.objects = [k \in 1 .. Len(b.objects) |->
                       <<b.objects[k][1], b.objects[k][3]>>]] : b \in SetElements(r.bindings)}]

(* The key sorts both lists by slot: their order does not matter.          *)
MakeKey(r) == [layout |-> SetElements(r.layout), bindings |-> SetElements(r.bindings)]

(* What WriteSet puts in a slot: the objects behind the handles, the range. *)
WriteSet(r) == {[slot |-> b.slot, type |-> b.type, objects |-> b.objects,
                 offset |-> b.offset, size |-> b.size] : b \in SetElements(r.bindings)}

---------------------------------------------------------------------------

DescriptorInit ==
        /\ cache = {} /\ written = <<>> /\ leases = {} /\ inFlight = {} /\ uses = {}
        /\ clock = [next |-> 1, done |-> 0, reported |-> 0] /\ ended = "no"

Found(r) == {c \in cache : c.key = MakeKey(r)}

(* Acquire finds the set or makes one; a pool without a set left throws    *)
(* and leaves the cache as it was.                                         *)
Acquire(r) ==
    /\ ended = "no" /\ ValidateRequest(r)
    /\ UNCHANGED <<inFlight, uses, clock, ended>>
    /\ \/ \E c \in Found(r) : /\ leases' = leases \cup {[request |-> r, set |-> c.set]}
                              /\ UNCHANGED <<cache, written>>
       \/ /\ Found(r) = {} /\ Len(written) < PoolSize
          /\ LET set == Len(written) + 1
             IN  /\ cache' = cache \cup {[key |-> MakeKey(r), set |-> set]}
                 /\ written' = Append(written, WriteSet(r))
                 /\ leases' = leases \cup {[request |-> r, set |-> set]}

(* A submission uses a set; its caller retains the set until completion.   *)
RetainUntil(l) ==
    /\ ended = "no" /\ clock.next <= MaxUses
    /\ clock' = [clock EXCEPT !.next = @ + 1]
    /\ uses' = uses \cup {[value |-> clock.next, set |-> l.set]}
    /\ inFlight' = inFlight \cup {clock.next}
    /\ UNCHANGED <<cache, written, leases, ended>>

DescriptorGpuCompletes ==
    /\ clock.done < clock.next - 1
    /\ clock' = [clock EXCEPT !.done = @ + 1]
    /\ uses' = {u \in uses : u.value # clock.done + 1}
    /\ UNCHANGED <<cache, written, leases, inFlight, ended>>

(* Callers report only completions they observed.                          *)
StillInFlight(value) == {v \in inFlight : v > value}

ReleaseCompletedSets ==
    /\ ended = "no" /\ clock' = [clock EXCEPT !.reported = clock.done]
    /\ inFlight' = StillInFlight(clock.done)
    /\ UNCHANGED <<cache, written, leases, uses, ended>>

(* The destructor terminates the program when a use is not reported.       *)
DestroyDescriptors ==
           /\ ended = "no"
           /\ ended' = IF inFlight = {} THEN "destroyed" ELSE "terminated"
           /\ UNCHANGED <<cache, written, leases, inFlight, uses, clock>>

DescriptorNext == \/ \E r \in Requests : Acquire(r)
                  \/ \E l \in leases : RetainUntil(l)
                  \/ DescriptorGpuCompletes \/ ReleaseCompletedSets \/ DestroyDescriptors

DescriptorSpec == DescriptorInit /\ [][DescriptorNext]_descriptorVars

---------------------------------------------------------------------------

(* A lease always shows what its request asked for, although sets are      *)
(* shared through the cache, requests list their bindings in any order and  *)
(* handles are used again by later versions of a resource.                 *)
LeasesShowTheirRequest ==
    \A l \in leases : written[l.set] = WriteSet(l.request)

(* Each key has one set and each set one key.                              *)
SetsAreCachedOnce == \A c, d \in cache : c.key = d.key \/ c.set = d.set => c = d

(* The pool is never destroyed under a submission the GPU still performs.  *)
NoUseOutlivesThePool == ended = "destroyed" => uses = {}

(* A set bound again is the set that was asked for, as long as it is used.  *)
DescriptorsAreSafe == LeasesShowTheirRequest /\ SetsAreCachedOnce /\ NoUseOutlivesThePool

=============================================================================
