------------------------------ MODULE Resources ------------------------------
(***************************************************************************)
(* The resource manager (resources/resource_manager.cpp): a slot for every *)
(* requested identity, the states of its loading, and the handles,         *)
(* operations and versions that callers keep across unloads, reloads and   *)
(* the reuse of a slot.  Every call takes the manager's mutex, so a call   *)
(* is one step; a call the code refuses by an exception changes nothing    *)
(* and is a step that is not enabled.                                      *)
(*                                                                         *)
(* The payload of a load is named by its operation, the failure of a load  *)
(* by the state FAILED; the type of a resource by its identity, a request  *)
(* under another type being refused.                                       *)
(***************************************************************************)
EXTENDS Naturals, Sequences, FiniteSets

CONSTANTS
    Identities,       \* the identities callers request
    NoIdentity,       \* the identity of an entry nobody occupies
    MaxOperations,    \* bound on loads begun
    MaxGeneration     \* bound on the generation of a slot

ASSUME ResourcesAssumption ==
    /\ IsFiniteSet(Identities) /\ NoIdentity \notin Identities
    /\ MaxOperations \in Nat /\ MaxGeneration \in Nat

VARIABLES
    entries,       \* the slots, by position
    index,         \* the slot of each requested identity
    handles,       \* the handles given out, with the identity they were asked for
    operations,    \* the loads begun, each with how it ended
    published      \* the payload of every version a handle ever had

resourceVars == <<entries, index, handles, operations, published>>

EntryStates == {"UNLOADED", "LOADING", "READY", "FAILED", "UNLOADING"}
Outcomes == {"READY", "FAILED", "UNLOADED"}

Free == [occupied |-> FALSE, identity |-> NoIdentity, state |-> "UNLOADED",
         generation |-> 0, operation |-> 0, cancelled |-> 0, version |-> 0, payload |-> 0]

ResourceInit ==
    /\ entries = <<>> /\ index = <<>> /\ handles = {}
    /\ operations = <<>> /\ published = {}

-----------------------------------------------------------------------------
(* Handles.                                                                *)

HandleOf(slot, generation) == [slot |-> slot, generation |-> generation]

ValidateUntyped(handle) ==
    /\ handle.slot \in DOMAIN entries
    /\ entries[handle.slot].occupied
    /\ entries[handle.slot].generation = handle.generation

IsCancellationRequested(operation) ==
    /\ ValidateUntyped(operation.handle)
    /\ entries[operation.handle.slot].cancelled = operation.number

\* The first slot that nobody occupies, or a new one.
SlotToUse ==
    CHOOSE slot \in 1 .. Len(entries) + 1 :
        /\ slot \in DOMAIN entries => ~entries[slot].occupied
        /\ \A s \in 1 .. slot - 1 : entries[s].occupied

MutantRequested(entry, identity) ==
    [Free EXCEPT !.generation = 1, !.occupied = TRUE, !.identity = identity]
Requested(entry, identity) ==
    [entry EXCEPT !.generation = @ + 1, !.occupied = TRUE, !.identity = identity,
                  !.state = "UNLOADED", !.cancelled = 0, !.version = 0, !.payload = 0]

Request(identity) ==
    LET slot == IF identity \in DOMAIN index THEN index[identity] ELSE SlotToUse
        old == IF slot \in DOMAIN entries THEN entries[slot] ELSE Free
        new == IF identity \in DOMAIN index THEN old ELSE Requested(old, identity)
    IN  /\ new.generation <= MaxGeneration
        /\ entries' = [s \in DOMAIN entries \cup {slot} |-> IF s = slot THEN new ELSE entries[s]]
        /\ index' = [i \in DOMAIN index \cup {identity} |-> IF i = identity THEN slot ELSE index[i]]
        /\ handles' = handles \cup {[slot |-> slot, generation |-> new.generation,
                                   identity |-> identity]}
        /\ UNCHANGED <<operations, published>>

-----------------------------------------------------------------------------
(* Loading. Loaders keep their operation and may report at any later time. *)

BeginLoading(handle) ==
    LET entry == entries[handle.slot]
    IN  /\ ValidateUntyped(handle)
        /\ entry.state \in {"UNLOADED", "FAILED"}
        /\ Len(operations) < MaxOperations
        /\ entries' = [entries EXCEPT ![handle.slot] =
                         [entry EXCEPT !.operation = @ + 1, !.cancelled = 0,
                                       !.state = "LOADING", !.payload = 0]]
        /\ operations' = Append(operations, [handle |-> HandleOf(handle.slot, handle.generation),
                                             number |-> entry.operation + 1, outcomes |-> <<>>])
        /\ UNCHANGED <<index, handles, published>>

\* The operation is the one the entry is loading for.
MutantMatches(operation) ==
    /\ ValidateUntyped(operation.handle)
    /\ entries[operation.handle.slot].state = "LOADING"
Matches(operation) ==
    /\ ValidateUntyped(operation.handle)
    /\ entries[operation.handle.slot].state = "LOADING"
    /\ entries[operation.handle.slot].operation = operation.number

Ends(k, outcome) == [operations EXCEPT ![k].outcomes = Append(@, outcome)]

PublishReady(k) ==
    LET handle == operations[k].handle
        version == entries[handle.slot].version + 1
    IN  /\ Matches(operations[k])
        /\ entries' = [entries EXCEPT ![handle.slot] =
                         [@ EXCEPT !.version = version, !.payload = k, !.state = "READY"]]
        /\ operations' = Ends(k, "READY")
        /\ published' = published \cup {[resource |-> handle, version |-> version, payload |-> k]}
        /\ UNCHANGED <<index, handles>>

Fail(k) ==
    /\ Matches(operations[k])
    /\ entries' = [entries EXCEPT ![operations[k].handle.slot] =
                     [@ EXCEPT !.payload = 0, !.state = "FAILED"]]
    /\ operations' = Ends(k, "FAILED")
    /\ UNCHANGED <<index, handles, published>>

\* Unloading supersedes the load in progress, whose loader may look for it.
RequestUnload(handle) ==
    LET entry == entries[handle.slot]
        loading == entry.state = "LOADING"
        current == {k \in DOMAIN operations : Matches(operations[k])
                                              /\ operations[k].handle.slot = handle.slot}
    IN  /\ ValidateUntyped(handle)
        /\ entry.state \in {"LOADING", "READY", "FAILED"}
        /\ entries' = [entries EXCEPT ![handle.slot] =
                         [entry EXCEPT !.cancelled = IF loading THEN entry.operation ELSE 0,
                                       !.operation = @ + 1, !.payload = 0,
                                       !.state = "UNLOADING"]]
        /\ operations' = [k \in DOMAIN operations |->
                            IF k \in current
                            THEN [operations[k] EXCEPT !.outcomes = Append(@, "UNLOADED")]
                            ELSE operations[k]]
        /\ UNCHANGED <<index, handles, published>>

CompleteUnload(handle) ==
    /\ ValidateUntyped(handle)
    /\ entries[handle.slot].state = "UNLOADING"
    /\ entries' = [entries EXCEPT ![handle.slot] = [@ EXCEPT !.payload = 0, !.state = "UNLOADED"]]
    /\ UNCHANGED <<index, handles, operations, published>>

Forget(handle) ==
    LET entry == entries[handle.slot]
    IN  /\ ValidateUntyped(handle)
        /\ entry.state = "UNLOADED"
        /\ index' = [i \in DOMAIN index \ {entry.identity} |-> index[i]]
        /\ entries' = [entries EXCEPT ![handle.slot] =
                         [entry EXCEPT !.occupied = FALSE, !.identity = NoIdentity,
                                       !.cancelled = 0, !.version = 0, !.payload = 0,
                                       !.generation = @ + 1]]
        /\ UNCHANGED <<handles, operations, published>>

ResourceNext ==
    \/ \E identity \in Identities : Request(identity)
    \/ \E handle \in handles :
          \/ BeginLoading(handle)
          \/ RequestUnload(handle)
          \/ CompleteUnload(handle)
          \/ Forget(handle)
    \/ \E k \in DOMAIN operations : PublishReady(k) \/ Fail(k)

-----------------------------------------------------------------------------
(* Properties. *)

\* The index and the slots agree, and a handle a caller kept, however old,
\* denotes the identity it was asked for or nothing at all.
HandlesKeepTheirIdentity ==
    /\ \A i \in DOMAIN index : entries[index[i]].occupied /\ entries[index[i]].identity = i
    /\ \A s \in DOMAIN entries : entries[s].occupied => entries[s].identity \in DOMAIN index
    /\ \A h \in handles : ValidateUntyped(h) => entries[h.slot].identity = h.identity

\* A load ends once: a loader that reports after its resource was unloaded,
\* forgotten or loaded again reports to nobody.
LoadsEndOnce == \A k \in DOMAIN operations : Len(operations[k].outcomes) <= 1

\* A handle and a version name one payload for ever, although versions start
\* again when a slot is reused: that is what prepared GPU objects are kept by.
VersionsNamePayloads ==
    \A p, q \in published :
        p.resource = q.resource /\ p.version = q.version => p = q

\* The newest load of a resource sees that it was superseded, from the moment
\* of the unload and only then.
CancellationIsSeen ==
    \A k \in DOMAIN operations :
        LET operation == operations[k]
            newest == \A j \in DOMAIN operations :
                         operations[j].handle = operation.handle => j <= k
        IN  newest /\ ValidateUntyped(operation.handle) =>
               (IsCancellationRequested(operation) <=> operation.outcomes = <<"UNLOADED">>)

\* Handles, loads and versions stay what they were for callers that keep them.
ResourcesAreSafe ==
    HandlesKeepTheirIdentity /\ LoadsEndOnce /\ VersionsNamePayloads /\ CancellationIsSeen

\* The manager implements the store of leases: what TryAcquire gives for a
\* handle is its newest version or nothing, and a version never comes back.
AllHandles == [slot : 1 .. Cardinality(Identities), generation : 1 .. MaxGeneration]
IsIssued(h) == \E i \in handles : i.slot = h.slot /\ i.generation = h.generation
StatusOf(h) == IF ValidateUntyped(h) THEN "LIVE" ELSE IF IsIssued(h) THEN "STALE" ELSE "NEW"
PublishedOf(publications, h) == {p \in publications : p.resource = h}
OfferedOf(h) ==
    IF ValidateUntyped(h) /\ entries[h.slot].state = "READY" THEN entries[h.slot].version ELSE 0
Store == INSTANCE LeaseStore WITH
    Handles <- AllHandles,
    MaxVersions <- [h \in AllHandles |-> MaxOperations],
    status <- [h \in AllHandles |-> StatusOf(h)],
    versions <- [h \in AllHandles |-> Cardinality(PublishedOf(published, h))],
    offered <- [h \in AllHandles |-> OfferedOf(h)]
ServesLeases == Store!StoreSpec

ResourceSpec == ResourceInit /\ [][ResourceNext]_resourceVars
=============================================================================
