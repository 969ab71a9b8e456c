--------------------------- MODULE ResourceStates ---------------------------
(***************************************************************************)
(* The tracker of resource states (graphics/vulkan/resource_state.cpp): it *)
(* remembers how each range of a buffer and each subresource of an image   *)
(* was last used and says which barrier the next use needs.                *)
(*                                                                         *)
(* One resource is followed, a buffer of Bytes bytes or an image of        *)
(* Subresources levels.  Beside the tracker stands what the device really  *)
(* did with it since the last barrier; a use that needed a barrier and did *)
(* not get one, or got one that does not name an earlier use, races.       *)
(***************************************************************************)
EXTENDS Integers, FiniteSets

CONSTANTS Bytes,          \* length of the buffer
          Subresources,   \* number of subresources of the image
          Usages,         \* the usages transitions ask for
          BufferFamilies, \* queue families asked for a buffer, among them Ignored
          ImageFamilies,  \* and for an image
          Ignored,
          Untracked       \* no state

(* A state: the accesses (a stage goes with each), the layout, the family. *)
ResourceState ==
    [access : SUBSET {"colorRead", "colorWrite", "transferRead", "transferWrite", "shaderRead"},
     layout : {"none", "Undefined", "color"} \cup Usages,
     family : BufferFamilies \cup ImageFamilies]

ASSUME ResourceStatesAssumption ==
    /\ Bytes \in Nat \ {0} /\ Subresources \in Nat \ {0}
    /\ Ignored \in BufferFamilies \cap ImageFamilies
    /\ Usages \subseteq {"Present", "ColorReadWrite", "ColorWrite", "TransferRead",
                         "TransferWrite", "ShaderRead"}
    /\ Untracked \notin ResourceState

VARIABLES kind,        \* "buffer" or "image"
          ranges,      \* m_buffers: the set of ranges [first, end, state]
          images,      \* m_images: subresource -> state
          saved,       \* the transaction: what a rollback restores
          device       \* ghost: what the device did, byte by byte

stateVars == <<kind, ranges, images, saved, device>>

---------------------------------------------------------------------------
(* The states of the usages *)

AccessOf(usage) == CASE usage = "ColorReadWrite" -> {"colorRead", "colorWrite"}
                     [] usage = "ColorWrite"     -> {"colorWrite"}
                     [] usage = "TransferRead"   -> {"transferRead"}
                     [] usage = "TransferWrite"  -> {"transferWrite"}
                     [] usage = "ShaderRead"     -> {"shaderRead"}
                     [] OTHER                    -> {}

LayoutOf(usage) == CASE usage \in {"ColorReadWrite", "ColorWrite"} -> "color"
                     [] OTHER -> usage

MakeImageState(usage, family) ==
    [access |-> AccessOf(usage), layout |-> LayoutOf(usage), family |-> family]

MakeBufferState(usage, family) ==
    [access |-> AccessOf(usage), layout |-> "none", family |-> family]

MakeState(usage, family) == IF kind = "buffer" THEN MakeBufferState(usage, family)
                            ELSE MakeImageState(usage, family)

HasWrite(access) == access \cap {"colorWrite", "transferWrite"} # {}

RequiresBarrier(source, destination) ==
    \/ HasWrite(source.access) \/ HasWrite(destination.access)
    \/ source.layout # destination.layout
    \/ source.family # destination.family

(* the merged state forgets the earlier readers *)
MutantMergeReadStates(source, destination) == destination

MergeReadStates(source, destination) ==
    [destination EXCEPT !.access = @ \cup source.access]

(* A destination without a family keeps the source's; a family cannot be   *)
(* taken from a source that has none.                                      *)
FamilyIsValid(source, destination) ==
    source.family # Ignored \/ destination.family = Ignored

ResolveQueueFamily(source, destination) ==
    IF destination.family = Ignored THEN [destination EXCEPT !.family = source.family]
    ELSE destination

InitialIsValid(state) == state.family = Ignored

(* The state a use leaves behind, and whether it records a barrier.        *)
Next1(source, asked) ==
    LET destination == ResolveQueueFamily(source, asked)
    IN  IF RequiresBarrier(source, destination) THEN destination
        ELSE MergeReadStates(source, destination)

Barrier(source, asked) == RequiresBarrier(source, ResolveQueueFamily(source, asked))

---------------------------------------------------------------------------
(* Ranges of the buffer *)

Cells == IF kind = "buffer" THEN 0 .. Bytes - 1 ELSE 0 .. Subresources - 1

Overlap(r, first, end) == r.first < end /\ first < r.end

Overlapping(first, end) == {r \in ranges : Overlap(r, first, end)}

(* FindBufferRangeSource: the ranges that cover every byte asked for.      *)
Covered(first, end) ==
    \A b \in first .. end - 1 : \E r \in ranges : r.first <= b /\ b < r.end

Max2(a, b) == IF a < b THEN b ELSE a
Min2(a, b) == IF a < b THEN a ELSE b

(* The pieces of the tracked ranges inside the one asked for.              *)
Segments(first, end) ==
    {[first |-> Max2(r.first, first), end |-> Min2(r.end, end), state |-> r.state] :
        r \in Overlapping(first, end)}

(* ReplaceBufferRange cuts what overlaps and keeps the two remainders.     *)
Outside(old, first, end) ==
    UNION {   (IF r.first < first THEN {[r EXCEPT !.end = Min2(@, first)]} ELSE {})
       \cup (IF end < r.end THEN {[r EXCEPT !.first = Max2(@, end)]} ELSE {}) : r \in old}

---------------------------------------------------------------------------
(* The device *)

Untouched == [access |-> {}, layout |-> "Undefined", family |-> Ignored, raced |-> FALSE]

(* The device performs a use of a cell, behind a barrier out of `source`   *)
(* or without one.                                                         *)
Uses(cell, source, asked, barrier) ==
    LET new == ResolveQueueFamily(source, asked)
    IN  [access |-> IF barrier THEN asked.access ELSE cell.access \cup asked.access,
         layout |-> IF barrier THEN new.layout ELSE cell.layout,
         family |-> IF barrier THEN new.family ELSE cell.family,
         raced |-> \/ cell.raced
                   \/ IF barrier THEN ~(cell.access \subseteq source.access)
                      ELSE \/ HasWrite(cell.access) /\ asked.access # {}
                           \/ HasWrite(asked.access) /\ cell.access # {}]

---------------------------------------------------------------------------

StateInit ==
        /\ kind \in {"buffer", "image"}
        /\ ranges = {} /\ saved = Untracked
        /\ images = [s \in 0 .. Subresources - 1 |-> Untracked]
        /\ device = [c \in Cells |-> Untouched]

(* The creation of a buffer imports its range without any access.          *)
ImportBuffer ==
    /\ kind = "buffer" /\ ranges = {} /\ saved = Untracked
    /\ \E family \in BufferFamilies :
          /\ ranges' = {[first |-> 0, end |-> Bytes,
                         state |-> [access |-> {}, layout |-> "none", family |-> family]]}
          /\ device' = [c \in Cells |-> [Untouched EXCEPT !.family = family,
                                                          !.layout = "none"]]
    /\ UNCHANGED <<kind, images, saved>>

ImportImage ==
    /\ kind = "image" /\ saved = Untracked
    /\ \A s \in Cells : images[s] = Untracked
    /\ \E family \in ImageFamilies :
          LET state == [access |-> {}, layout |-> "Undefined", family |-> family]
          IN  /\ images' = [s \in Cells |-> state]
              /\ device' = [c \in Cells |-> [Untouched EXCEPT !.family = family]]
    /\ UNCHANGED <<kind, ranges, saved>>

(* TransitionBufferRanges: an untracked range is taken as it is, without a *)
(* barrier; a partly tracked one is refused; otherwise each piece goes     *)
(* from its own state.                                                     *)
BufferUsed(first, end, asked) ==
    \/ /\ Overlapping(first, end) = {} /\ InitialIsValid(asked)
       /\ ranges' = ranges \cup {[first |-> first, end |-> end, state |-> asked]}
       /\ device' = [c \in Cells |-> IF c \in first .. end - 1
                       THEN Uses([device[c] EXCEPT !.layout = "none"], asked, asked, FALSE)
                       ELSE device[c]]
    \/ /\ Covered(first, end)
       /\ \A s \in Segments(first, end) : FamilyIsValid(s.state, asked)
       /\ ranges' = Outside(ranges, first, end) \cup
                    {[s EXCEPT !.state = Next1(s.state, asked)] : s \in Segments(first, end)}
       /\ device' = [c \in Cells |->
            IF c \in first .. end - 1
            THEN LET s == CHOOSE r \in Segments(first, end) : r.first <= c /\ c < r.end
                 IN  Uses(device[c], s.state, asked, Barrier(s.state, asked))
            ELSE device[c]]

TransitionBufferRanges ==
    /\ kind = "buffer"
    /\ \E first \in Cells, usage \in Usages, family \in BufferFamilies :
          \E end \in first + 1 .. Bytes : BufferUsed(first, end, MakeState(usage, family))
    /\ UNCHANGED <<kind, images, saved>>

(* TransitionBuffer refuses pieces of different states, and leaves one     *)
(* range where it found several.                                           *)
TransitionBuffer ==
    /\ kind = "buffer"
    /\ \E first \in Cells, usage \in Usages, family \in BufferFamilies :
         \E end \in first + 1 .. Bytes, source \in {r.state : r \in ranges} :
          LET asked == MakeState(usage, family)
          IN  /\ Covered(first, end) /\ FamilyIsValid(source, asked)
              /\ \A s \in Segments(first, end) : s.state = source
              /\ ranges' = Outside(ranges, first, end) \cup
                   {[first |-> first, end |-> end, state |-> Next1(source, asked)]}
              /\ device' = [c \in Cells |-> IF c \in first .. end - 1
                              THEN Uses(device[c], source, asked, Barrier(source, asked))
                              ELSE device[c]]
    /\ UNCHANGED <<kind, images, saved>>

(* TransitionImage on an untracked range goes from the undefined layout;   *)
(* mixed states and partly tracked ranges are refused.                     *)
TransitionImage ==
    /\ kind = "image"
    /\ \E first \in Cells, usage \in Usages, family \in ImageFamilies :
         \E last \in first .. Subresources - 1 :
          LET keys == first .. last
              asked == MakeState(usage, family)
              source == images[first]
          IN  /\ \A s \in keys : images[s] = source
              /\ IF source = Untracked THEN InitialIsValid(asked)
                 ELSE FamilyIsValid(source, asked)
              /\ images' = [s \in Cells |->
                   IF s \notin keys THEN images[s]
                   ELSE IF source = Untracked THEN asked ELSE Next1(source, asked)]
              /\ device' = [s \in Cells |->
                   IF s \notin keys THEN device[s]
                   ELSE IF source = Untracked
                   THEN Uses(device[s], MakeState("Undefined", Ignored), asked, TRUE)
                   ELSE Uses(device[s], source, asked, Barrier(source, asked))]
    /\ UNCHANGED <<kind, ranges, saved>>

(* The destruction of a resource, never inside a transaction of an upload. *)
Forget == /\ saved = Untracked
          /\ ranges' = {} /\ images' = [s \in 0 .. Subresources - 1 |-> Untracked]
          /\ device' = [c \in Cells |-> Untouched]
          /\ UNCHANGED <<kind, saved>>

(* A transaction keeps both maps; what was recorded in it reaches the      *)
(* device only when it is committed.                                       *)
BeginTransaction ==
    /\ saved = Untracked
    /\ saved' = [ranges |-> ranges, images |-> images, device |-> device]
    /\ UNCHANGED <<kind, ranges, images, device>>

Commit == saved # Untracked /\ saved' = Untracked /\ UNCHANGED <<kind, ranges, images, device>>

Rollback ==
    /\ saved # Untracked /\ saved' = Untracked
    /\ ranges' = saved.ranges /\ images' = saved.images /\ device' = saved.device
    /\ UNCHANGED kind

StateNext == \/ ImportBuffer \/ ImportImage
             \/ TransitionBufferRanges \/ TransitionBuffer \/ TransitionImage
             \/ Forget \/ BeginTransaction \/ Commit \/ Rollback

StateSpec == StateInit /\ [][StateNext]_stateVars

---------------------------------------------------------------------------
(* The tracked ranges never overlap, are never empty and stay in the buffer. *)
RangesAreDisjoint ==
    /\ \A r \in ranges : 0 <= r.first /\ r.first < r.end /\ r.end <= Bytes
    /\ \A r, q \in ranges : r # q => ~Overlap(r, q.first, q.end)

(* Every use since the last barrier is named by the tracked state, so the  *)
(* next barrier out of it waits for all of them; layout and family are     *)
(* those of the device.                                                    *)
Tracks(state, cell) == /\ cell.access \subseteq state.access
                       /\ cell.layout = state.layout /\ cell.family = state.family

TrackerMatchesDevice ==
    IF kind = "buffer"
    THEN \A c \in Cells :
            LET here == {r \in ranges : r.first <= c /\ c < r.end}
            IN  IF here = {} THEN device[c] = Untouched
                ELSE \E r \in here : Tracks(r.state, device[c])
    ELSE \A c \in Cells : IF images[c] = Untracked THEN device[c] = Untouched
                          ELSE Tracks(images[c], device[c])

(* No write runs beside an earlier use and no use beside an earlier write  *)
(* without a barrier that names the earlier one.                           *)
NothingRaces == \A c \in Cells : ~device[c].raced

(* What the tracker holds is what the barriers have made of the device.     *)
StatesAreSafe == RangesAreDisjoint /\ TrackerMatchesDevice /\ NothingRaces

=============================================================================
