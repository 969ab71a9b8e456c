--------------------------- MODULE ResourcesProofs ---------------------------
(***************************************************************************)
(* Proofs about the resource manager, for every number of identities, loads *)
(* and generations: its safety properties, and that it implements the store *)
(* of leases of LeaseStore.tla.                                             *)
(***************************************************************************)
EXTENDS Resources, FiniteSetTheorems, SequenceTheorems, WellFoundedInduction, TLAPS

HandleShape == [slot : Nat \ {0}, generation : Nat \ {0}]
Entry == [occupied : BOOLEAN, identity : Identities \cup {NoIdentity}, state : EntryStates,
          generation : Nat, operation : Nat, cancelled : Nat, version : Nat, payload : Nat]
Endings == {<<>>, <<"READY">>, <<"FAILED">>, <<"UNLOADED">>}
Operation == [handle : HandleShape, number : Nat \ {0}, outcomes : Endings]

ResourcesType ==
  /\ entries \in Seq(Entry)
  /\ DOMAIN index \subseteq Identities
  /\ index \in [DOMAIN index -> DOMAIN entries]
  /\ handles \subseteq [slot : Nat \ {0}, generation : Nat \ {0}, identity : Identities]
  /\ operations \in Seq(Operation) /\ Len(operations) <= MaxOperations
  /\ published \subseteq [resource : HandleShape, version : Nat \ {0}, payload : Nat]

(* The generation of a slot is the newest one it ever had, and nobody has it
   while the slot is free: a handle of an earlier generation denotes nothing
   for good. *)
Current(handle) ==
  /\ handle.slot \in DOMAIN entries
  /\ handle.generation <= entries[handle.slot].generation
  /\ handle.generation = entries[handle.slot].generation => entries[handle.slot].occupied

HandlesAreCurrent ==
  /\ \A h \in handles :
        /\ Current(h)
        /\ ValidateUntyped(h) => entries[h.slot].identity = h.identity
  /\ \A s \in DOMAIN entries : entries[s].occupied =>
        \E h \in handles : h.slot = s /\ h.generation = entries[s].generation

(* The index and the occupied slots are inverse to each other. *)
IndexIsExact ==
  /\ \A i \in DOMAIN index : entries[index[i]].occupied /\ entries[index[i]].identity = i
  /\ \A s \in DOMAIN entries : entries[s].occupied =>
        /\ entries[s].identity \in DOMAIN index
        /\ index[entries[s].identity] = s

(* The numbers of the loads of a slot grow and are never used again, also when
   the slot is given to another identity; a load that has not ended is the one
   its entry is loading for. *)
LoadsAreNumbered ==
  /\ \A k \in DOMAIN operations :
        /\ Current(operations[k].handle)
        /\ operations[k].number <= entries[operations[k].handle.slot].operation
        /\ operations[k].outcomes = <<>> <=> Matches(operations[k])
  /\ \A j, k \in DOMAIN operations :
        operations[j].handle.slot = operations[k].handle.slot /\ j < k
           => operations[j].number < operations[k].number

LoadingHasLoad ==
  \A s \in DOMAIN entries : entries[s].occupied /\ entries[s].state = "LOADING" =>
     \E k \in DOMAIN operations :
        /\ operations[k].handle = HandleOf(s, entries[s].generation)
        /\ operations[k].number = entries[s].operation

NothingCancelled ==
  \A s \in DOMAIN entries :
     entries[s].state \in {"LOADING", "READY", "FAILED"} => entries[s].cancelled = 0

(* Every version came from a load that ended READY, and the version of an entry
   counts the ones published for the handle that denotes it. *)
VersionsAreCounted ==
  /\ IsFiniteSet(published)
  /\ \A p \in published :
        /\ p.payload \in DOMAIN operations
        /\ operations[p.payload].handle = p.resource
        /\ operations[p.payload].outcomes = <<"READY">>
        /\ p.version <= p.payload
        /\ ValidateUntyped(p.resource) => p.version <= entries[p.resource.slot].version
  /\ \A s \in DOMAIN entries : entries[s].occupied =>
        /\ entries[s].version =
             Cardinality(PublishedOf(published, HandleOf(s, entries[s].generation)))
        /\ entries[s].version # 0 =>
             \E p \in PublishedOf(published, HandleOf(s, entries[s].generation)) :
                p.version = entries[s].version
        /\ entries[s].state = "READY" => entries[s].version # 0

(* There are never more slots than identities, nor generations than allowed. *)
SlotsAreBounded ==
  /\ \A s \in DOMAIN entries : entries[s].occupied => entries[s].generation <= MaxGeneration
  /\ Len(entries) <= Cardinality(Identities)

ResourcesInv ==
  /\ ResourcesType
  /\ HandlesAreCurrent
  /\ IndexIsExact
  /\ LoadsAreNumbered
  /\ LoadingHasLoad
  /\ NothingCancelled
  /\ CancellationIsSeen
  /\ VersionsAreCounted
  /\ VersionsNamePayloads
  /\ SlotsAreBounded

-----------------------------------------------------------------------------
(* Numbers, sequences and slots. *)

(* A set of numbers has a smallest one. *)
LEMMA SmallestElement ==
  ASSUME NEW T \in SUBSET Nat, T # {}
  PROVE  \E x \in T : \A y \in T : x <= y
<1>. DEFINE R == {ss \in Nat \X Nat : ss[1] < ss[2]}
<1>1. IsWellFoundedOn(R, Nat)
  BY NatLessThanWellFounded, Zenon DEF OpToRel
<1>2. \E x \in T : \A y \in T : ~ (<<y, x>> \in R)
  <2>. HIDE DEF R
  <2>. QED BY <1>1, WFMin
<1>3. PICK x \in T : \A y \in T : ~ (<<y, x>> \in R)
  BY <1>2
<1>4. ASSUME NEW y \in T, y < x
      PROVE  <<y, x>> \in R
  BY <1>4
<1>. HIDE DEF R
<1>5. \A y \in T : ~ (y < x)
  BY <1>3, <1>4
<1>. QED
  BY <1>5

(* A function on an initial segment of the numbers is a sequence. *)
LEMMA SegmentIsSeq ==
  ASSUME NEW S, NEW n \in Nat, NEW f \in [1 .. n -> S]
  PROVE  f \in Seq(S) /\ Len(f) = n /\ DOMAIN f = 1 .. n
<1>1. f \in Seq(S)
  BY SeqDef
<1>. QED
  BY <1>1, LenProperties

(* The slots and the loads, as functions. *)
LEMMA Shapes ==
  ASSUME ResourcesType
  PROVE  /\ Len(entries) \in Nat /\ DOMAIN entries = 1 .. Len(entries)
         /\ entries \in [1 .. Len(entries) -> Entry]
         /\ \A s \in DOMAIN entries : s \in Nat \ {0} /\ entries[s] \in Entry
         /\ Len(operations) \in Nat /\ DOMAIN operations = 1 .. Len(operations)
         /\ operations \in [1 .. Len(operations) -> Operation]
         /\ \A k \in DOMAIN operations : k \in Nat \ {0} /\ operations[k] \in Operation
BY LenProperties DEF ResourcesType

(* The slot of a new identity is the first free one. *)
LEMMA SlotToUseIsFree ==
  ASSUME ResourcesType
  PROVE  /\ SlotToUse \in 1 .. Len(entries) + 1
         /\ SlotToUse \in DOMAIN entries => ~entries[SlotToUse].occupied
         /\ \A s \in 1 .. SlotToUse - 1 : entries[s].occupied
<1>. DEFINE Usable == {slot \in 1 .. Len(entries) + 1 :
                         slot \in DOMAIN entries => ~entries[slot].occupied}
<1>1. Usable \subseteq Nat /\ Len(entries) + 1 \in Usable
  BY Shapes
<1>2. PICK slot \in Usable : \A s \in Usable : slot <= s
  BY <1>1, SmallestElement
<1>3. \A s \in 1 .. slot - 1 : s \in DOMAIN entries /\ entries[s].occupied
  BY <1>1, <1>2, Shapes
<1>4. \E w \in 1 .. Len(entries) + 1 :
        /\ w \in DOMAIN entries => ~entries[w].occupied
        /\ \A s \in 1 .. w - 1 : entries[s].occupied
  BY <1>2, <1>3
<1>. QED
  BY <1>4 DEF SlotToUse

(* While an identity has no slot, there are fewer occupied slots than
   identities. *)
LEMMA RoomForIdentity ==
  ASSUME ResourcesType, IndexIsExact, NEW identity \in Identities \ DOMAIN index,
         \A s \in DOMAIN entries : entries[s].occupied
  PROVE  Len(entries) + 1 <= Cardinality(Identities)
<1>. DEFINE others == Identities \ {identity}
            f == [s \in 1 .. Len(entries) |-> entries[s].identity]
<1>1. f \in Injection(1 .. Len(entries), others)
  <2>1. \A s \in 1 .. Len(entries) :
           entries[s].identity \in DOMAIN index /\ index[entries[s].identity] = s
    BY Shapes DEF IndexIsExact
  <2>2. \A s \in 1 .. Len(entries) : entries[s].identity \in others
    BY <2>1 DEF ResourcesType
  <2>3. f \in [1 .. Len(entries) -> others]
    BY <2>2
  <2>4. \A s, t \in 1 .. Len(entries) : f[s] = f[t] => s = t
    BY <2>1
  <2>. QED
    BY <2>3, <2>4 DEF Injection, IsInjective
<1>2. IsFiniteSet(others) /\ Cardinality(others) = Cardinality(Identities) - 1
  BY FS_RemoveElement, ResourcesAssumption
<1>. HIDE DEF others, f
<1>3. Cardinality(1 .. Len(entries)) <= Cardinality(others)
  BY <1>1, <1>2, FS_Injection
<1>4. Cardinality(1 .. Len(entries)) = Len(entries)
  <2>1. Len(entries) \in Nat
    BY Shapes
  <2>2. Cardinality(1 .. Len(entries)) = IF 1 > Len(entries) THEN 0 ELSE Len(entries) - 1 + 1
    BY <2>1, FS_Interval
  <2>. QED
    BY <2>1, <2>2
<1>5. Cardinality(Identities) \in Nat
  BY FS_CardinalityType, ResourcesAssumption
<1>. QED
  BY <1>2, <1>3, <1>4, <1>5, Shapes

-----------------------------------------------------------------------------
(* The steps that change one entry and leave the slots and handles alone. *)

(* The entry of a slot changes, and who it belongs to does not. *)
Rewrites(slot, new) ==
  /\ slot \in DOMAIN entries /\ new \in Entry
  /\ new.occupied = entries[slot].occupied
  /\ new.identity = entries[slot].identity
  /\ new.generation = entries[slot].generation
  /\ new.operation >= entries[slot].operation
  /\ entries' = [entries EXCEPT ![slot] = new]
  /\ UNCHANGED <<index, handles>>

LEMMA RewriteKeepsSlots ==
  ASSUME ResourcesType, NEW slot, NEW new, Rewrites(slot, new)
  PROVE  /\ entries' \in Seq(Entry) /\ Len(entries') = Len(entries)
         /\ DOMAIN entries' = DOMAIN entries
         /\ entries'[slot] = new
         /\ \A s \in DOMAIN entries : s # slot => entries'[s] = entries[s]
         /\ \A s \in DOMAIN entries :
               /\ entries'[s].occupied = entries[s].occupied
               /\ entries'[s].identity = entries[s].identity
               /\ entries'[s].generation = entries[s].generation
               /\ entries'[s].operation >= entries[s].operation
         /\ \A h : Current(h)' = Current(h)
         /\ \A h : ValidateUntyped(h)' = ValidateUntyped(h)
<1>1. /\ entries' \in [1 .. Len(entries) -> Entry]
      /\ entries'[slot] = new
      /\ \A s \in DOMAIN entries : s # slot => entries'[s] = entries[s]
  BY Shapes DEF Rewrites
<1>2. entries' \in Seq(Entry) /\ Len(entries') = Len(entries) /\ DOMAIN entries' = DOMAIN entries
  BY <1>1, SegmentIsSeq, Shapes
<1>3. \A s \in DOMAIN entries :
         /\ entries'[s].occupied = entries[s].occupied
         /\ entries'[s].identity = entries[s].identity
         /\ entries'[s].generation = entries[s].generation
         /\ entries'[s].operation >= entries[s].operation
  <2>1. \A s \in DOMAIN entries : entries[s].operation \in Nat
    BY Shapes DEF Entry
  <2>. QED
    BY <1>1, <2>1 DEF Rewrites
<1>4. \A h : Current(h)' = Current(h)
  BY <1>2, <1>3 DEF Current
<1>5. \A h : ValidateUntyped(h)' = ValidateUntyped(h)
  BY <1>2, <1>3 DEF ValidateUntyped
<1>. QED
  BY <1>1, <1>2, <1>3, <1>4, <1>5

LEMMA RewriteKeepsHandles ==
  ASSUME ResourcesInv, NEW slot, NEW new, Rewrites(slot, new)
  PROVE  HandlesAreCurrent' /\ IndexIsExact' /\ SlotsAreBounded'
<1>1. ResourcesType /\ index' = index /\ handles' = handles
  BY DEF ResourcesInv, Rewrites
<1>2. HandlesAreCurrent'
  <2>1. \A h \in handles : Current(h)'
    BY <1>1, RewriteKeepsSlots DEF ResourcesInv, HandlesAreCurrent
  <2>2. ASSUME NEW h \in handles, ValidateUntyped(h)'
        PROVE  entries'[h.slot].identity = h.identity
    BY <1>1, <2>2, RewriteKeepsSlots DEF ResourcesInv, HandlesAreCurrent, ValidateUntyped
  <2>3. \A s \in DOMAIN entries' : entries'[s].occupied =>
           \E h \in handles : h.slot = s /\ h.generation = entries'[s].generation
    BY <1>1, RewriteKeepsSlots DEF ResourcesInv, HandlesAreCurrent
  <2>. QED
    BY <1>1, <2>1, <2>2, <2>3 DEF HandlesAreCurrent
<1>3. IndexIsExact'
  <2>1. \A i \in DOMAIN index : index[i] \in DOMAIN entries
    BY <1>1 DEF ResourcesType
  <2>. QED
    BY <1>1, <2>1, RewriteKeepsSlots DEF ResourcesInv, IndexIsExact
<1>4. SlotsAreBounded'
  BY <1>1, RewriteKeepsSlots DEF ResourcesInv, SlotsAreBounded
<1>. QED
  BY <1>2, <1>3, <1>4

(* At most one load of a slot has not ended, and it is the newest one. *)
LEMMA MatchingIsNewest ==
  ASSUME ResourcesInv, NEW k \in DOMAIN operations, Matches(operations[k]),
         NEW j \in DOMAIN operations, operations[j].handle.slot = operations[k].handle.slot
  PROVE  j <= k /\ (Matches(operations[j]) => j = k)
<1>1. /\ operations[j].number <= entries[operations[k].handle.slot].operation
      /\ operations[k].number = entries[operations[k].handle.slot].operation
  BY DEF ResourcesInv, LoadsAreNumbered, Matches
<1>2. /\ j < k => operations[j].number < operations[k].number
      /\ k < j => operations[k].number < operations[j].number
  BY DEF ResourcesInv, LoadsAreNumbered
<1>3. /\ j \in Nat /\ k \in Nat
      /\ operations[j] \in Operation /\ operations[k] \in Operation
      /\ entries[operations[k].handle.slot] \in Entry
  BY Shapes DEF ResourcesInv, Matches, ValidateUntyped
<1>4. Matches(operations[j]) => operations[j].number = operations[k].number
  BY <1>1 DEF Matches
<1>. QED
  BY <1>1, <1>2, <1>3, <1>4 DEF Operation, Entry

(* What is true of the versions remains true when nothing is published and no
   load that ended READY is touched. *)
LEMMA VersionsKept ==
  ASSUME ResourcesInv, NEW slot, NEW new, Rewrites(slot, new),
         new.version = entries[slot].version,
         new.state = "READY" => entries[slot].state = "READY",
         published' = published,
         \A k \in DOMAIN operations : operations[k].outcomes = <<"READY">> =>
            k \in DOMAIN operations' /\ operations'[k] = operations[k]
  PROVE  VersionsAreCounted' /\ VersionsNamePayloads'
<1>1. ResourcesType /\ VersionsAreCounted /\ VersionsNamePayloads
  BY DEF ResourcesInv
<1>2. \A s \in DOMAIN entries :
         /\ entries'[s].version = entries[s].version
         /\ entries'[s].occupied = entries[s].occupied
         /\ entries'[s].generation = entries[s].generation
         /\ entries'[s].state = "READY" => entries[s].state = "READY"
  BY <1>1, RewriteKeepsSlots
<1>3. ASSUME NEW p \in published
      PROVE  /\ p.payload \in DOMAIN operations'
             /\ operations'[p.payload].handle = p.resource
             /\ operations'[p.payload].outcomes = <<"READY">>
             /\ p.version <= p.payload
             /\ ValidateUntyped(p.resource)' => p.version <= entries'[p.resource.slot].version
  <2>1. /\ p.payload \in DOMAIN operations
        /\ operations[p.payload].handle = p.resource
        /\ operations[p.payload].outcomes = <<"READY">>
        /\ p.version <= p.payload
        /\ ValidateUntyped(p.resource) => p.version <= entries[p.resource.slot].version
    BY <1>1 DEF VersionsAreCounted
  <2>2. ValidateUntyped(p.resource)' => ValidateUntyped(p.resource)
    BY <1>1, RewriteKeepsSlots
  <2>. QED
    BY <2>1, <2>2, <1>2 DEF ValidateUntyped
<1>4. ASSUME NEW s \in DOMAIN entries', entries'[s].occupied
      PROVE  /\ entries'[s].version =
                  Cardinality(PublishedOf(published, HandleOf(s, entries'[s].generation)))
             /\ entries'[s].version # 0 =>
                  \E p \in PublishedOf(published, HandleOf(s, entries'[s].generation)) :
                     p.version = entries'[s].version
             /\ entries'[s].state = "READY" => entries'[s].version # 0
  <2>1. s \in DOMAIN entries
    BY <1>1, RewriteKeepsSlots
  <2>. QED
    BY <1>1, <1>2, <1>4, <2>1 DEF VersionsAreCounted
<1>5. VersionsAreCounted'
  BY <1>1, <1>3, <1>4 DEF VersionsAreCounted
<1>. QED
  BY <1>1, <1>5 DEF VersionsNamePayloads

(* A step that is not about a load. *)
LEMMA NoLoadKeeps ==
  ASSUME ResourcesInv, NEW slot, NEW new, Rewrites(slot, new),
         entries[slot].state # "LOADING", new.state # "LOADING", new.state # "READY",
         new.cancelled = entries[slot].cancelled,
         new.state = "FAILED" => new.cancelled = 0,
         new.version = entries[slot].version,
         UNCHANGED <<operations, published>>
  PROVE  ResourcesInv'
<1>1. ResourcesType /\ LoadsAreNumbered /\ LoadingHasLoad /\ NothingCancelled
      /\ CancellationIsSeen
  BY DEF ResourcesInv
<1>2. /\ \A s \in DOMAIN entries : s # slot => entries'[s] = entries[s]
      /\ entries'[slot] = new /\ DOMAIN entries' = DOMAIN entries
      /\ \A h : Current(h)' = Current(h)
      /\ \A h : ValidateUntyped(h)' = ValidateUntyped(h)
      /\ \A s \in DOMAIN entries :
            /\ entries'[s].occupied = entries[s].occupied
            /\ entries'[s].generation = entries[s].generation
            /\ entries'[s].operation >= entries[s].operation
            /\ entries'[s].cancelled = entries[s].cancelled
  BY <1>1, RewriteKeepsSlots
<1>3. ResourcesType'
  BY <1>1, RewriteKeepsSlots DEF ResourcesType, Rewrites
<1>4. HandlesAreCurrent' /\ IndexIsExact' /\ SlotsAreBounded'
  BY RewriteKeepsHandles
<1>5. \A k \in DOMAIN operations : Matches(operations[k])' = Matches(operations[k])
  BY <1>2 DEF Matches, ValidateUntyped
<1>6. LoadsAreNumbered'
  <2>1. ASSUME NEW k \in DOMAIN operations
        PROVE  operations[k].number <= entries'[operations[k].handle.slot].operation
    <3>1. /\ operations[k].number \in Nat
          /\ operations[k].handle.slot \in DOMAIN entries
          /\ operations[k].number <= entries[operations[k].handle.slot].operation
      BY <1>1, Shapes DEF LoadsAreNumbered, Operation, Current
    <3>2. /\ entries[operations[k].handle.slot].operation \in Nat
          /\ entries'[operations[k].handle.slot].operation \in Nat
      BY <3>1, <1>1, <1>2, Shapes DEF Entry, Rewrites
    <3>. QED
      BY <3>1, <3>2, <1>2
  <2>. QED
    BY <2>1, <1>1, <1>2, <1>5 DEF LoadsAreNumbered
<1>7. LoadingHasLoad'
  BY <1>1, <1>2 DEF LoadingHasLoad
<1>8. NothingCancelled'
  BY <1>1, <1>2 DEF NothingCancelled
<1>9. CancellationIsSeen'
  <2>1. \A k \in DOMAIN operations :
           ValidateUntyped(operations[k].handle) =>
              (IsCancellationRequested(operations[k])' <=> IsCancellationRequested(operations[k]))
    BY <1>2 DEF IsCancellationRequested, ValidateUntyped
  <2>. QED
    BY <2>1, <1>1, <1>2 DEF CancellationIsSeen
<1>10. VersionsAreCounted' /\ VersionsNamePayloads'
  <2>1. \A k \in DOMAIN operations : k \in DOMAIN operations' /\ operations'[k] = operations[k]
    OBVIOUS
  <2>. QED
    BY <2>1, VersionsKept
<1>. QED
  BY <1>3, <1>4, <1>6, <1>7, <1>8, <1>9, <1>10 DEF ResourcesInv

(* A load ends: it is the one its entry is loading for, and the only one that
   changes. *)
EndsWith(k, outcome) ==
  /\ k \in DOMAIN operations /\ Matches(operations[k])
  /\ outcome \in Outcomes
  /\ operations' = [operations EXCEPT ![k] = [@ EXCEPT !.outcomes = <<outcome>>]]

LEMMA EndedLoads ==
  ASSUME ResourcesInv, NEW k, NEW outcome, EndsWith(k, outcome)
  PROVE  /\ operations' \in Seq(Operation) /\ Len(operations') = Len(operations)
         /\ DOMAIN operations' = DOMAIN operations
         /\ \A j \in DOMAIN operations :
               /\ operations'[j].handle = operations[j].handle
               /\ operations'[j].number = operations[j].number
               /\ j # k => operations'[j] = operations[j]
         /\ operations'[k].outcomes = <<outcome>> /\ operations[k].outcomes = <<>>
<1>1. operations[k] \in Operation /\ <<outcome>> \in Endings
  BY Shapes DEF ResourcesInv, EndsWith, Outcomes, Endings
<1>2. operations[k].outcomes = <<>>
  BY DEF EndsWith, ResourcesInv, LoadsAreNumbered
<1>3. [operations[k] EXCEPT !.outcomes = <<outcome>>] \in Operation
  BY <1>1 DEF Operation
<1>4. /\ operations' \in [1 .. Len(operations) -> Operation]
      /\ operations'[k] = [operations[k] EXCEPT !.outcomes = <<outcome>>]
      /\ \A j \in DOMAIN operations : j # k => operations'[j] = operations[j]
  BY <1>3, Shapes DEF EndsWith, ResourcesInv
<1>5. operations' \in Seq(Operation) /\ Len(operations') = Len(operations)
      /\ DOMAIN operations' = DOMAIN operations
  BY <1>4, Shapes, SegmentIsSeq DEF ResourcesInv
<1>6. /\ operations'[k].handle = operations[k].handle
      /\ operations'[k].number = operations[k].number
      /\ operations'[k].outcomes = <<outcome>>
  BY <1>1, <1>4 DEF Operation
<1>. QED
  BY <1>2, <1>4, <1>5, <1>6 DEF EndsWith

LEMMA EndingKeeps ==
  ASSUME ResourcesInv, NEW k, NEW outcome, EndsWith(k, outcome),
         NEW new, Rewrites(operations[k].handle.slot, new),
         new.state \in {"READY", "FAILED", "UNLOADING"},
         new.state # "UNLOADING" <=> outcome # "UNLOADED",
         new.cancelled = IF outcome = "UNLOADED" THEN operations[k].number ELSE 0
  PROVE  /\ LoadsAreNumbered' /\ LoadingHasLoad' /\ NothingCancelled'
         /\ CancellationIsSeen'
<1>. DEFINE slot == operations[k].handle.slot
<1>1. ResourcesType /\ LoadsAreNumbered /\ LoadingHasLoad /\ NothingCancelled
      /\ CancellationIsSeen
  BY DEF ResourcesInv
<1>2. /\ k \in DOMAIN operations /\ Matches(operations[k]) /\ slot \in DOMAIN entries
      /\ entries[slot].state = "LOADING" /\ entries[slot].occupied
      /\ entries[slot].generation = operations[k].handle.generation
      /\ entries[slot].operation = operations[k].number
  BY DEF EndsWith, Matches, ValidateUntyped
<1>3. /\ \A s \in DOMAIN entries : s # slot => entries'[s] = entries[s]
      /\ entries'[slot] = new /\ DOMAIN entries' = DOMAIN entries
      /\ \A h : Current(h)' = Current(h)
      /\ \A h : ValidateUntyped(h)' = ValidateUntyped(h)
      /\ \A s \in DOMAIN entries :
            /\ entries'[s].occupied = entries[s].occupied
            /\ entries'[s].generation = entries[s].generation
            /\ entries'[s].operation >= entries[s].operation
  BY <1>1, RewriteKeepsSlots
<1>4. /\ DOMAIN operations' = DOMAIN operations
      /\ \A j \in DOMAIN operations :
            /\ operations'[j].handle = operations[j].handle
            /\ operations'[j].number = operations[j].number
            /\ j # k => operations'[j] = operations[j]
      /\ operations'[k].outcomes = <<outcome>> /\ operations[k].outcomes = <<>>
  BY EndedLoads
<1>5. ASSUME NEW j \in DOMAIN operations, operations[j].handle.slot = slot
      PROVE  j <= k /\ (Matches(operations[j]) => j = k)
  BY <1>2, <1>5, MatchingIsNewest
<1>6. ASSUME NEW j \in DOMAIN operations
      PROVE  Matches(operations[j])' <=> Matches(operations[j]) /\ j # k
  <2>1. CASE operations[j].handle.slot = slot
    <3>1. Matches(operations[j]) => j = k
      BY <1>5, <2>1
    <3>2. ~Matches(operations[j])'
      BY <1>3, <1>4, <2>1 DEF Matches
    <3>. QED
      BY <3>1, <3>2
  <2>2. CASE operations[j].handle.slot # slot
    <3>1. j # k /\ operations'[j] = operations[j]
      BY <1>4, <2>2
    <3>. QED
      BY <3>1, <2>2, <1>3 DEF Matches, ValidateUntyped
  <2>. QED
    BY <2>1, <2>2
<1>7. LoadsAreNumbered'
  <2>1. ASSUME NEW j \in DOMAIN operations'
        PROVE  /\ Current(operations[j].handle)'
               /\ operations'[j].number <= entries'[operations'[j].handle.slot].operation
               /\ operations'[j].outcomes = <<>> <=> Matches(operations[j])'
    <3>1. j \in DOMAIN operations
      BY <1>4
    <3>2. Current(operations[j].handle)'
      BY <3>1, <1>1, <1>3, <1>4 DEF LoadsAreNumbered
    <3>3. /\ operations[j].number \in Nat
          /\ operations[j].handle.slot \in DOMAIN entries
          /\ operations[j].number <= entries[operations[j].handle.slot].operation
      BY <3>1, <1>1, Shapes DEF LoadsAreNumbered, Operation, Current
    <3>4. /\ entries[operations[j].handle.slot].operation \in Nat
          /\ entries'[operations[j].handle.slot].operation \in Nat
      BY <3>3, <1>1, <1>3, Shapes DEF Entry, Rewrites
    <3>5. operations'[j].number <= entries'[operations'[j].handle.slot].operation
      BY <3>1, <3>3, <3>4, <1>3, <1>4
    <3>6. operations'[j].outcomes = <<>> <=> Matches(operations[j])'
      BY <3>1, <1>1, <1>4, <1>6 DEF LoadsAreNumbered
    <3>. QED
      BY <3>2, <3>5, <3>6
  <2>2. \A i, j \in DOMAIN operations' :
           operations'[i].handle.slot = operations'[j].handle.slot /\ i < j
              => operations'[i].number < operations'[j].number
    BY <1>1, <1>4 DEF LoadsAreNumbered
  <2>. QED
    BY <2>1, <2>2 DEF LoadsAreNumbered
<1>8. LoadingHasLoad'
  BY <1>1, <1>3, <1>4 DEF LoadingHasLoad
<1>9. NothingCancelled'
  BY <1>1, <1>3 DEF NothingCancelled
<1>10. CancellationIsSeen'
  <2>. SUFFICES ASSUME NEW j \in DOMAIN operations,
                       \A i \in DOMAIN operations :
                          operations[i].handle = operations[j].handle => i <= j,
                       ValidateUntyped(operations[j].handle)
                PROVE  IsCancellationRequested(operations[j])'
                          <=> operations'[j].outcomes = <<"UNLOADED">>
    BY <1>3, <1>4 DEF CancellationIsSeen
  <2>1. IsCancellationRequested(operations[j]) <=> operations[j].outcomes = <<"UNLOADED">>
    BY <1>1 DEF CancellationIsSeen
  <2>2. CASE operations[j].handle.slot # slot
    BY <2>1, <2>2, <1>3, <1>4 DEF IsCancellationRequested, ValidateUntyped
  <2>3. CASE operations[j].handle.slot = slot
    <3>1. operations[j].handle = operations[k].handle
      <4>1. operations[j].handle \in HandleShape /\ operations[k].handle \in HandleShape
        BY <1>1, <1>2, Shapes DEF Operation
      <4>2. operations[j].handle.generation = operations[k].handle.generation
        BY <2>3, <1>2 DEF ValidateUntyped
      <4>. QED
        BY <4>1, <4>2, <2>3 DEF HandleShape
    <3>2. j = k
      <4>1. j <= k /\ k <= j
        BY <3>1, <1>2, <1>5
      <4>. QED
        BY <4>1, <1>1, <1>2, Shapes
    <3>3. IsCancellationRequested(operations[k])' <=> new.cancelled = operations[k].number
      BY <3>2, <1>2, <1>3, <1>4 DEF IsCancellationRequested
    <3>4. operations[k].number # 0
      BY <1>1, <1>2, Shapes DEF Operation
    <3>5. <<outcome>> = <<"UNLOADED">> <=> outcome = "UNLOADED"
      OBVIOUS
    <3>. QED
      BY <3>2, <3>3, <3>4, <3>5, <1>4
  <2>. QED
    BY <2>2, <2>3
<1>. QED
  BY <1>7, <1>8, <1>9, <1>10

-----------------------------------------------------------------------------
(* The operations of the manager, one by one. *)

LEMMA FailKeeps ==
  ASSUME ResourcesInv, NEW k \in DOMAIN operations, Fail(k)
  PROVE  /\ ResourcesInv'
         /\ \E e : /\ Rewrites(operations[k].handle.slot, e)
                  /\ e.state = "FAILED"
                  /\ e.version = entries[operations[k].handle.slot].version
<1>. DEFINE slot == operations[k].handle.slot
            new == [entries[slot] EXCEPT !.payload = 0, !.state = "FAILED"]
<1>1. ResourcesType /\ slot \in DOMAIN entries /\ entries[slot] \in Entry
  BY Shapes DEF ResourcesInv, Fail, Matches, ValidateUntyped
<1>2. EndsWith(k, "FAILED")
  <2>1. Matches(operations[k]) /\ operations[k] \in Operation /\ operations[k].outcomes = <<>>
    BY <1>1, Shapes DEF Fail, ResourcesInv, LoadsAreNumbered
  <2>2. Append(operations[k].outcomes, "FAILED") = <<"FAILED">>
    BY <2>1
  <2>3. operations' = [operations EXCEPT ![k] = [@ EXCEPT !.outcomes = <<"FAILED">>]]
    BY <2>2 DEF Fail, Ends
  <2>. QED
    BY <2>1, <2>3 DEF EndsWith, Outcomes
<1>3. /\ new \in Entry /\ new.occupied = entries[slot].occupied
      /\ new.identity = entries[slot].identity /\ new.generation = entries[slot].generation
      /\ new.operation = entries[slot].operation /\ new.version = entries[slot].version
      /\ new.cancelled = entries[slot].cancelled /\ new.state = "FAILED"
  BY <1>1 DEF Entry, EntryStates
<1>4. Rewrites(slot, new)
  <2>1. entries' = [entries EXCEPT ![slot] = new]
    BY DEF Fail
  <2>2. new.operation >= entries[slot].operation
    BY <1>1, <1>3 DEF Entry
  <2>. HIDE DEF new
  <2>. QED
    BY <1>1, <1>3, <2>1, <2>2 DEF Rewrites, Fail
<1>. HIDE DEF new
<1>5. new.cancelled = 0
  BY <1>1, <1>3 DEF Fail, Matches, ResourcesInv, NothingCancelled
<1>6. LoadsAreNumbered' /\ LoadingHasLoad' /\ NothingCancelled' /\ CancellationIsSeen'
  BY <1>2, <1>3, <1>4, <1>5, EndingKeeps
<1>7. VersionsAreCounted' /\ VersionsNamePayloads'
  <2>1. published' = published
    BY DEF Fail
  <2>2. \A j \in DOMAIN operations : operations[j].outcomes = <<"READY">> =>
           j \in DOMAIN operations' /\ operations'[j] = operations[j]
    BY <1>2, EndedLoads
  <2>. QED
    BY <1>3, <1>4, <2>1, <2>2, VersionsKept
<1>8. HandlesAreCurrent' /\ IndexIsExact' /\ SlotsAreBounded'
  BY <1>4, RewriteKeepsHandles
<1>9. ResourcesType'
  BY <1>1, <1>2, <1>4, RewriteKeepsSlots, EndedLoads DEF ResourcesType, Rewrites, Fail
<1>. QED
  BY <1>3, <1>4, <1>6, <1>7, <1>8, <1>9 DEF ResourcesInv

LEMMA RequestUnloadKeeps ==
  ASSUME ResourcesInv, NEW handle \in handles, RequestUnload(handle)
  PROVE  /\ ResourcesInv'
         /\ \E e : /\ Rewrites(handle.slot, e)
                  /\ e.state = "UNLOADING" /\ e.version = entries[handle.slot].version
<1>. DEFINE slot == handle.slot
            old == entries[slot]
            loading == old.state = "LOADING"
            superseded == IF loading THEN old.operation ELSE 0
            new == [old EXCEPT !.cancelled = superseded, !.operation = @ + 1,
                               !.payload = 0, !.state = "UNLOADING"]
            current == {k \in DOMAIN operations : Matches(operations[k])
                                                  /\ operations[k].handle.slot = slot}
<1>1. /\ ResourcesType /\ slot \in DOMAIN entries /\ old \in Entry
      /\ old.occupied /\ old.generation = handle.generation
      /\ old.state \in {"LOADING", "READY", "FAILED"}
  BY Shapes DEF ResourcesInv, RequestUnload, ValidateUntyped
<1>2. /\ new \in Entry /\ new.occupied = old.occupied
      /\ new.identity = old.identity /\ new.generation = old.generation
      /\ new.operation = old.operation + 1 /\ new.version = old.version
      /\ new.cancelled = superseded /\ new.state = "UNLOADING"
  <2>1. superseded \in Nat
    BY <1>1 DEF Entry
  <2>2. old \in Entry /\ old.operation + 1 \in Nat /\ "UNLOADING" \in EntryStates
    BY <1>1 DEF Entry, EntryStates
  <2>. HIDE DEF superseded, old
  <2>3. new \in Entry
    BY <2>1, <2>2 DEF Entry
  <2>. QED
    BY <2>2, <2>3 DEF Entry
<1>3. Rewrites(slot, new)
  <2>1. entries' = [entries EXCEPT ![slot] = new]
    BY DEF RequestUnload
  <2>2. new.operation >= old.operation
    BY <1>1, <1>2 DEF Entry
  <2>. HIDE DEF new
  <2>. QED
    BY <1>1, <1>2, <2>1, <2>2 DEF Rewrites, RequestUnload
<1>4. published' = published
      /\ operations' = [k \in DOMAIN operations |->
                          IF k \in current
                          THEN [operations[k] EXCEPT !.outcomes = Append(@, "UNLOADED")]
                          ELSE operations[k]]
  BY Zenon DEF RequestUnload
<1>. HIDE DEF new
<1>5. ASSUME ~loading
      PROVE  ResourcesInv'
  <2>1. current = {}
    BY <1>5 DEF Matches
  <2>2. operations' = operations
    BY <1>1, <1>4, <2>1, Shapes
  <2>3. new.cancelled = old.cancelled
    BY <1>1, <1>2, <1>5 DEF ResourcesInv, NothingCancelled
  <2>. QED
    BY <1>2, <1>3, <1>4, <1>5, <2>2, <2>3, NoLoadKeeps
<1>6. ASSUME loading
      PROVE  ResourcesInv'
  <2>1. PICK k \in DOMAIN operations :
           /\ operations[k].handle = HandleOf(slot, old.generation)
           /\ operations[k].number = old.operation
    BY <1>1, <1>6 DEF ResourcesInv, LoadingHasLoad
  <2>2. operations[k].handle.slot = slot /\ operations[k].handle.generation = old.generation
    BY <2>1 DEF HandleOf
  <2>3. Matches(operations[k])
    BY <1>1, <1>6, <2>1, <2>2 DEF Matches, ValidateUntyped
  <2>4. \A j \in DOMAIN operations : j \in current <=> j = k
    BY <2>2, <2>3, MatchingIsNewest
  <2>5. EndsWith(k, "UNLOADED")
    <3>1. operations[k] \in Operation /\ operations[k].outcomes = <<>>
      BY <1>1, <2>3, Shapes DEF ResourcesInv, LoadsAreNumbered
    <3>2. Append(operations[k].outcomes, "UNLOADED") = <<"UNLOADED">>
      BY <3>1
    <3>3. operations' = [operations EXCEPT ![k] = [@ EXCEPT !.outcomes = <<"UNLOADED">>]]
      <4>1. \A j \in DOMAIN operations :
               operations'[j] = IF j = k THEN [operations[k] EXCEPT !.outcomes = <<"UNLOADED">>]
                                ELSE operations[j]
        BY <1>4, <2>4, <3>2
      <4>2. DOMAIN operations' = DOMAIN operations
            /\ operations' = [j \in DOMAIN operations |-> operations'[j]]
        BY <1>4
      <4>. QED
        BY <4>1, <4>2
    <3>. QED
      BY <2>3, <3>3 DEF EndsWith, Outcomes
  <2>6. LoadsAreNumbered' /\ LoadingHasLoad' /\ NothingCancelled' /\ CancellationIsSeen'
    BY <1>2, <1>3, <1>6, <2>1, <2>2, <2>5, EndingKeeps
  <2>7. VersionsAreCounted' /\ VersionsNamePayloads'
    <3>1. \A j \in DOMAIN operations : operations[j].outcomes = <<"READY">> =>
             j \in DOMAIN operations' /\ operations'[j] = operations[j]
      BY <2>5, EndedLoads
    <3>. QED
      BY <1>2, <1>3, <1>4, <3>1, VersionsKept
  <2>8. HandlesAreCurrent' /\ IndexIsExact' /\ SlotsAreBounded'
    BY <1>3, RewriteKeepsHandles
  <2>9. ResourcesType'
    BY <1>1, <1>3, <1>4, <2>5, RewriteKeepsSlots, EndedLoads DEF ResourcesType, Rewrites
  <2>. QED
    BY <2>6, <2>7, <2>8, <2>9 DEF ResourcesInv
<1>7. ResourcesInv'
  BY <1>5, <1>6
<1>. QED
  BY <1>2, <1>3, <1>7

LEMMA CompleteUnloadKeeps ==
  ASSUME ResourcesInv, NEW handle \in handles, CompleteUnload(handle)
  PROVE  /\ ResourcesInv'
         /\ \E e : /\ Rewrites(handle.slot, e)
                  /\ e.state = "UNLOADED" /\ e.version = entries[handle.slot].version
<1>. DEFINE slot == handle.slot
            new == [entries[slot] EXCEPT !.payload = 0, !.state = "UNLOADED"]
<1>1. /\ ResourcesType /\ slot \in DOMAIN entries /\ entries[slot] \in Entry
      /\ entries[slot].state = "UNLOADING"
  BY Shapes DEF ResourcesInv, CompleteUnload, ValidateUntyped
<1>2. /\ new \in Entry /\ new.occupied = entries[slot].occupied
      /\ new.identity = entries[slot].identity /\ new.generation = entries[slot].generation
      /\ new.operation = entries[slot].operation /\ new.version = entries[slot].version
      /\ new.cancelled = entries[slot].cancelled /\ new.state = "UNLOADED"
  BY <1>1 DEF Entry, EntryStates
<1>3. Rewrites(slot, new)
  <2>1. entries' = [entries EXCEPT ![slot] = new]
    BY DEF CompleteUnload
  <2>2. new.operation >= entries[slot].operation
    BY <1>1, <1>2 DEF Entry
  <2>. HIDE DEF new
  <2>. QED
    BY <1>1, <1>2, <2>1, <2>2 DEF Rewrites, CompleteUnload
<1>. HIDE DEF new
<1>4. UNCHANGED <<operations, published>>
  BY DEF CompleteUnload
<1>. QED
  BY <1>1, <1>2, <1>3, <1>4, NoLoadKeeps

(* The version that a load publishes is new, and not greater than the position
   of the load: every earlier version came from an earlier load. *)
LEMMA NextVersion ==
  ASSUME ResourcesInv, NEW k \in DOMAIN operations, Matches(operations[k])
  PROVE  /\ entries[operations[k].handle.slot].version \in Nat
         /\ entries[operations[k].handle.slot].version + 1 <= k
         /\ operations[k].handle = HandleOf(operations[k].handle.slot,
                                            entries[operations[k].handle.slot].generation)
         /\ \A p \in PublishedOf(published, operations[k].handle) :
               p.version <= entries[operations[k].handle.slot].version
<1>. DEFINE handle == operations[k].handle
            slot == handle.slot
            version == entries[slot].version
<1>1. /\ ResourcesType /\ VersionsAreCounted /\ slot \in DOMAIN entries
      /\ operations[k] \in Operation /\ k \in Nat \ {0} /\ entries[slot] \in Entry
      /\ ValidateUntyped(handle) /\ entries[slot].occupied
      /\ entries[slot].generation = handle.generation
  BY Shapes DEF ResourcesInv, Matches, ValidateUntyped
<1>2. version \in Nat /\ handle \in HandleShape
  BY <1>1 DEF Entry, Operation
<1>3. handle = HandleOf(slot, entries[slot].generation)
  BY <1>1, <1>2 DEF HandleOf, HandleShape
<1>4. \A p \in PublishedOf(published, handle) : p.version <= version
  BY <1>1 DEF VersionsAreCounted, PublishedOf
<1>5. CASE version # 0
  <2>1. PICK p \in PublishedOf(published, handle) : p.version = version
    BY <1>1, <1>3, <1>5 DEF VersionsAreCounted
  <2>2. /\ p.payload \in DOMAIN operations /\ operations[p.payload].handle = handle
        /\ operations[p.payload].outcomes = <<"READY">> /\ version <= p.payload
    BY <2>1, <1>1 DEF VersionsAreCounted, PublishedOf
  <2>3. operations[k].outcomes = <<>>
    BY DEF ResourcesInv, LoadsAreNumbered
  <2>4. <<>> # <<"READY">>
    OBVIOUS
  <2>5. p.payload <= k /\ p.payload # k
    BY <2>2, <2>3, <2>4, MatchingIsNewest
  <2>6. p.payload \in Nat
    BY <1>1, <2>2, Shapes
  <2>7. version + 1 <= k
    BY <1>1, <1>2, <2>2, <2>5, <2>6
  <2>. QED
    BY <1>2, <1>3, <1>4, <2>7
<1>6. CASE version = 0
  <2>1. version + 1 <= k
    BY <1>1, <1>6
  <2>. QED
    BY <1>2, <1>3, <1>4, <2>1
<1>. QED
  BY <1>5, <1>6

LEMMA PublishReadyKeeps ==
  ASSUME ResourcesInv, NEW k \in DOMAIN operations, PublishReady(k)
  PROVE  /\ ResourcesInv'
         /\ \E e : /\ Rewrites(operations[k].handle.slot, e)
                  /\ e.state = "READY"
                  /\ e.version = entries[operations[k].handle.slot].version + 1
<1>. DEFINE handle == operations[k].handle
            slot == handle.slot
            version == entries[slot].version + 1
            publication == [resource |-> handle, version |-> version, payload |-> k]
            new == [entries[slot] EXCEPT !.version = version, !.payload = k, !.state = "READY"]
<1>1. /\ ResourcesType /\ slot \in DOMAIN entries /\ entries[slot] \in Entry
      /\ Matches(operations[k]) /\ operations[k] \in Operation /\ k \in Nat \ {0}
  BY Shapes DEF ResourcesInv, PublishReady, Matches, ValidateUntyped
<1>2. EndsWith(k, "READY")
  <2>1. operations[k].outcomes = <<>>
    BY <1>1 DEF ResourcesInv, LoadsAreNumbered
  <2>2. Append(operations[k].outcomes, "READY") = <<"READY">>
    BY <2>1
  <2>3. operations' = [operations EXCEPT ![k] = [@ EXCEPT !.outcomes = <<"READY">>]]
    BY <2>2 DEF PublishReady, Ends
  <2>. QED
    BY <1>1, <2>3 DEF EndsWith, Outcomes
<1>3. /\ version \in Nat \ {0} /\ version <= k
      /\ handle = HandleOf(slot, entries[slot].generation)
      /\ \A p \in PublishedOf(published, handle) : p.version < version
  <2>1. /\ entries[slot].version \in Nat /\ version <= k
        /\ handle = HandleOf(slot, entries[slot].generation)
        /\ \A p \in PublishedOf(published, handle) : p.version <= entries[slot].version
    BY <1>1, NextVersion
  <2>2. \A p \in PublishedOf(published, handle) : p.version \in Nat
    BY <1>1 DEF ResourcesType, PublishedOf
  <2>. QED
    BY <2>1, <2>2
<1>4. entries' = [entries EXCEPT ![slot] = new] /\ published' = published \cup {publication}
      /\ index' = index /\ handles' = handles
  BY DEF PublishReady
<1>. HIDE DEF version
<1>5. /\ new \in Entry /\ new.occupied = entries[slot].occupied
      /\ new.identity = entries[slot].identity /\ new.generation = entries[slot].generation
      /\ new.operation = entries[slot].operation /\ new.version = version
      /\ new.cancelled = entries[slot].cancelled /\ new.state = "READY"
  <2>1. "READY" \in EntryStates /\ version \in Nat /\ k \in Nat
    BY <1>1, <1>3 DEF EntryStates
  <2>2. new \in Entry
    BY <1>1, <2>1 DEF Entry
  <2>. QED
    BY <1>1, <2>2 DEF Entry
<1>. HIDE DEF new
<1>6. Rewrites(slot, new)
  <2>1. new.operation >= entries[slot].operation
    BY <1>1, <1>5 DEF Entry
  <2>. QED
    BY <1>1, <1>4, <1>5, <2>1 DEF Rewrites
<1>7. new.cancelled = 0
  BY <1>1, <1>5 DEF Matches, ResourcesInv, NothingCancelled
<1>8. LoadsAreNumbered' /\ LoadingHasLoad' /\ NothingCancelled' /\ CancellationIsSeen'
  BY <1>2, <1>5, <1>6, <1>7, EndingKeeps
<1>9. HandlesAreCurrent' /\ IndexIsExact' /\ SlotsAreBounded'
  BY <1>6, RewriteKeepsHandles
<1>10. ResourcesType'
  <2>1. publication \in [resource : HandleShape, version : Nat \ {0}, payload : Nat]
    BY <1>1, <1>3 DEF Operation
  <2>2. /\ entries' \in Seq(Entry) /\ DOMAIN entries' = DOMAIN entries
        /\ operations' \in Seq(Operation) /\ Len(operations') = Len(operations)
    BY <1>1, <1>2, <1>6, RewriteKeepsSlots, EndedLoads
  <2>. HIDE DEF publication
  <2>. QED
    BY <1>1, <1>4, <2>1, <2>2 DEF ResourcesType
<1>11. /\ publication \notin published
       /\ publication.resource = handle /\ publication.version = version
       /\ publication.payload = k
  BY <1>1, <1>3 DEF PublishedOf, ResourcesType
<1>. HIDE DEF publication
<1>12. VersionsNamePayloads'
  <2>1. ASSUME NEW p \in published, p.resource = publication.resource
        PROVE  p.version # publication.version
    <3>1. p \in PublishedOf(published, handle) /\ p.version \in Nat
      BY <1>1, <1>11, <2>1 DEF PublishedOf, ResourcesType
    <3>. QED
      BY <3>1, <1>3, <1>11
  <2>2. \A p, q \in published : p.resource = q.resource /\ p.version = q.version => p = q
    BY DEF ResourcesInv, VersionsNamePayloads
  <2>. QED
    BY <1>4, <2>1, <2>2 DEF VersionsNamePayloads
<1>13. VersionsAreCounted'
  <2>1. VersionsAreCounted /\ IsFiniteSet(published)
    BY DEF ResourcesInv, VersionsAreCounted
  <2>2. IsFiniteSet(published')
    BY <2>1, <1>4, FS_AddElement
  <2>3. /\ \A s \in DOMAIN entries : s # slot => entries'[s] = entries[s]
        /\ entries'[slot] = new /\ DOMAIN entries' = DOMAIN entries
        /\ \A h : ValidateUntyped(h)' = ValidateUntyped(h)
    BY <1>1, <1>6, RewriteKeepsSlots
  <2>4. /\ DOMAIN operations' = DOMAIN operations
        /\ \A j \in DOMAIN operations :
              /\ operations'[j].handle = operations[j].handle
              /\ j # k => operations'[j] = operations[j]
        /\ operations'[k].outcomes = <<"READY">>
    BY <1>2, EndedLoads
  <2>5. ASSUME NEW p \in published'
        PROVE  /\ p.payload \in DOMAIN operations'
               /\ operations'[p.payload].handle = p.resource
               /\ operations'[p.payload].outcomes = <<"READY">>
               /\ p.version <= p.payload
               /\ ValidateUntyped(p.resource)' =>
                     p.version <= entries'[p.resource.slot].version
    <3>1. CASE p = publication
      <4>1. ValidateUntyped(p.resource)' => p.version <= entries'[p.resource.slot].version
        BY <3>1, <1>3, <1>5, <1>11, <2>3
      <4>. QED
        BY <3>1, <4>1, <1>3, <1>11, <2>4
    <3>2. CASE p \in published
      <4>1. /\ p.payload \in DOMAIN operations
            /\ operations[p.payload].handle = p.resource
            /\ operations[p.payload].outcomes = <<"READY">>
            /\ p.version <= p.payload
            /\ ValidateUntyped(p.resource) => p.version <= entries[p.resource.slot].version
        BY <2>1, <3>2 DEF VersionsAreCounted
      <4>2. operations'[p.payload].outcomes = <<"READY">>
        BY <4>1, <2>4
      <4>3. ASSUME ValidateUntyped(p.resource)'
            PROVE  p.version <= entries'[p.resource.slot].version
        <5>1. ValidateUntyped(p.resource)
          BY <2>3, <4>3
        <5>2. CASE p.resource.slot # slot
          BY <4>1, <5>1, <5>2, <2>3 DEF ValidateUntyped
        <5>3. CASE p.resource.slot = slot
          <6>1. p.version <= entries[slot].version /\ p.version \in Nat
                /\ entries[slot].version \in Nat
            BY <4>1, <5>1, <5>3, <3>2, <1>1 DEF ResourcesType, Entry
          <6>2. entries'[slot].version = entries[slot].version + 1
            BY <2>3, <1>5 DEF version
          <6>. QED
            BY <6>1, <6>2, <5>3
        <5>. QED
          BY <5>2, <5>3
      <4>. QED
        BY <4>1, <4>2, <4>3, <2>4
    <3>. QED
      BY <3>1, <3>2, <1>4
  <2>6. ASSUME NEW s \in DOMAIN entries', entries'[s].occupied
        PROVE  /\ entries'[s].version =
                    Cardinality(PublishedOf(published', HandleOf(s, entries'[s].generation)))
               /\ entries'[s].version # 0 =>
                    \E p \in PublishedOf(published', HandleOf(s, entries'[s].generation)) :
                       p.version = entries'[s].version
               /\ entries'[s].state = "READY" => entries'[s].version # 0
    <3>1. CASE s # slot
      <4>1. PublishedOf(published', HandleOf(s, entries[s].generation))
               = PublishedOf(published, HandleOf(s, entries[s].generation))
        <5>1. publication.resource # HandleOf(s, entries[s].generation)
          BY <1>3, <1>11, <3>1 DEF HandleOf
        <5>. QED
          BY <5>1, <1>4 DEF PublishedOf
      <4>. QED
        BY <3>1, <4>1, <2>1, <2>3, <2>6 DEF VersionsAreCounted
    <3>2. CASE s = slot
      <4>1. HandleOf(s, entries'[s].generation) = handle
        BY <3>2, <1>3, <1>5, <2>3
      <4>2. PublishedOf(published', handle) = PublishedOf(published, handle) \cup {publication}
            /\ publication \notin PublishedOf(published, handle)
        BY <1>4, <1>11 DEF PublishedOf
      <4>3. IsFiniteSet(PublishedOf(published, handle))
        <5>1. PublishedOf(published, handle) \in SUBSET published
          BY DEF PublishedOf
        <5>. QED
          BY <5>1, <2>1, FS_Subset
      <4>4. Cardinality(PublishedOf(published', handle))
               = Cardinality(PublishedOf(published, handle)) + 1
        BY <4>2, <4>3, FS_AddElement
      <4>5. Cardinality(PublishedOf(published, handle)) = entries[slot].version
        BY <3>2, <1>1, <1>3, <2>1 DEF VersionsAreCounted, Matches, ValidateUntyped
      <4>6. entries'[s].version = version /\ entries'[s].state = "READY"
        BY <3>2, <1>5, <2>3
      <4>. QED
        BY <4>1, <4>2, <4>4, <4>5, <4>6, <1>3, <1>11 DEF version
    <3>. QED
      BY <3>1, <3>2
  <2>. QED
    BY <2>2, <2>5, <2>6 DEF VersionsAreCounted
<1>. QED
  BY <1>5, <1>6, <1>8, <1>9, <1>10, <1>12, <1>13 DEF ResourcesInv, version

LEMMA BeginLoadingKeeps ==
  ASSUME ResourcesInv, NEW handle \in handles, BeginLoading(handle)
  PROVE  /\ ResourcesInv'
         /\ \E e : /\ Rewrites(handle.slot, e)
                  /\ e.state = "LOADING" /\ e.version = entries[handle.slot].version
<1>. DEFINE slot == handle.slot
            new == [entries[slot] EXCEPT !.operation = @ + 1, !.cancelled = 0,
                                         !.state = "LOADING", !.payload = 0]
            last == Len(operations) + 1
            load == [handle |-> HandleOf(slot, handle.generation),
                     number |-> entries[slot].operation + 1, outcomes |-> <<>>]
<1>1. /\ ResourcesType /\ slot \in DOMAIN entries /\ entries[slot] \in Entry
      /\ ValidateUntyped(handle) /\ entries[slot].operation \in Nat
      /\ entries[slot].occupied /\ entries[slot].generation = handle.generation
      /\ entries[slot].state \in {"UNLOADED", "FAILED"}
      /\ handle \in [slot : Nat \ {0}, generation : Nat \ {0}, identity : Identities]
      /\ Len(operations) \in Nat /\ last <= MaxOperations
  <2>1. ResourcesType /\ ValidateUntyped(handle) /\ Len(operations) < MaxOperations
        /\ entries[slot].state \in {"UNLOADED", "FAILED"}
    BY DEF ResourcesInv, BeginLoading
  <2>2. slot \in DOMAIN entries /\ entries[slot].occupied
        /\ entries[slot].generation = handle.generation
    BY <2>1 DEF ValidateUntyped
  <2>3. entries[slot] \in Entry /\ Len(operations) \in Nat
    BY <2>1, <2>2, Shapes
  <2>4. /\ handle \in [slot : Nat \ {0}, generation : Nat \ {0}, identity : Identities]
        /\ entries[slot].operation \in Nat
    BY <2>1, <2>3 DEF ResourcesType, Entry
  <2>5. last <= MaxOperations
    BY <2>1, <2>3, ResourcesAssumption
  <2>. QED
    BY <2>1, <2>2, <2>3, <2>4, <2>5
<1>2. /\ entries' = [entries EXCEPT ![slot] = new] /\ operations' = Append(operations, load)
      /\ index' = index /\ handles' = handles /\ published' = published
  BY DEF BeginLoading
<1>3. /\ new \in Entry /\ new.occupied = entries[slot].occupied
      /\ new.identity = entries[slot].identity /\ new.generation = entries[slot].generation
      /\ new.operation = entries[slot].operation + 1 /\ new.version = entries[slot].version
      /\ new.cancelled = 0 /\ new.state = "LOADING"
  <2>1. "LOADING" \in EntryStates /\ entries[slot].operation + 1 \in Nat
    BY <1>1 DEF EntryStates
  <2>2. new \in Entry
    BY <1>1, <2>1 DEF Entry
  <2>. QED
    BY <1>1, <2>2 DEF Entry
<1>4. /\ load \in Operation /\ load.number = entries[slot].operation + 1
      /\ load.handle.slot = slot /\ load.handle.generation = handle.generation
      /\ load.outcomes = <<>> /\ load.handle = HandleOf(slot, handle.generation)
  BY <1>1 DEF Operation, HandleShape, HandleOf, Endings
<1>. HIDE DEF new, load
<1>5. Rewrites(slot, new)
  <2>1. new.operation >= entries[slot].operation
    BY <1>1, <1>3
  <2>. QED
    BY <1>1, <1>2, <1>3, <2>1 DEF Rewrites
<1>6. /\ \A s \in DOMAIN entries : s # slot => entries'[s] = entries[s]
      /\ entries'[slot] = new /\ DOMAIN entries' = DOMAIN entries
      /\ \A h : Current(h)' = Current(h)
      /\ \A h : ValidateUntyped(h)' = ValidateUntyped(h)
  BY <1>1, <1>5, RewriteKeepsSlots
<1>7. /\ operations' \in Seq(Operation) /\ Len(operations') = last
      /\ DOMAIN operations' = DOMAIN operations \cup {last}
      /\ last \notin DOMAIN operations
      /\ \A j \in DOMAIN operations : j < last /\ operations'[j] = operations[j]
      /\ operations'[last] = load
  <2>1. operations \in Seq(Operation)
    BY <1>1 DEF ResourcesType
  <2>2. /\ operations' \in Seq(Operation) /\ Len(operations') = last
        /\ \A j \in 1 .. Len(operations) : operations'[j] = operations[j]
        /\ operations'[last] = load
    BY <2>1, <1>2, <1>4, AppendProperties
  <2>3. DOMAIN operations' = 1 .. last /\ DOMAIN operations = 1 .. Len(operations)
    BY <2>1, <2>2, LenProperties
  <2>. QED
    BY <1>1, <2>2, <2>3
<1>8. \A j \in DOMAIN operations :
         /\ operations[j].number \in Nat
         /\ operations[j].handle.slot = slot => operations[j].number <= entries[slot].operation
         /\ operations[j].handle.slot = slot => operations[j].outcomes # <<>>
  <2>1. \A j \in DOMAIN operations : operations[j] \in Operation
    BY <1>1, Shapes
  <2>2. \A j \in DOMAIN operations :
           operations[j].handle.slot = slot => ~Matches(operations[j])
    BY <1>1 DEF Matches
  <2>. QED
    BY <2>1, <2>2 DEF ResourcesInv, LoadsAreNumbered, Operation
<1>9. LoadsAreNumbered'
  <2>1. ASSUME NEW j \in DOMAIN operations
        PROVE  /\ Current(operations[j].handle)'
               /\ operations[j].number <= entries'[operations[j].handle.slot].operation
               /\ operations[j].outcomes = <<>> <=> Matches(operations[j])'
    <3>1. CASE operations[j].handle.slot # slot
      <4>1. Matches(operations[j])' <=> Matches(operations[j])
        BY <3>1, <1>6, <1>7 DEF Matches, ValidateUntyped
      <4>2. operations[j].handle.slot \in DOMAIN entries
        BY DEF ResourcesInv, LoadsAreNumbered, Current
      <4>. QED
        BY <3>1, <4>1, <4>2, <1>6, <1>7 DEF ResourcesInv, LoadsAreNumbered
    <3>2. CASE operations[j].handle.slot = slot
      <4>1. operations[j].number < new.operation
        BY <3>2, <1>1, <1>3, <1>8
      <4>2. ~Matches(operations[j])'
        <5>1. entries'[operations[j].handle.slot].operation # operations[j].number
          BY <3>2, <4>1, <1>1, <1>3, <1>6, <1>8
        <5>. QED
          BY <5>1, <1>7 DEF Matches
      <4>3. Current(operations[j].handle)'
        BY <1>6, <1>7 DEF ResourcesInv, LoadsAreNumbered
      <4>4. operations[j].number <= entries'[operations[j].handle.slot].operation
        BY <3>2, <4>1, <1>1, <1>3, <1>6, <1>8
      <4>. QED
        BY <3>2, <4>2, <4>3, <4>4, <1>8
    <3>. QED
      BY <3>1, <3>2
  <2>2. ASSUME NEW j, j = last
        PROVE  /\ Current(operations[j].handle)'
               /\ load.number <= entries'[slot].operation
               /\ Matches(operations[j])'
    <3>1. operations'[j] = load
      BY <2>2, <1>7
    <3>2. ValidateUntyped(operations[j].handle)'
      BY <3>1, <1>1, <1>3, <1>4, <1>6 DEF ValidateUntyped
    <3>3. Current(operations[j].handle)'
      BY <3>1, <3>2, <1>1, <1>3, <1>4, <1>6 DEF ValidateUntyped, Current
    <3>4. Matches(operations[j])'
      BY <3>1, <3>2, <1>3, <1>4, <1>6 DEF Matches
    <3>. QED
      BY <3>3, <3>4, <1>1, <1>3, <1>4, <1>6
  <2>3. ASSUME NEW j \in DOMAIN operations', NEW k \in DOMAIN operations',
               operations'[j].handle.slot = operations'[k].handle.slot, j < k
        PROVE  operations'[j].number < operations'[k].number
    <3>1. j \in DOMAIN operations
      BY <2>3, <1>1, <1>7, Shapes
    <3>2. CASE k \in DOMAIN operations
      BY <2>3, <3>1, <3>2, <1>7 DEF ResourcesInv, LoadsAreNumbered
    <3>3. CASE k = last
      BY <2>3, <3>1, <3>3, <1>1, <1>4, <1>7, <1>8
    <3>. QED
      BY <3>2, <3>3, <1>7
  <2>4. ASSUME NEW j \in DOMAIN operations'
        PROVE  /\ Current(operations[j].handle)'
               /\ operations'[j].number <= entries'[operations'[j].handle.slot].operation
               /\ operations'[j].outcomes = <<>> <=> Matches(operations[j])'
    <3>1. CASE j \in DOMAIN operations
      BY <3>1, <2>1, <1>7
    <3>2. CASE j = last
      BY <3>2, <2>2, <1>4, <1>7
    <3>. QED
      BY <3>1, <3>2, <1>7
  <2>. QED
    BY <2>3, <2>4 DEF LoadsAreNumbered
<1>10. LoadingHasLoad'
  <2>. SUFFICES ASSUME NEW s \in DOMAIN entries',
                       entries'[s].occupied, entries'[s].state = "LOADING"
                PROVE  \E k \in DOMAIN operations' :
                          /\ operations'[k].handle = HandleOf(s, entries'[s].generation)
                          /\ operations'[k].number = entries'[s].operation
    BY DEF LoadingHasLoad
  <2>1. CASE s = slot
    BY <2>1, <1>1, <1>3, <1>4, <1>6, <1>7
  <2>2. CASE s # slot
    BY <2>2, <1>6, <1>7 DEF ResourcesInv, LoadingHasLoad
  <2>. QED
    BY <2>1, <2>2
<1>11. NothingCancelled'
  BY <1>3, <1>6 DEF ResourcesInv, NothingCancelled
<1>12. CancellationIsSeen'
  <2>. SUFFICES ASSUME NEW j \in DOMAIN operations',
                       \A i \in DOMAIN operations' :
                          operations'[i].handle = operations'[j].handle => i <= j,
                       ValidateUntyped(operations[j].handle)'
                PROVE  IsCancellationRequested(operations[j])'
                          <=> operations'[j].outcomes = <<"UNLOADED">>
    BY DEF CancellationIsSeen
  <2>1. CASE j = last
    <3>1. operations'[j] = load /\ load.number # 0 /\ <<>> # <<"UNLOADED">>
      BY <2>1, <1>1, <1>4, <1>7
    <3>. QED
      BY <3>1, <1>3, <1>4, <1>6 DEF IsCancellationRequested
  <2>2. CASE j \in DOMAIN operations
    <3>1. operations[j].handle # load.handle
      BY <2>2, <1>1, <1>7, Shapes
    <3>2. operations[j].handle.slot # slot
      <4>1. operations[j].handle \in HandleShape /\ load.handle \in HandleShape
        BY <2>2, <1>1, <1>4, Shapes DEF Operation
      <4>2. operations[j].handle.slot = slot =>
               operations[j].handle.generation = load.handle.generation
        BY <2>2, <1>1, <1>3, <1>4, <1>6, <1>7 DEF ValidateUntyped
      <4>. QED
        BY <3>1, <4>1, <4>2, <1>4 DEF HandleShape
    <3>3. IsCancellationRequested(operations[j])' <=> IsCancellationRequested(operations[j])
      BY <2>2, <3>2, <1>6, <1>7 DEF IsCancellationRequested, ValidateUntyped
    <3>4. \A i \in DOMAIN operations : operations[i].handle = operations[j].handle => i <= j
      BY <2>2, <1>7
    <3>5. ValidateUntyped(operations[j].handle)
      BY <2>2, <1>6, <1>7
    <3>. QED
      BY <2>2, <3>3, <3>4, <3>5, <1>7 DEF ResourcesInv, CancellationIsSeen
  <2>. QED
    BY <2>1, <2>2, <1>7
<1>13. VersionsAreCounted' /\ VersionsNamePayloads'
  BY <1>2, <1>3, <1>5, <1>7, VersionsKept
<1>14. HandlesAreCurrent' /\ IndexIsExact' /\ SlotsAreBounded'
  BY <1>5, RewriteKeepsHandles
<1>15. ResourcesType'
  BY <1>1, <1>2, <1>5, <1>7, RewriteKeepsSlots DEF ResourcesType
<1>. QED
  BY <1>3, <1>5, <1>9, <1>10, <1>11, <1>12, <1>13, <1>14, <1>15 DEF ResourcesInv

(* A slot changes hands: it is given to a new identity or freed. *)
Reassigns(slot, new) ==
  /\ slot \in 1 .. Len(entries) + 1 /\ new \in Entry
  /\ new.state = "UNLOADED" /\ new.version = 0 /\ new.cancelled = 0 /\ new.generation # 0
  /\ slot \in DOMAIN entries =>
        /\ ~(entries[slot].occupied /\ entries[slot].state = "LOADING")
        /\ new.generation = entries[slot].generation + 1
        /\ new.operation = entries[slot].operation
  /\ entries' = [s \in DOMAIN entries \cup {slot} |-> IF s = slot THEN new ELSE entries[s]]
  /\ UNCHANGED <<operations, published>>

LEMMA ReassignedSlots ==
  ASSUME ResourcesType, NEW slot, NEW new, Reassigns(slot, new)
  PROVE  /\ entries' \in Seq(Entry)
         /\ Len(entries') = IF slot \in DOMAIN entries THEN Len(entries) ELSE Len(entries) + 1
         /\ DOMAIN entries' = DOMAIN entries \cup {slot}
         /\ entries'[slot] = new
         /\ \A s \in DOMAIN entries : s # slot => entries'[s] = entries[s]
         /\ \A h \in HandleShape \cup handles : Current(h) =>
               /\ Current(h)'
               /\ ValidateUntyped(h)' <=> ValidateUntyped(h) /\ h.slot # slot
               /\ h.slot = slot => h.generation < new.generation
<1>1. /\ Len(entries) \in Nat /\ DOMAIN entries = 1 .. Len(entries)
      /\ \A s \in DOMAIN entries : entries[s] \in Entry
  BY Shapes
<1>2. DOMAIN entries \cup {slot} = 1 .. IF slot \in DOMAIN entries THEN Len(entries)
                                       ELSE Len(entries) + 1
  BY <1>1 DEF Reassigns
<1>3. /\ DOMAIN entries' = DOMAIN entries \cup {slot}
      /\ entries'[slot] = new
      /\ \A s \in DOMAIN entries : s # slot => entries'[s] = entries[s]
      /\ \A s \in DOMAIN entries' : entries'[s] \in Entry
      /\ entries' = [s \in DOMAIN entries' |-> entries'[s]]
  BY <1>1 DEF Reassigns
<1>4. entries' \in Seq(Entry)
      /\ Len(entries') = IF slot \in DOMAIN entries THEN Len(entries) ELSE Len(entries) + 1
  <2>. DEFINE n == IF slot \in DOMAIN entries THEN Len(entries) ELSE Len(entries) + 1
  <2>1. n \in Nat
    BY <1>1
  <2>2. entries' \in [1 .. n -> Entry]
    BY <1>2, <1>3
  <2>. HIDE DEF n
  <2>3. entries' \in Seq(Entry) /\ Len(entries') = n
    BY <2>1, <2>2, SegmentIsSeq
  <2>. QED
    BY <2>3 DEF n
<1>5. ASSUME NEW h \in HandleShape \cup handles, Current(h)
      PROVE  /\ Current(h)'
             /\ ValidateUntyped(h)' <=> ValidateUntyped(h) /\ h.slot # slot
             /\ h.slot = slot => h.generation < new.generation
  <2>1. h.slot \in DOMAIN entries /\ h.generation <= entries[h.slot].generation
        /\ h.generation \in Nat /\ entries[h.slot].generation \in Nat
    BY <1>1, <1>5 DEF ResourcesType, Current, HandleShape, Entry
  <2>2. CASE h.slot = slot
    <3>1. new.generation = entries[slot].generation + 1
      BY <2>1, <2>2 DEF Reassigns
    <3>2. h.generation < new.generation
      BY <2>1, <2>2, <3>1
    <3>3. Current(h)'
      BY <2>1, <2>2, <3>1, <3>2, <1>3 DEF Current
    <3>4. ~ValidateUntyped(h)'
      BY <2>1, <2>2, <3>1, <3>2, <1>3 DEF ValidateUntyped
    <3>. QED
      BY <2>2, <3>2, <3>3, <3>4
  <2>3. CASE h.slot # slot
    <3>1. Current(h)'
      BY <2>1, <2>3, <1>3, <1>5 DEF Current
    <3>2. ValidateUntyped(h)' <=> ValidateUntyped(h)
      BY <2>1, <2>3, <1>3 DEF ValidateUntyped
    <3>. QED
      BY <2>3, <3>1, <3>2
  <2>. QED
    BY <2>2, <2>3
<1>. QED
  BY <1>3, <1>4, <1>5

LEMMA ReassignKeepsLoads ==
  ASSUME ResourcesInv, NEW slot, NEW new, Reassigns(slot, new)
  PROVE  /\ LoadsAreNumbered' /\ LoadingHasLoad' /\ NothingCancelled' /\ CancellationIsSeen'
         /\ VersionsAreCounted' /\ VersionsNamePayloads'
<1>1. /\ ResourcesType /\ LoadsAreNumbered /\ LoadingHasLoad /\ NothingCancelled
      /\ CancellationIsSeen /\ VersionsAreCounted /\ VersionsNamePayloads
  BY DEF ResourcesInv
<1>2. /\ DOMAIN entries' = DOMAIN entries \cup {slot}
      /\ entries'[slot] = new
      /\ \A s \in DOMAIN entries : s # slot => entries'[s] = entries[s]
      /\ \A h \in HandleShape : Current(h) =>
            /\ Current(h)'
            /\ ValidateUntyped(h)' <=> ValidateUntyped(h) /\ h.slot # slot
            /\ h.slot = slot => h.generation < new.generation
  BY <1>1, ReassignedSlots
<1>3. operations' = operations /\ published' = published /\ new.state = "UNLOADED"
      /\ new.cancelled = 0 /\ new.version = 0
  BY DEF Reassigns
<1>4. ASSUME NEW k \in DOMAIN operations
      PROVE  /\ operations[k] \in Operation /\ operations[k].handle \in HandleShape
             /\ Current(operations[k].handle) /\ Current(operations[k].handle)'
             /\ operations[k].handle.slot \in DOMAIN entries
             /\ ValidateUntyped(operations[k].handle)' <=>
                   ValidateUntyped(operations[k].handle) /\ operations[k].handle.slot # slot
  <2>1. /\ operations[k] \in Operation /\ operations[k].handle \in HandleShape
        /\ Current(operations[k].handle)
    BY <1>1, Shapes DEF LoadsAreNumbered, Operation
  <2>2. operations[k].handle.slot \in DOMAIN entries
    BY <2>1 DEF Current
  <2>. QED
    BY <1>2, <1>3, <2>1, <2>2
<1>5. ASSUME NEW k \in DOMAIN operations
      PROVE  Matches(operations[k])' <=> Matches(operations[k])
  <2>1. CASE operations[k].handle.slot = slot
    <3>1. ~Matches(operations[k])
      BY <2>1, <1>4 DEF Matches, ValidateUntyped, Reassigns
    <3>2. ~Matches(operations[k])'
      BY <2>1, <1>3, <1>4 DEF Matches
    <3>. QED
      BY <3>1, <3>2
  <2>2. CASE operations[k].handle.slot # slot
    BY <2>2, <1>2, <1>3, <1>4 DEF Matches
  <2>. QED
    BY <2>1, <2>2
<1>6. LoadsAreNumbered'
  <2>1. ASSUME NEW k \in DOMAIN operations
        PROVE  operations[k].number <= entries'[operations[k].handle.slot].operation
    BY <1>1, <1>2, <1>4 DEF LoadsAreNumbered, Reassigns
  <2>. QED
    BY <2>1, <1>1, <1>3, <1>4, <1>5 DEF LoadsAreNumbered
<1>7. LoadingHasLoad'
  <2>1. new.state # "LOADING"
    BY <1>3
  <2>. QED
    BY <2>1, <1>1, <1>2, <1>3 DEF LoadingHasLoad
<1>8. NothingCancelled'
  BY <1>1, <1>2, <1>3 DEF NothingCancelled
<1>9. CancellationIsSeen'
  <2>. SUFFICES ASSUME NEW j \in DOMAIN operations,
                       \A i \in DOMAIN operations :
                          operations[i].handle = operations[j].handle => i <= j,
                       ValidateUntyped(operations[j].handle)'
                PROVE  IsCancellationRequested(operations[j])'
                          <=> operations[j].outcomes = <<"UNLOADED">>
    BY <1>3 DEF CancellationIsSeen
  <2>1. ValidateUntyped(operations[j].handle) /\ operations[j].handle.slot # slot
    BY <1>4
  <2>2. IsCancellationRequested(operations[j])' <=> IsCancellationRequested(operations[j])
    BY <2>1, <1>2, <1>3, <1>4 DEF IsCancellationRequested
  <2>. QED
    BY <2>1, <2>2, <1>1 DEF CancellationIsSeen
<1>10. VersionsAreCounted'
  <2>1. ASSUME NEW p \in published
        PROVE  /\ p.payload \in DOMAIN operations
               /\ operations[p.payload].handle = p.resource
               /\ operations[p.payload].outcomes = <<"READY">>
               /\ p.version <= p.payload
               /\ ValidateUntyped(p.resource)' =>
                     p.version <= entries'[p.resource.slot].version
    <3>1. /\ p.payload \in DOMAIN operations
          /\ operations[p.payload].handle = p.resource
          /\ operations[p.payload].outcomes = <<"READY">>
          /\ p.version <= p.payload
          /\ ValidateUntyped(p.resource) => p.version <= entries[p.resource.slot].version
      BY <1>1 DEF VersionsAreCounted
    <3>2. p.resource \in HandleShape /\ Current(p.resource)
      BY <3>1, <1>4
    <3>3. ValidateUntyped(p.resource)' =>
             ValidateUntyped(p.resource) /\ p.resource.slot # slot
      BY <3>2, <1>2
    <3>4. ValidateUntyped(p.resource)' => p.version <= entries'[p.resource.slot].version
      BY <3>1, <3>3, <1>2 DEF ValidateUntyped
    <3>. QED
      BY <3>1, <3>4
  <2>2. ASSUME NEW s \in DOMAIN entries', entries'[s].occupied
        PROVE  /\ entries'[s].version =
                    Cardinality(PublishedOf(published, HandleOf(s, entries'[s].generation)))
               /\ entries'[s].version # 0 =>
                    \E p \in PublishedOf(published, HandleOf(s, entries'[s].generation)) :
                       p.version = entries'[s].version
               /\ entries'[s].state = "READY" => entries'[s].version # 0
    <3>1. CASE s # slot
      BY <3>1, <2>2, <1>1, <1>2 DEF VersionsAreCounted
    <3>2. CASE s = slot
      <4>1. \A p \in published : p.resource # HandleOf(slot, new.generation)
        <5>. SUFFICES ASSUME NEW p \in published, p.resource = HandleOf(slot, new.generation)
                      PROVE  FALSE
          OBVIOUS
        <5>1. p.resource.slot = slot /\ p.resource.generation = new.generation
          BY DEF HandleOf
        <5>2. p.resource \in HandleShape /\ Current(p.resource)
          BY <1>1, <1>4 DEF VersionsAreCounted
        <5>3. p.resource.generation < new.generation
          BY <5>1, <5>2, <1>2
        <5>. QED
          BY <5>1, <5>2, <5>3 DEF HandleShape
      <4>2. PublishedOf(published, HandleOf(slot, new.generation)) = {}
        BY <4>1 DEF PublishedOf
      <4>3. Cardinality(PublishedOf(published, HandleOf(slot, new.generation))) = 0
        BY <4>2, FS_EmptySet
      <4>. QED
        BY <3>2, <4>3, <1>2, <1>3
    <3>. QED
      BY <3>1, <3>2
  <2>. QED
    BY <2>1, <2>2, <1>1, <1>3 DEF VersionsAreCounted
<1>11. VersionsNamePayloads'
  BY <1>1, <1>3 DEF VersionsNamePayloads
<1>. QED
  BY <1>6, <1>7, <1>8, <1>9, <1>10, <1>11

LEMMA ForgetKeeps ==
  ASSUME ResourcesInv, NEW handle \in handles, Forget(handle)
  PROVE  /\ ResourcesInv'
         /\ \E e : Reassigns(handle.slot, e) /\ ~e.occupied
<1>. DEFINE slot == handle.slot
            new == [entries[slot] EXCEPT !.occupied = FALSE, !.identity = NoIdentity,
                                         !.cancelled = 0, !.version = 0, !.payload = 0,
                                         !.generation = @ + 1]
            gone == entries[slot].identity
<1>1. /\ ResourcesType /\ IndexIsExact /\ HandlesAreCurrent /\ SlotsAreBounded
      /\ slot \in DOMAIN entries /\ entries[slot] \in Entry
      /\ entries[slot].occupied /\ entries[slot].state = "UNLOADED"
      /\ slot \in 1 .. Len(entries)
  BY Shapes DEF ResourcesInv, Forget, ValidateUntyped
<1>2. /\ entries' = [entries EXCEPT ![slot] = new]
      /\ index' = [i \in DOMAIN index \ {gone} |-> index[i]]
      /\ handles' = handles /\ operations' = operations /\ published' = published
  BY DEF Forget
<1>3. /\ new \in Entry /\ ~new.occupied /\ new.generation = entries[slot].generation + 1
      /\ new.operation = entries[slot].operation /\ new.version = 0
      /\ new.cancelled = 0 /\ new.state = "UNLOADED"
  <2>1. entries[slot].generation + 1 \in Nat
    BY <1>1 DEF Entry
  <2>2. new \in Entry
    BY <1>1, <2>1 DEF Entry
  <2>. QED
    BY <1>1, <2>2 DEF Entry
<1>. HIDE DEF new
<1>4. Reassigns(slot, new)
  <2>1. entries' = [s \in DOMAIN entries \cup {slot} |-> IF s = slot THEN new ELSE entries[s]]
    BY <1>1, <1>2, Shapes
  <2>2. new.generation # 0 /\ slot \in 1 .. Len(entries) + 1
    BY <1>1, <1>3, Shapes DEF Entry
  <2>. QED
    BY <1>1, <1>2, <1>3, <2>1, <2>2 DEF Reassigns
<1>5. /\ entries' \in Seq(Entry) /\ DOMAIN entries' = DOMAIN entries
      /\ Len(entries') = Len(entries) /\ entries'[slot] = new
      /\ \A s \in DOMAIN entries : s # slot => entries'[s] = entries[s]
      /\ \A h \in HandleShape \cup handles : Current(h) =>
            /\ Current(h)'
            /\ ValidateUntyped(h)' <=> ValidateUntyped(h) /\ h.slot # slot
  BY <1>1, <1>4, ReassignedSlots
<1>6. /\ DOMAIN index' = DOMAIN index \ {gone}
      /\ \A i \in DOMAIN index' : index'[i] = index[i] /\ index[i] # slot
  BY <1>1, <1>2 DEF IndexIsExact
<1>7. ResourcesType'
  <2>1. DOMAIN index' \subseteq Identities
    BY <1>1, <1>6 DEF ResourcesType
  <2>2. index' \in [DOMAIN index' -> DOMAIN entries']
    BY <1>1, <1>2, <1>5, <1>6 DEF ResourcesType
  <2>. QED
    BY <1>1, <1>2, <1>5, <2>1, <2>2 DEF ResourcesType
<1>8. HandlesAreCurrent'
  <2>1. ASSUME NEW h \in handles
        PROVE  Current(h)' /\ (ValidateUntyped(h)' => entries'[h.slot].identity = h.identity)
    BY <1>1, <1>5 DEF HandlesAreCurrent, ValidateUntyped
  <2>2. \A s \in DOMAIN entries' : entries'[s].occupied =>
           \E h \in handles : h.slot = s /\ h.generation = entries'[s].generation
    BY <1>1, <1>3, <1>5 DEF HandlesAreCurrent
  <2>. QED
    BY <1>2, <2>1, <2>2 DEF HandlesAreCurrent
<1>9. IndexIsExact'
  <2>1. \A i \in DOMAIN index' : entries'[index'[i]].occupied /\ entries'[index'[i]].identity = i
    BY <1>1, <1>5, <1>6 DEF IndexIsExact, ResourcesType
  <2>2. ASSUME NEW s \in DOMAIN entries', entries'[s].occupied
        PROVE  entries'[s].identity \in DOMAIN index' /\ index'[entries'[s].identity] = s
    <3>1. s # slot /\ entries'[s] = entries[s] /\ entries[s].occupied
      BY <2>2, <1>3, <1>5
    <3>2. entries[s].identity # gone
      BY <2>2, <3>1, <1>1, <1>5 DEF IndexIsExact
    <3>. QED
      BY <2>2, <3>1, <3>2, <1>1, <1>5, <1>6 DEF IndexIsExact
  <2>. QED
    BY <2>1, <2>2 DEF IndexIsExact
<1>10. SlotsAreBounded'
  BY <1>1, <1>3, <1>5 DEF SlotsAreBounded
<1>. QED
  BY <1>3, <1>4, <1>7, <1>8, <1>9, <1>10, ReassignKeepsLoads DEF ResourcesInv

LEMMA ResourcesStutter == ResourcesInv /\ UNCHANGED resourceVars => ResourcesInv'
<1>. SUFFICES ASSUME ResourcesInv, UNCHANGED resourceVars
              PROVE  ResourcesInv'
  OBVIOUS
<1>1. /\ entries' = entries /\ index' = index /\ handles' = handles
      /\ operations' = operations /\ published' = published
  BY DEF resourceVars
<1>2. /\ \A h : Current(h)' = Current(h)
      /\ \A h : ValidateUntyped(h)' = ValidateUntyped(h)
  BY <1>1 DEF Current, ValidateUntyped
<1>3. ResourcesType' /\ IndexIsExact' /\ LoadingHasLoad' /\ NothingCancelled'
  BY <1>1 DEF ResourcesInv, ResourcesType, IndexIsExact, LoadingHasLoad, NothingCancelled
<1>4. HandlesAreCurrent'
  BY <1>1, <1>2 DEF ResourcesInv, HandlesAreCurrent
<1>5. LoadsAreNumbered'
  BY <1>1, <1>2 DEF ResourcesInv, LoadsAreNumbered, Matches
<1>6. CancellationIsSeen'
  BY <1>1, <1>2 DEF ResourcesInv, CancellationIsSeen, IsCancellationRequested
<1>7. VersionsAreCounted'
  BY <1>1, <1>2 DEF ResourcesInv, VersionsAreCounted
<1>8. VersionsNamePayloads' /\ SlotsAreBounded'
  BY <1>1 DEF ResourcesInv, VersionsNamePayloads, SlotsAreBounded
<1>. QED
  BY <1>3, <1>4, <1>5, <1>6, <1>7, <1>8 DEF ResourcesInv

LEMMA RequestKeeps ==
  ASSUME ResourcesInv, NEW identity \in Identities, Request(identity)
  PROVE  /\ ResourcesInv'
         /\ \/ UNCHANGED resourceVars
            \/ \E s, e :
                  /\ Reassigns(s, e) /\ e.occupied
                  /\ s \in DOMAIN entries => ~entries[s].occupied
                  /\ handles' = handles \cup {[slot |-> s, generation |-> e.generation,
                                              identity |-> identity]}
<1>1. ResourcesType /\ IndexIsExact /\ HandlesAreCurrent /\ SlotsAreBounded
  BY DEF ResourcesInv
<1>2. operations' = operations /\ published' = published
  BY DEF Request
<1>3. CASE identity \in DOMAIN index
  <2>. DEFINE slot == index[identity]
              handle == [slot |-> slot, generation |-> entries[slot].generation,
                         identity |-> identity]
  <2>1. slot \in DOMAIN entries /\ entries[slot].occupied /\ entries[slot].identity = identity
    BY <1>1, <1>3 DEF ResourcesType, IndexIsExact
  <2>2. /\ entries' = [s \in DOMAIN entries \cup {slot} |->
                         IF s = slot THEN entries[slot] ELSE entries[s]]
        /\ index' = [i \in DOMAIN index \cup {identity} |->
                       IF i = identity THEN slot ELSE index[i]]
        /\ handles' = handles \cup {handle}
    BY <1>3, <2>1 DEF Request
  <2>3. entries' = entries
    <3>1. entries = [s \in DOMAIN entries |-> entries[s]]
      BY <1>1, Shapes
    <3>2. DOMAIN entries \cup {slot} = DOMAIN entries
      BY <2>1
    <3>. QED
      BY <2>2, <3>1, <3>2
  <2>4. index' = index
    BY <2>2, <1>1, <1>3 DEF ResourcesType
  <2>5. PICK h \in handles : h.slot = slot /\ h.generation = entries[slot].generation
    BY <1>1, <2>1 DEF HandlesAreCurrent
  <2>6. h.identity = identity
    BY <1>1, <2>1, <2>5 DEF HandlesAreCurrent, ValidateUntyped
  <2>7. h = handle
    BY <1>1, <2>5, <2>6 DEF ResourcesType
  <2>8. handles' = handles
    BY <2>2, <2>7
  <2>. QED
    BY <1>2, <2>3, <2>4, <2>8, ResourcesStutter DEF resourceVars
<1>4. CASE identity \notin DOMAIN index
  <2>. DEFINE slot == SlotToUse
              old == IF slot \in DOMAIN entries THEN entries[slot] ELSE Free
              new == Requested(old, identity)
              handle == [slot |-> slot, generation |-> new.generation, identity |-> identity]
  <2>1. /\ new.generation <= MaxGeneration
        /\ entries' = [s \in DOMAIN entries \cup {slot} |->
                         IF s = slot THEN new ELSE entries[s]]
        /\ index' = [i \in DOMAIN index \cup {identity} |->
                       IF i = identity THEN slot ELSE index[i]]
        /\ handles' = handles \cup {handle}
    BY <1>4 DEF Request
  <2>2. /\ slot \in 1 .. Len(entries) + 1
        /\ slot \in DOMAIN entries => ~entries[slot].occupied
        /\ \A s \in 1 .. slot - 1 : entries[s].occupied
    BY <1>1, SlotToUseIsFree
  <2>3. Free \in Entry /\ Free.generation = 0
    BY DEF Free, Entry, EntryStates
  <2>4. old \in Entry
    BY <1>1, <2>3, Shapes
  <2>. HIDE DEF old
  <2>5. /\ new \in Entry /\ new.occupied /\ new.identity = identity
        /\ new.generation = old.generation + 1 /\ new.operation = old.operation
        /\ new.version = 0 /\ new.cancelled = 0 /\ new.state = "UNLOADED"
    <3>1. old.generation + 1 \in Nat /\ "UNLOADED" \in EntryStates
      BY <2>4 DEF Entry, EntryStates
    <3>2. new \in Entry
      BY <2>4, <3>1 DEF Entry, Requested
    <3>. QED
      BY <2>4, <3>2 DEF Entry, Requested
  <2>6. slot \in DOMAIN entries => old = entries[slot]
    BY DEF old
  <2>. HIDE DEF new, slot
  <2>7. new.generation \in Nat \ {0}
    BY <2>4, <2>5 DEF Entry
  <2>8. Reassigns(slot, new)
    BY <1>2, <2>1, <2>2, <2>5, <2>6, <2>7 DEF Reassigns
  <2>9. /\ entries' \in Seq(Entry) /\ DOMAIN entries' = DOMAIN entries \cup {slot}
        /\ Len(entries') = IF slot \in DOMAIN entries THEN Len(entries) ELSE Len(entries) + 1
        /\ entries'[slot] = new
        /\ \A s \in DOMAIN entries : s # slot => entries'[s] = entries[s]
        /\ \A h \in HandleShape \cup handles : Current(h) =>
              /\ Current(h)'
              /\ ValidateUntyped(h)' <=> ValidateUntyped(h) /\ h.slot # slot
    BY <1>1, <2>8, ReassignedSlots
  <2>10. /\ handle \in [slot : Nat \ {0}, generation : Nat \ {0}, identity : Identities]
         /\ handle.slot = slot /\ handle.generation = new.generation
         /\ handle.identity = identity
    BY <1>1, <2>2, <2>7, Shapes
  <2>. HIDE DEF handle
  <2>11. /\ DOMAIN index' = DOMAIN index \cup {identity} /\ index'[identity] = slot
         /\ \A i \in DOMAIN index : index'[i] = index[i] /\ index[i] # slot
    BY <1>1, <1>4, <2>1, <2>2 DEF IndexIsExact, ResourcesType
  <2>12. ResourcesType'
    <3>1. DOMAIN index' \subseteq Identities
      BY <1>1, <2>11 DEF ResourcesType
    <3>2. index' \in [DOMAIN index' -> DOMAIN entries']
      <4>1. \A i \in DOMAIN index' : index'[i] \in DOMAIN entries'
        BY <1>1, <2>9, <2>11 DEF ResourcesType
      <4>2. index' = [i \in DOMAIN index' |-> index'[i]]
        BY <2>1
      <4>. QED
        BY <4>1, <4>2
    <3>. QED
      BY <1>1, <1>2, <2>1, <2>9, <2>10, <3>1, <3>2 DEF ResourcesType
  <2>13. HandlesAreCurrent'
    <3>1. ASSUME NEW h \in handles'
          PROVE  Current(h)' /\ (ValidateUntyped(h)' => entries'[h.slot].identity = h.identity)
      <4>1. CASE h \in handles
        BY <4>1, <1>1, <2>9 DEF HandlesAreCurrent, ValidateUntyped
      <4>2. CASE h = handle
        <5>1. entries'[h.slot] = new /\ h.slot \in DOMAIN entries'
              /\ h.generation = new.generation /\ h.identity = identity
          BY <4>2, <2>9, <2>10
        <5>2. Current(h)'
          BY <5>1, <2>5, <2>7 DEF Current
        <5>. QED
          BY <5>1, <5>2, <2>5
      <4>. QED
        BY <4>1, <4>2, <2>1
    <3>2. ASSUME NEW s \in DOMAIN entries', entries'[s].occupied
          PROVE  \E h \in handles' : h.slot = s /\ h.generation = entries'[s].generation
      <4>1. CASE s = slot
        BY <4>1, <2>1, <2>9, <2>10
      <4>2. CASE s # slot
        BY <4>2, <3>2, <1>1, <2>1, <2>9 DEF HandlesAreCurrent
      <4>. QED
        BY <4>1, <4>2
    <3>. QED
      BY <3>1, <3>2 DEF HandlesAreCurrent
  <2>14. IndexIsExact'
    <3>1. ASSUME NEW i \in DOMAIN index'
          PROVE  entries'[index'[i]].occupied /\ entries'[index'[i]].identity = i
      <4>1. CASE i = identity
        BY <4>1, <2>5, <2>9, <2>11
      <4>2. CASE i \in DOMAIN index
        BY <4>2, <1>1, <2>9, <2>11 DEF IndexIsExact, ResourcesType
      <4>. QED
        BY <4>1, <4>2, <2>11
    <3>2. ASSUME NEW s \in DOMAIN entries', entries'[s].occupied
          PROVE  entries'[s].identity \in DOMAIN index' /\ index'[entries'[s].identity] = s
      <4>1. CASE s = slot
        BY <4>1, <2>5, <2>9, <2>11
      <4>2. CASE s # slot
        BY <4>2, <3>2, <1>1, <2>9, <2>11 DEF IndexIsExact
      <4>. QED
        BY <4>1, <4>2
    <3>. QED
      BY <3>1, <3>2 DEF IndexIsExact
  <2>15. SlotsAreBounded'
    <3>1. \A s \in DOMAIN entries' : entries'[s].occupied => entries'[s].generation <= MaxGeneration
      BY <1>1, <2>1, <2>9 DEF SlotsAreBounded
    <3>2. CASE slot \in DOMAIN entries
      BY <3>1, <3>2, <1>1, <2>9 DEF SlotsAreBounded
    <3>3. CASE slot \notin DOMAIN entries
      <4>1. \A s \in DOMAIN entries : entries[s].occupied
        BY <3>3, <1>1, <2>2, Shapes
      <4>2. Len(entries) + 1 <= Cardinality(Identities)
        BY <4>1, <1>1, <1>4, RoomForIdentity
      <4>. QED
        BY <3>1, <3>3, <4>2, <2>9 DEF SlotsAreBounded
    <3>. QED
      BY <3>2, <3>3
  <2>16. ResourcesInv'
    BY <2>8, <2>12, <2>13, <2>14, <2>15, ReassignKeepsLoads DEF ResourcesInv
  <2>. QED
    BY <2>1, <2>2, <2>5, <2>8, <2>16 DEF handle
<1>. QED
  BY <1>3, <1>4

-----------------------------------------------------------------------------
(* The safety of the manager. *)

LEMMA ResourcesInitially == ResourceInit => ResourcesInv
<1>. SUFFICES ASSUME ResourceInit
              PROVE  ResourcesInv
  OBVIOUS
<1>1. /\ entries = <<>> /\ index = <<>> /\ handles = {} /\ operations = <<>> /\ published = {}
      /\ DOMAIN entries = {} /\ DOMAIN index = {} /\ DOMAIN operations = {}
      /\ Len(entries) = 0 /\ Len(operations) = 0
  BY DEF ResourceInit
<1>2. ResourcesType
  BY <1>1, ResourcesAssumption DEF ResourcesType
<1>3. IsFiniteSet(published)
  BY <1>1, FS_EmptySet
<1>4. Cardinality(Identities) \in Nat
  BY ResourcesAssumption, FS_CardinalityType
<1>. QED
  BY <1>1, <1>2, <1>3, <1>4 DEF ResourcesInv, HandlesAreCurrent, IndexIsExact,
     LoadsAreNumbered, LoadingHasLoad, NothingCancelled, CancellationIsSeen,
     VersionsAreCounted, VersionsNamePayloads, SlotsAreBounded

LEMMA ResourcesStep == ResourcesInv /\ [ResourceNext]_resourceVars => ResourcesInv'
<1>. SUFFICES ASSUME ResourcesInv, [ResourceNext]_resourceVars
              PROVE  ResourcesInv'
  OBVIOUS
<1>1. ASSUME NEW identity \in Identities, Request(identity)
      PROVE  ResourcesInv'
  BY <1>1, RequestKeeps
<1>2. ASSUME NEW handle \in handles,
             \/ BeginLoading(handle) \/ RequestUnload(handle)
             \/ CompleteUnload(handle) \/ Forget(handle)
      PROVE  ResourcesInv'
  BY <1>2, BeginLoadingKeeps, RequestUnloadKeeps, CompleteUnloadKeeps, ForgetKeeps
<1>3. ASSUME NEW k \in DOMAIN operations, PublishReady(k) \/ Fail(k)
      PROVE  ResourcesInv'
  BY <1>3, PublishReadyKeeps, FailKeeps
<1>4. CASE UNCHANGED resourceVars
  BY <1>4, ResourcesStutter
<1>. QED
  BY <1>1, <1>2, <1>3, <1>4 DEF ResourceNext

(* The invariant implies what the runs check. *)
LEMMA ResourcesInvImplies == ResourcesInv => ResourcesAreSafe
<1>. SUFFICES ASSUME ResourcesInv
              PROVE  ResourcesAreSafe
  OBVIOUS
<1>1. HandlesKeepTheirIdentity
  BY DEF ResourcesInv, IndexIsExact, HandlesAreCurrent, HandlesKeepTheirIdentity
<1>2. LoadsEndOnce
  <2>1. \A k \in DOMAIN operations : operations[k].outcomes \in Endings
    BY Shapes DEF ResourcesInv, Operation
  <2>2. \A ending \in Endings : Len(ending) <= 1
    BY DEF Endings
  <2>. QED
    BY <2>1, <2>2 DEF LoadsEndOnce
<1>. QED
  BY <1>1, <1>2 DEF ResourcesInv, ResourcesAreSafe

(* Handles keep the identity they were asked for, a load ends once, a handle
   and a version name one payload for ever, and the newest load of a resource
   sees whether it was superseded: in every state, whatever the number of
   identities, loads and reuses of a slot. *)
THEOREM ResourcesSafe == ResourceSpec => []ResourcesAreSafe
<1>. QED
  BY ResourcesInitially, ResourcesStep, ResourcesInvImplies, PTL DEF ResourceSpec

-----------------------------------------------------------------------------
(* The refinement of the store of leases. *)

(* What a step does to every handle but those of a set. *)
SameFor(h) ==
  /\ StatusOf(h)' = StatusOf(h)
  /\ PublishedOf(published', h) = PublishedOf(published, h)
  /\ OfferedOf(h)' = OfferedOf(h)

LEMMA StoreStutters ==
  ASSUME \A h \in AllHandles : SameFor(h)
  PROVE  UNCHANGED Store!storeVars
BY DEF SameFor, Store!storeVars

LEMMA StoreIssues ==
  ASSUME NEW g \in AllHandles, StatusOf(g) = "NEW", StatusOf(g)' = "LIVE",
         PublishedOf(published', g) = PublishedOf(published, g), OfferedOf(g)' = OfferedOf(g),
         \A h \in AllHandles \ {g} : SameFor(h)
  PROVE  Store!StoreNext
<1>1. Store!Issue(g)
  BY DEF Store!Issue, SameFor
<1>. QED
  BY <1>1 DEF Store!StoreNext

LEMMA StoreRetires ==
  ASSUME NEW g \in AllHandles, StatusOf(g) = "LIVE", StatusOf(g)' = "STALE",
         PublishedOf(published', g) = PublishedOf(published, g),
         OfferedOf(g) = 0, OfferedOf(g)' = 0,
         \A h \in AllHandles \ {g} : SameFor(h)
  PROVE  Store!StoreNext
<1>1. Store!Retire(g)
  BY DEF Store!Retire, SameFor
<1>. QED
  BY <1>1 DEF Store!StoreNext

LEMMA StoreWithdraws ==
  ASSUME NEW g \in AllHandles, StatusOf(g)' = StatusOf(g),
         PublishedOf(published', g) = PublishedOf(published, g),
         OfferedOf(g) # 0, OfferedOf(g)' = 0,
         \A h \in AllHandles \ {g} : SameFor(h)
  PROVE  Store!StoreNext
<1>1. Store!Withdraw(g)
  BY DEF Store!Withdraw, SameFor
<1>. QED
  BY <1>1 DEF Store!StoreNext

LEMMA StoreOffers ==
  ASSUME NEW g \in AllHandles, StatusOf(g) = "LIVE", StatusOf(g)' = "LIVE",
         OfferedOf(g) = 0, OfferedOf(g)' = Cardinality(PublishedOf(published, g)) + 1,
         Cardinality(PublishedOf(published, g)) < MaxOperations,
         Cardinality(PublishedOf(published', g)) = Cardinality(PublishedOf(published, g)) + 1,
         \A h \in AllHandles \ {g} : SameFor(h)
  PROVE  Store!StoreNext
<1>1. Store!Offer(g)
  BY DEF Store!Offer, SameFor
<1>. QED
  BY <1>1 DEF Store!StoreNext

(* A handle of a live slot is the one with the generation of the slot. *)
LEMMA LiveHandle ==
  ASSUME ResourcesInv, NEW s \in DOMAIN entries, entries[s].occupied
  PROVE  /\ HandleOf(s, entries[s].generation) \in AllHandles
         /\ \A h \in AllHandles : h.slot = s /\ ValidateUntyped(h)
               <=> h = HandleOf(s, entries[s].generation)
         /\ StatusOf(HandleOf(s, entries[s].generation)) = "LIVE"
         /\ Cardinality(PublishedOf(published, HandleOf(s, entries[s].generation)))
               = entries[s].version
<1>. DEFINE g == HandleOf(s, entries[s].generation)
<1>1. /\ ResourcesType /\ HandlesAreCurrent /\ SlotsAreBounded /\ VersionsAreCounted
      /\ DOMAIN entries = 1 .. Len(entries) /\ Len(entries) \in Nat
  BY Shapes DEF ResourcesInv
<1>2. PICK i \in handles : i.slot = s /\ i.generation = entries[s].generation
  BY <1>1 DEF HandlesAreCurrent
<1>3. entries[s].generation \in 1 .. MaxGeneration
  <2>1. entries[s].generation \in Nat \ {0}
    BY <1>1, <1>2 DEF ResourcesType
  <2>2. entries[s].generation <= MaxGeneration
    BY <1>1 DEF SlotsAreBounded
  <2>. QED
    BY <2>1, <2>2, ResourcesAssumption
<1>4. s \in 1 .. Cardinality(Identities)
  <2>1. Cardinality(Identities) \in Nat
    BY ResourcesAssumption, FS_CardinalityType
  <2>2. Len(entries) <= Cardinality(Identities)
    BY <1>1 DEF SlotsAreBounded
  <2>. QED
    BY <1>1, <2>1, <2>2
<1>5. g \in AllHandles /\ g.slot = s /\ g.generation = entries[s].generation
  BY <1>3, <1>4 DEF AllHandles, HandleOf
<1>6. ASSUME NEW h \in AllHandles
      PROVE  h.slot = s /\ ValidateUntyped(h) <=> h = g
  BY <1>5 DEF ValidateUntyped, AllHandles, HandleOf
<1>7. StatusOf(g) = "LIVE"
  BY <1>5, <1>6 DEF StatusOf
<1>8. Cardinality(PublishedOf(published, g)) = entries[s].version
  BY <1>1 DEF VersionsAreCounted
<1>. QED
  BY <1>5, <1>6, <1>7, <1>8

(* A handle that an entry does not speak of is not concerned by its changes. *)
LEMMA RewriteSame ==
  ASSUME ResourcesInv, NEW slot, NEW new, Rewrites(slot, new), NEW h,
         PublishedOf(published', h) = PublishedOf(published, h),
         ValidateUntyped(h) /\ h.slot = slot =>
            /\ entries[slot].state = "READY" <=> new.state = "READY"
            /\ new.version = entries[slot].version
  PROVE  SameFor(h)
<1>1. /\ \A s \in DOMAIN entries : s # slot => entries'[s] = entries[s]
      /\ entries'[slot] = new
      /\ ValidateUntyped(h)' = ValidateUntyped(h)
      /\ handles' = handles
  BY RewriteKeepsSlots DEF ResourcesInv, Rewrites
<1>2. StatusOf(h)' = StatusOf(h)
  BY <1>1 DEF StatusOf, IsIssued
<1>3. OfferedOf(h)' = OfferedOf(h)
  <2>1. CASE ~ValidateUntyped(h)
    BY <2>1, <1>1 DEF OfferedOf
  <2>2. CASE ValidateUntyped(h) /\ h.slot # slot
    <3>1. entries'[h.slot] = entries[h.slot]
      BY <2>2, <1>1 DEF ValidateUntyped
    <3>. QED
      BY <2>2, <3>1, <1>1 DEF OfferedOf
  <2>3. CASE ValidateUntyped(h) /\ h.slot = slot
    BY <2>3, <1>1 DEF OfferedOf
  <2>. QED
    BY <2>1, <2>2, <2>3
<1>. QED
  BY <1>2, <1>3 DEF SameFor

LEMMA BeginLoadingRefines ==
  ASSUME ResourcesInv, NEW handle \in handles, BeginLoading(handle)
  PROVE  UNCHANGED Store!storeVars
<1>1. PICK e : /\ Rewrites(handle.slot, e)
               /\ e.state = "LOADING" /\ e.version = entries[handle.slot].version
  BY BeginLoadingKeeps
<1>2. entries[handle.slot].state # "READY" /\ published' = published
  BY DEF BeginLoading
<1>3. \A h \in AllHandles : SameFor(h)
  BY <1>1, <1>2, RewriteSame
<1>. QED
  BY <1>3, StoreStutters

LEMMA CompleteUnloadRefines ==
  ASSUME ResourcesInv, NEW handle \in handles, CompleteUnload(handle)
  PROVE  UNCHANGED Store!storeVars
<1>1. PICK e : /\ Rewrites(handle.slot, e)
               /\ e.state = "UNLOADED" /\ e.version = entries[handle.slot].version
  BY CompleteUnloadKeeps
<1>2. entries[handle.slot].state # "READY" /\ published' = published
  BY DEF CompleteUnload
<1>3. \A h \in AllHandles : SameFor(h)
  BY <1>1, <1>2, RewriteSame
<1>. QED
  BY <1>3, StoreStutters

LEMMA FailRefines ==
  ASSUME ResourcesInv, NEW k \in DOMAIN operations, Fail(k)
  PROVE  UNCHANGED Store!storeVars
<1>1. PICK e : /\ Rewrites(operations[k].handle.slot, e)
               /\ e.state = "FAILED" /\ e.version = entries[operations[k].handle.slot].version
  BY FailKeeps
<1>2. entries[operations[k].handle.slot].state # "READY" /\ published' = published
  BY DEF Fail, Matches
<1>3. \A h \in AllHandles : SameFor(h)
  BY <1>1, <1>2, RewriteSame
<1>. QED
  BY <1>3, StoreStutters

LEMMA RequestUnloadRefines ==
  ASSUME ResourcesInv, NEW handle \in handles, RequestUnload(handle)
  PROVE  Store!StoreNext \/ UNCHANGED Store!storeVars
<1>. DEFINE slot == handle.slot
<1>1. PICK e : Rewrites(slot, e) /\ e.state = "UNLOADING" /\ e.version = entries[slot].version
  BY RequestUnloadKeeps
<1>2. published' = published /\ slot \in DOMAIN entries /\ entries[slot].occupied
  BY DEF RequestUnload, ValidateUntyped
<1>3. CASE entries[slot].state # "READY"
  <2>1. \A h \in AllHandles : SameFor(h)
    BY <1>1, <1>2, <1>3, RewriteSame
  <2>. QED
    BY <2>1, StoreStutters
<1>4. CASE entries[slot].state = "READY"
  <2>1. PICK g \in AllHandles :
           /\ g.slot = slot /\ ValidateUntyped(g)
           /\ \A h \in AllHandles : h.slot = slot /\ ValidateUntyped(h) <=> h = g
    BY <1>2, LiveHandle
  <2>2. \A h \in AllHandles \ {g} : SameFor(h)
    BY <1>1, <1>2, <2>1, RewriteSame
  <2>3. OfferedOf(g) # 0
    BY <1>2, <1>4, <2>1 DEF OfferedOf, ResourcesInv, VersionsAreCounted
  <2>4. OfferedOf(g)' = 0 /\ StatusOf(g)' = StatusOf(g)
    <3>1. \A h : ValidateUntyped(h)' = ValidateUntyped(h)
      BY <1>1, RewriteKeepsSlots DEF ResourcesInv
    <3>2. entries'[slot].state = "UNLOADING" /\ handles' = handles
      BY <1>1, RewriteKeepsSlots DEF ResourcesInv, Rewrites
    <3>. QED
      BY <3>1, <3>2, <2>1 DEF OfferedOf, StatusOf, IsIssued
  <2>. QED
    BY <1>2, <2>1, <2>2, <2>3, <2>4, StoreWithdraws
<1>. QED
  BY <1>3, <1>4

LEMMA PublishReadyRefines ==
  ASSUME ResourcesInv, NEW k \in DOMAIN operations, PublishReady(k), ResourcesInv'
  PROVE  Store!StoreNext
<1>. DEFINE slot == operations[k].handle.slot
<1>1. PICK e : /\ Rewrites(slot, e)
               /\ e.state = "READY" /\ e.version = entries[slot].version + 1
  BY PublishReadyKeeps
<1>2. /\ Matches(operations[k]) /\ slot \in DOMAIN entries /\ entries[slot].occupied
      /\ entries[slot].state = "LOADING"
      /\ published' = published \cup {[resource |-> operations[k].handle,
                                       version |-> entries[slot].version + 1, payload |-> k]}
  BY DEF PublishReady, Matches, ValidateUntyped
<1>3. PICK g \in AllHandles :
         /\ g = HandleOf(slot, entries[slot].generation) /\ g.slot = slot
         /\ ValidateUntyped(g) /\ StatusOf(g) = "LIVE"
         /\ \A h \in AllHandles : h.slot = slot /\ ValidateUntyped(h) <=> h = g
         /\ Cardinality(PublishedOf(published, g)) = entries[slot].version
  BY <1>2, LiveHandle
<1>4. operations[k].handle = g /\ entries[slot].version + 1 <= k
      /\ entries[slot].version \in Nat
  BY <1>2, <1>3, NextVersion
<1>5. /\ \A h : ValidateUntyped(h)' = ValidateUntyped(h)
      /\ entries'[slot] = e /\ DOMAIN entries' = DOMAIN entries
      /\ e.occupied /\ e.generation = entries[slot].generation
  BY <1>1, <1>2, RewriteKeepsSlots DEF ResourcesInv, Rewrites
<1>6. StatusOf(g)' = "LIVE" /\ OfferedOf(g) = 0
  BY <1>2, <1>3, <1>5 DEF StatusOf, OfferedOf
<1>7. OfferedOf(g)' = entries[slot].version + 1
  BY <1>1, <1>3, <1>5 DEF OfferedOf
<1>8. Cardinality(PublishedOf(published', g)) = entries[slot].version + 1
  <2>1. g = HandleOf(slot, entries'[slot].generation)
    BY <1>3, <1>5
  <2>2. Cardinality(PublishedOf(published', HandleOf(slot, entries'[slot].generation)))
           = entries'[slot].version
    BY <1>2, <1>5 DEF ResourcesInv, VersionsAreCounted
  <2>. QED
    BY <2>1, <2>2, <1>1, <1>5
<1>9. entries[slot].version < MaxOperations
  <2>1. k <= MaxOperations /\ k \in Nat
    BY Shapes, ResourcesAssumption DEF ResourcesInv, ResourcesType
  <2>. QED
    BY <2>1, <1>4, ResourcesAssumption
<1>10. ASSUME NEW h \in AllHandles \ {g}
       PROVE  SameFor(h)
  <2>1. PublishedOf(published', h) = PublishedOf(published, h)
    BY <1>2, <1>4 DEF PublishedOf
  <2>. QED
    BY <2>1, <1>1, <1>3, RewriteSame
<1>. QED
  BY <1>3, <1>6, <1>7, <1>8, <1>9, <1>10, StoreOffers

LEMMA ReassignSame ==
  ASSUME ResourcesInv, NEW slot, NEW new, Reassigns(slot, new), NEW h,
         h.slot = slot => ~ValidateUntyped(h) /\ ~ValidateUntyped(h)',
         IsIssued(h)' = IsIssued(h)
  PROVE  SameFor(h)
<1>1. /\ DOMAIN entries' = DOMAIN entries \cup {slot} /\ published' = published
      /\ \A s \in DOMAIN entries : s # slot => entries'[s] = entries[s]
  BY ReassignedSlots DEF ResourcesInv, Reassigns
<1>2. ValidateUntyped(h)' <=> ValidateUntyped(h)
  <2>1. CASE h.slot = slot
    BY <2>1
  <2>2. CASE h.slot # slot
    BY <2>2, <1>1 DEF ValidateUntyped
  <2>. QED
    BY <2>1, <2>2
<1>3. StatusOf(h)' = StatusOf(h)
  BY <1>2 DEF StatusOf
<1>4. OfferedOf(h)' = OfferedOf(h)
  <2>1. CASE ValidateUntyped(h)
    <3>1. entries'[h.slot] = entries[h.slot]
      BY <2>1, <1>1 DEF ValidateUntyped
    <3>. QED
      BY <2>1, <3>1, <1>2 DEF OfferedOf
  <2>2. CASE ~ValidateUntyped(h)
    BY <2>2, <1>2 DEF OfferedOf
  <2>. QED
    BY <2>1, <2>2
<1>. QED
  BY <1>1, <1>3, <1>4 DEF SameFor

LEMMA ForgetRefines ==
  ASSUME ResourcesInv, NEW handle \in handles, Forget(handle)
  PROVE  Store!StoreNext
<1>. DEFINE slot == handle.slot
<1>1. PICK e : Reassigns(slot, e) /\ ~e.occupied
  BY ForgetKeeps
<1>2. /\ handles' = handles /\ slot \in DOMAIN entries /\ entries[slot].occupied
      /\ entries[slot].state = "UNLOADED" /\ entries[slot].generation = handle.generation
  BY DEF Forget, ValidateUntyped
<1>3. PICK g \in AllHandles :
         /\ g = HandleOf(slot, entries[slot].generation) /\ g.slot = slot
         /\ ValidateUntyped(g) /\ StatusOf(g) = "LIVE"
         /\ \A h \in AllHandles : h.slot = slot /\ ValidateUntyped(h) <=> h = g
  BY <1>2, LiveHandle
<1>4. \A h : h.slot = slot => ~ValidateUntyped(h)'
  <2>1. entries'[slot] = e
    BY <1>1, ReassignedSlots DEF ResourcesInv
  <2>. QED
    BY <2>1, <1>1 DEF ValidateUntyped
<1>5. g.generation = handle.generation
  BY <1>2, <1>3 DEF HandleOf
<1>6. IsIssued(g)'
  BY <1>2, <1>3, <1>5 DEF IsIssued
<1>7. StatusOf(g)' = "STALE" /\ OfferedOf(g) = 0 /\ OfferedOf(g)' = 0
  BY <1>2, <1>3, <1>4, <1>6 DEF StatusOf, OfferedOf
<1>8. ASSUME NEW h \in AllHandles \ {g}
      PROVE  SameFor(h)
  <2>1. IsIssued(h)' = IsIssued(h)
    BY <1>2 DEF IsIssued
  <2>2. h.slot = slot => ~ValidateUntyped(h) /\ ~ValidateUntyped(h)'
    BY <1>3, <1>4
  <2>. QED
    BY <2>1, <2>2, <1>1, ReassignSame
<1>9. PublishedOf(published', g) = PublishedOf(published, g)
  BY <1>1 DEF Reassigns
<1>. QED
  BY <1>3, <1>7, <1>8, <1>9, StoreRetires

LEMMA RequestRefines ==
  ASSUME ResourcesInv, NEW identity \in Identities, Request(identity), ResourcesInv'
  PROVE  Store!StoreNext \/ UNCHANGED Store!storeVars
<1>1. CASE UNCHANGED resourceVars
  <2>1. /\ \A h : ValidateUntyped(h)' = ValidateUntyped(h)
        /\ \A h : IsIssued(h)' = IsIssued(h)
        /\ entries' = entries /\ published' = published
    BY <1>1 DEF resourceVars, ValidateUntyped, IsIssued
  <2>2. \A h \in AllHandles : SameFor(h)
    BY <2>1 DEF SameFor, StatusOf, OfferedOf
  <2>. QED
    BY <2>2, StoreStutters
<1>2. ASSUME NEW slot, NEW e, Reassigns(slot, e), e.occupied,
             slot \in DOMAIN entries => ~entries[slot].occupied,
             handles' = handles \cup {[slot |-> slot, generation |-> e.generation,
                                       identity |-> identity]}
      PROVE  Store!StoreNext
  <2>1. /\ DOMAIN entries' = DOMAIN entries \cup {slot} /\ entries'[slot] = e
        /\ \A h \in HandleShape \cup handles :
              Current(h) /\ h.slot = slot => h.generation < e.generation
    BY <1>2, ReassignedSlots DEF ResourcesInv
  <2>2. PICK g : g = HandleOf(slot, e.generation)
    OBVIOUS
  <2>3. g.slot = slot /\ g.generation = e.generation
    BY <2>2 DEF HandleOf
  <2>4. g \in AllHandles
    <3>1. e.generation \in 1 .. MaxGeneration
      <4>1. e.generation \in Nat \ {0}
        BY <1>2 DEF Reassigns, Entry
      <4>2. e.generation <= MaxGeneration
        BY <1>2, <2>1 DEF ResourcesInv, SlotsAreBounded
      <4>. QED
        BY <4>1, <4>2, ResourcesAssumption
    <3>2. slot \in 1 .. Cardinality(Identities)
      <4>1. Cardinality(Identities) \in Nat
        BY ResourcesAssumption, FS_CardinalityType
      <4>2. entries' \in Seq(Entry) /\ Len(entries') <= Cardinality(Identities)
        BY DEF ResourcesInv, ResourcesType, SlotsAreBounded
      <4>3. Len(entries') \in Nat /\ slot \in 1 .. Len(entries')
        BY <2>1, <4>2, LenProperties
      <4>. QED
        BY <4>1, <4>2, <4>3
    <3>. QED
      BY <3>1, <3>2, <2>2 DEF AllHandles, HandleOf
  <2>5. ValidateUntyped(g)'
    BY <1>2, <2>1, <2>3 DEF ValidateUntyped
  <2>6. \A h : h.slot = slot => ~ValidateUntyped(h)
    BY <1>2 DEF ValidateUntyped
  <2>7. ~IsIssued(g)
    <3>. SUFFICES ASSUME NEW i \in handles, i.slot = slot, i.generation = e.generation
                  PROVE  FALSE
      BY <2>3 DEF IsIssued
    <3>1. Current(i) /\ i.generation \in Nat
      BY DEF ResourcesInv, HandlesAreCurrent, ResourcesType
    <3>2. i.generation < e.generation
      BY <3>1, <2>1
    <3>. QED
      BY <3>1, <3>2
  <2>8. StatusOf(g) = "NEW" /\ StatusOf(g)' = "LIVE"
    BY <2>3, <2>5, <2>6, <2>7 DEF StatusOf
  <2>9. OfferedOf(g) = 0 /\ OfferedOf(g)' = 0
    <3>1. e.state # "READY"
      BY <1>2 DEF Reassigns
    <3>. QED
      BY <3>1, <2>1, <2>3, <2>6 DEF OfferedOf
  <2>10. PublishedOf(published', g) = PublishedOf(published, g)
    BY <1>2 DEF Reassigns
  <2>11. ASSUME NEW h \in AllHandles \ {g}
         PROVE  SameFor(h)
    <3>1. h.slot = slot => h.generation # e.generation
      BY <2>2 DEF AllHandles, HandleOf
    <3>2. h.slot = slot => ~ValidateUntyped(h)'
      BY <3>1, <2>1 DEF ValidateUntyped
    <3>3. IsIssued(h)' = IsIssued(h)
      <4>. DEFINE new == [slot |-> slot, generation |-> e.generation, identity |-> identity]
      <4>1. new.slot = slot /\ new.generation = e.generation
        OBVIOUS
      <4>2. handles' = handles \cup {new}
        BY <1>2
      <4>. HIDE DEF new
      <4>. QED
        BY <3>1, <4>1, <4>2 DEF IsIssued
    <3>. QED
      BY <3>2, <3>3, <2>6, <1>2, ReassignSame
  <2>. QED
    BY <2>4, <2>8, <2>9, <2>10, <2>11, StoreIssues
<1>. QED
  BY <1>1, <1>2, RequestKeeps

LEMMA StoreStep ==
  ResourcesInv /\ ResourcesInv' /\ [ResourceNext]_resourceVars
     => [Store!StoreNext]_(Store!storeVars)
<1>. SUFFICES ASSUME ResourcesInv, ResourcesInv', [ResourceNext]_resourceVars
              PROVE  [Store!StoreNext]_(Store!storeVars)
  OBVIOUS
<1>1. ASSUME NEW identity \in Identities, Request(identity)
      PROVE  [Store!StoreNext]_(Store!storeVars)
  BY <1>1, RequestRefines
<1>2. ASSUME NEW handle \in handles,
             \/ BeginLoading(handle) \/ RequestUnload(handle)
             \/ CompleteUnload(handle) \/ Forget(handle)
      PROVE  [Store!StoreNext]_(Store!storeVars)
  BY <1>2, BeginLoadingRefines, RequestUnloadRefines, CompleteUnloadRefines, ForgetRefines
<1>3. ASSUME NEW k \in DOMAIN operations, PublishReady(k) \/ Fail(k)
      PROVE  [Store!StoreNext]_(Store!storeVars)
  BY <1>3, PublishReadyRefines, FailRefines
<1>4. CASE UNCHANGED resourceVars
  <2>1. /\ \A h : ValidateUntyped(h)' = ValidateUntyped(h)
        /\ \A h : IsIssued(h)' = IsIssued(h)
        /\ entries' = entries /\ published' = published
    BY <1>4 DEF resourceVars, ValidateUntyped, IsIssued
  <2>2. \A h \in AllHandles : SameFor(h)
    BY <2>1 DEF SameFor, StatusOf, OfferedOf
  <2>. QED
    BY <2>2, StoreStutters
<1>. QED
  BY <1>1, <1>2, <1>3, <1>4 DEF ResourceNext

LEMMA StoreInitially == ResourceInit => Store!StoreInit
<1>. SUFFICES ASSUME ResourceInit
              PROVE  Store!StoreInit
  OBVIOUS
<1>1. \A h : ~ValidateUntyped(h) /\ ~IsIssued(h)
  BY DEF ResourceInit, ValidateUntyped, IsIssued
<1>2. \A h : StatusOf(h) = "NEW" /\ OfferedOf(h) = 0
  BY <1>1 DEF StatusOf, OfferedOf
<1>3. \A h : Cardinality(PublishedOf(published, h)) = 0
  <2>1. \A h : PublishedOf(published, h) = {}
    BY DEF ResourceInit, PublishedOf
  <2>. QED
    BY <2>1, FS_EmptySet
<1>. QED
  BY <1>2, <1>3 DEF Store!StoreInit

(* The manager implements the store of leases: every handle is issued and
   retired once, offers only its newest version or none, and its versions
   never come back, although slots and their entries are used again. *)
THEOREM LeasesServed == ResourceSpec => ServesLeases
<1>. QED
  BY ResourcesInitially, ResourcesStep, StoreInitially, StoreStep, PTL
     DEF ResourceSpec, ServesLeases, Store!StoreSpec

=============================================================================
