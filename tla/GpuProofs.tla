----------------------------- MODULE GpuProofs -----------------------------
(***************************************************************************)
(* Proofs about what the CPU hands to the GPU - objects, memory, descriptor *)
(* sets, resource states, images of the swapchain, render graphs, draws -   *)
(* for every size of their tables, rings and pools.                         *)
(***************************************************************************)
EXTENDS MCGpu, FiniteSetTheorems, SequenceTheorems, WellFoundedInduction, TLAPS

(***************************************************************************)
(* Objects and handles.                                                     *)
(***************************************************************************)

ObjectHandles == [owner : Owners, kind : AllKinds, value : Values, generation : Nat]

ObjectsTyped ==
  /\ records = [o \in Owners |-> [k \in AllKinds |-> records[o][k]]]
  /\ next \in [Owners -> [AllKinds -> Nat]]
  /\ timelines \in [Owners -> [submitted : 0 .. MaxSubmits, done : Nat]]
  /\ objects \subseteq [owner : Owners, kind : AllKinds, value : Values, of : Nat,
                         image : handles \cup {NoHandle}, until : Int]
  /\ handles \subseteq ObjectHandles /\ givenBack \subseteq ObjectHandles

(* Generations are counted up, and no pipeline is ever given back. *)
GenerationsPass ==
  /\ \A o \in Owners, k \in AllKinds, v \in Values : HasRecord(o, k, v) =>
        records[o][k][v].generation \in Nat /\ records[o][k][v].generation < next[o][k]
  /\ \A h \in givenBack : h.kind # "pipeline" /\ h.generation < next[h.owner][h.kind]

(* A record stands for the object of its value that is in use, until that was
   given back. *)
RecordsMatch ==
  \A o \in Owners, k \in AllKinds, v \in Values :
    /\ Live(o, k, v) # {} <=> HasRecord(o, k, v) /\ HandleOf(o, k, v) \notin givenBack
    /\ \A x \in Live(o, k, v) :
         /\ x.of = records[o][k][v].generation
         /\ k = "view" => x.image = records[o][k][v].descriptor.image

(* The handle a view was made from still resolves. *)
ViewsResolve ==
  \A x \in objects : x.kind = "view" /\ x.until = InUse =>
    /\ Resolves(x.owner, x.image)
    /\ x.image.kind = "image" /\ x.image.value \in Values

ObjectsInv ==
  ObjectsTyped /\ GenerationsPass /\ RecordsMatch /\ ViewsResolve /\ WaitsAreKept

LEMMA ObjectsStart == ObjectInit => ObjectsInv
<1> SUFFICES ASSUME ObjectInit PROVE ObjectsInv
  OBVIOUS
<1>1. ObjectsTyped
  BY GraphicsObjectsAssumption DEF ObjectInit, ObjectsTyped
<1>2. RecordsMatch
  BY DEF ObjectInit, RecordsMatch, HasRecord, Live, Named
<1>3. GenerationsPass
  BY DEF ObjectInit, GenerationsPass, HasRecord
<1>. QED
  BY <1>1, <1>2, <1>3 DEF ObjectInit, ObjectsInv, ViewsResolve, WaitsAreKept

(* What Create leaves in the tables. *)
Made(o, sort, value, d) ==
  /\ Named(o, sort, value) = {}
  /\ objects' = objects \cup {[owner |-> o, kind |-> sort, value |-> value, of |-> next[o][sort],
                               image |-> IF sort = "view" THEN d.image ELSE NoHandle,
                               until |-> InUse]}
  /\ HasRecord(o, sort, value)'
  /\ records'[o][sort][value] = [descriptor |-> d, generation |-> next[o][sort]]
  /\ \A p \in Owners, k \in AllKinds, v \in Values : <<p, k, v>> # <<o, sort, value>> =>
       /\ HasRecord(p, k, v)' <=> HasRecord(p, k, v)
       /\ HasRecord(p, k, v) => records'[p][k][v] = records[p][k][v]

LEMMA CreateKeepsObjects ==
  ASSUME ObjectsInv, NEW o \in Owners, NEW sort \in AllKinds, NEW d \in Asked(sort),
         Create(o, sort, d)
  PROVE  ObjectsInv'
<1>1. PICK value \in Values :
        /\ Named(o, sort, value) = {} /\ ~ HasRecord(o, sort, value)
        /\ BackendMakes(o, sort, value, d)
        /\ records' = [records EXCEPT ![o][sort] =
                 [v \in DOMAIN records[o][sort] \cup {value} |->
                    IF v = value THEN [descriptor |-> d, generation |-> next[o][sort]]
                    ELSE records[o][sort][v]]]
        /\ handles' = handles \cup {[owner |-> o, kind |-> sort, value |-> value,
                                     generation |-> next[o][sort]]}
  BY DEF Create
<1>2. /\ next' = [next EXCEPT ![o][sort] = next[o][sort] + 1]
      /\ timelines' = timelines /\ givenBack' = givenBack
  BY DEF Create
<1>3. ObjectsTyped
  BY DEF ObjectsInv
<1>4. Made(o, sort, value, d)
  BY <1>1, <1>3 DEF Made, BackendMakes, HasRecord, ObjectsTyped
<1>5. ObjectsTyped'
  <2>1. records' = [p \in Owners |-> [k \in AllKinds |-> records'[p][k]]]
    BY <1>1, <1>3 DEF ObjectsTyped
  <2>2. next' \in [Owners -> [AllKinds -> Nat]]
    BY <1>2, <1>3 DEF ObjectsTyped
  <2>3. sort = "view" => d.image \in handles
    BY GraphicsObjectsAssumption DEF Asked
  <2>5. next[o][sort] \in Nat /\ InUse \in Int
    BY <1>3 DEF ObjectsTyped, InUse
  <2>6. \A x \in objects' :
          x \in [owner : Owners, kind : AllKinds, value : Values, of : Nat,
                 image : handles' \cup {NoHandle}, until : Int]
    BY <1>1, <1>3, <1>4, <2>3, <2>5 DEF Made, ObjectsTyped
  <2>4. handles' \subseteq ObjectHandles /\ givenBack' \subseteq ObjectHandles
    BY <1>1, <1>2, <1>3, <2>5 DEF ObjectsTyped, ObjectHandles
  <2>. QED
    BY <1>2, <1>3, <2>1, <2>2, <2>4, <2>6 DEF ObjectsTyped
<1>6. ~ HasRecord(o, sort, value)
  BY <1>1
<1>10. /\ next[o][sort] \in Nat /\ next'[o][sort] = next[o][sort] + 1
       /\ \A p \in Owners, k \in AllKinds :
            next[p][k] \in Nat /\ next'[p][k] \in Nat /\ next[p][k] <= next'[p][k]
  BY <1>2, <1>3 DEF ObjectsTyped
<1>11. GenerationsPass'
  <2>1. ASSUME NEW p \in Owners, NEW k \in AllKinds, NEW v \in Values, HasRecord(p, k, v)'
        PROVE  /\ records'[p][k][v].generation \in Nat
               /\ records'[p][k][v].generation < next'[p][k]
    <3>1. CASE <<p, k, v>> = <<o, sort, value>>
      BY <1>4, <1>10, <3>1 DEF Made
    <3>2. CASE <<p, k, v>> # <<o, sort, value>>
      <4>1. HasRecord(p, k, v) /\ records'[p][k][v] = records[p][k][v]
        BY <1>4, <2>1, <3>2 DEF Made
      <4>2. /\ records[p][k][v].generation \in Nat
            /\ records[p][k][v].generation < next[p][k]
        BY <4>1 DEF ObjectsInv, GenerationsPass
      <4>. QED
        BY <1>10, <4>1, <4>2
    <3>. QED
      BY <3>1, <3>2
  <2>2. ASSUME NEW h \in givenBack'
        PROVE  h.kind # "pipeline" /\ h.generation < next'[h.owner][h.kind]
    <3>1. /\ h \in givenBack /\ h.kind # "pipeline" /\ h.generation < next[h.owner][h.kind]
          /\ h.owner \in Owners /\ h.kind \in AllKinds /\ h.generation \in Nat
      BY <1>2, <1>3 DEF ObjectsInv, GenerationsPass, ObjectsTyped, ObjectHandles
    <3>. QED
      BY <1>10, <3>1
  <2>. QED
    BY <2>1, <2>2 DEF GenerationsPass
<1>7. RecordsMatch'
  <2> SUFFICES ASSUME NEW p \in Owners, NEW k \in AllKinds, NEW v \in Values
               PROVE  /\ Live(p, k, v)' # {} <=>
                           HasRecord(p, k, v)' /\ HandleOf(p, k, v)' \notin givenBack'
                      /\ \A x \in Live(p, k, v)' :
                           /\ x.of = records'[p][k][v].generation
                           /\ k = "view" => x.image = records'[p][k][v].descriptor.image
    BY DEF RecordsMatch
  <2>1. CASE <<p, k, v>> = <<o, sort, value>>
    <3>1. p = o /\ k = sort /\ v = value
      BY <2>1
    <3>2. \A x \in Live(o, sort, value)' :
            x.of = next[o][sort] /\ (sort = "view" => x.image = d.image)
      BY <1>4 DEF Made, Live, Named
    <3>3. Live(o, sort, value)' # {}
      <4> DEFINE new == [owner |-> o, kind |-> sort, value |-> value, of |-> next[o][sort],
                         image |-> IF sort = "view" THEN d.image ELSE NoHandle,
                         until |-> InUse]
      <4>1. new \in objects'
        BY <1>4 DEF Made
      <4>2. new \in Live(o, sort, value)'
        BY <4>1 DEF Live, Named
      <4>. QED
        BY <4>2
    <3>4. HandleOf(o, sort, value)' \notin givenBack'
      <4>1. HandleOf(o, sort, value)'.generation = next[o][sort]
            /\ HandleOf(o, sort, value)'.owner = o /\ HandleOf(o, sort, value)'.kind = sort
        BY <1>4 DEF Made, HandleOf
      <4>2. \A h \in givenBack : h.generation < next[h.owner][h.kind] /\ h.generation \in Nat
        BY <1>3 DEF ObjectsInv, GenerationsPass, ObjectsTyped, ObjectHandles
      <4>. QED
        BY <1>2, <1>10, <4>1, <4>2
    <3>. QED
      BY <1>4, <3>1, <3>2, <3>3, <3>4 DEF Made
  <2>2. CASE <<p, k, v>> # <<o, sort, value>>
    <3>1. Live(p, k, v)' = Live(p, k, v)
      BY <1>4, <2>2 DEF Made, Live, Named
    <3>2. /\ HasRecord(p, k, v)' <=> HasRecord(p, k, v)
          /\ HasRecord(p, k, v) => records'[p][k][v] = records[p][k][v]
      BY <1>4, <2>2 DEF Made
    <3>3. HasRecord(p, k, v) => HandleOf(p, k, v)' = HandleOf(p, k, v)
      BY <3>2 DEF HandleOf
    <3>. QED
      BY <1>2, <3>1, <3>2, <3>3 DEF ObjectsInv, RecordsMatch
  <2>. QED
    BY <2>1, <2>2
<1>8. ViewsResolve'
  <2> SUFFICES ASSUME NEW x \in objects', x.kind = "view", x.until = InUse
               PROVE  /\ Resolves(x.owner, x.image)'
                      /\ x.image.kind = "image" /\ x.image.value \in Values
    BY DEF ViewsResolve
  <2>1. x.owner \in Owners
    BY <1>5 DEF ObjectsTyped
  <2>2. Resolves(x.owner, x.image) /\ x.image.kind = "image" /\ x.image.value \in Values
    <3>1. CASE x \in objects
      BY <3>1 DEF ObjectsInv, ViewsResolve
    <3>2. CASE x \notin objects
      <4>1. sort = "view" /\ x.owner = o /\ x.image = d.image
        BY <1>4, <3>2 DEF Made
      <4>2. PICK e \in Descriptors["view"], h \in handles :
              h.kind = "image" /\ d = [e EXCEPT !.image = h]
        BY <4>1 DEF Asked
      <4>3. d.image = h
        BY <4>2, GraphicsObjectsAssumption
      <4>4. Resolves(o, d.image)
        BY <4>1 DEF Create, Accepts
      <4>. QED
        BY <1>3, <4>1, <4>2, <4>3, <4>4 DEF ObjectsTyped, ObjectHandles
    <3>. QED
      BY <3>1, <3>2
  <2>3. <<x.owner, "image", x.image.value>> # <<o, sort, value>>
    BY <1>6, <2>2 DEF Resolves
  <2>4. "image" \in AllKinds
    BY DEF AllKinds
  <2>5. /\ HasRecord(x.owner, "image", x.image.value)'
        /\ records'[x.owner]["image"][x.image.value] = records[x.owner]["image"][x.image.value]
    BY <1>4, <2>1, <2>2, <2>3, <2>4 DEF Made, Resolves
  <2>. QED
    BY <2>2, <2>5 DEF Resolves
<1>9. WaitsAreKept'
  BY <1>2, <1>4 DEF ObjectsInv, WaitsAreKept, Made
<1>. QED
  BY <1>5, <1>7, <1>8, <1>9, <1>11 DEF ObjectsInv

(* What the backend destroys at once, or after a completion of its owner. *)
LEMMA BackendDestroysIs ==
  ASSUME ObjectsTyped, WaitsAreKept, NEW o \in Owners, NEW sort \in AllKinds,
         NEW value \in Values, NEW until \in 0 .. MaxSubmits, timelines' = timelines,
         BackendDestroys(o, sort, value, until)
  PROVE  /\ objects' \subseteq [owner : Owners, kind : AllKinds, value : Values, of : Nat,
                               image : handles \cup {NoHandle}, until : Int]
         /\ \A y \in objects' : y.until = InUse => y \in objects
         /\ \A p \in Owners, k \in AllKinds, v \in Values :
              Live(p, k, v)' = IF <<p, k, v>> = <<o, sort, value>> THEN {} ELSE Live(p, k, v)
         /\ WaitsAreKept'
<1> DEFINE Given2(x) == IF x \in Named(o, sort, value) /\ x.until = InUse
                        THEN [x EXCEPT !.until = until] ELSE x
           Typed == [owner : Owners, kind : AllKinds, value : Values, of : Nat,
                     image : handles \cup {NoHandle}, until : Int]
<1>1. \A y \in objects' : \E x \in objects : y = Given2(x)
  BY DEF BackendDestroys, Collected
<1>9. \A y \in objects' : y.owner = o => y.until = InUse \/ y.until > timelines[o].done
  BY DEF BackendDestroys, Collected
<1>2. until # InUse /\ until \in Int /\ MaxSubmits \in Nat
  BY GraphicsObjectsAssumption DEF InUse
<1>3. ASSUME NEW x \in objects
      PROVE  /\ x \in Typed /\ Given2(x) \in Typed
             /\ \/ Given2(x) = x /\ ~ (x \in Named(o, sort, value) /\ x.until = InUse)
                \/ x.owner = o /\ Given2(x).owner = o /\ Given2(x).until = until
  <2>1. x \in Typed
    BY DEF ObjectsTyped
  <2>2. CASE x \in Named(o, sort, value) /\ x.until = InUse
    <3>1. Given2(x) = [x EXCEPT !.until = until] /\ x.owner = o
      BY <2>2 DEF Named
    <3>2. [x EXCEPT !.until = until] \in Typed
          /\ [x EXCEPT !.until = until].until = until
          /\ [x EXCEPT !.until = until].owner = x.owner
      BY <1>2, <2>1
    <3>. QED
      BY <2>1, <3>1, <3>2
  <2>3. CASE ~ (x \in Named(o, sort, value) /\ x.until = InUse)
    BY <2>1, <2>3
  <2>. QED
    BY <2>2, <2>3
<1>4. \A x \in objects : x.until = InUse /\ x \notin Named(o, sort, value) => x \in objects'
  BY DEF BackendDestroys, Collected
<1>. HIDE DEF Given2
<1>5. ASSUME NEW y \in objects', y.until = InUse
      PROVE  y \in objects /\ y \notin Named(o, sort, value)
  <2>1. PICK x \in objects : y = Given2(x)
    BY <1>1
  <2>2. Given2(x) = x /\ ~ (x \in Named(o, sort, value) /\ x.until = InUse)
    BY <1>2, <1>3, <1>5, <2>1
  <2>. QED
    BY <1>5, <2>1, <2>2
<1>6. objects' \subseteq Typed
  BY <1>1, <1>3
<1>7. ASSUME NEW p \in Owners, NEW k \in AllKinds, NEW v \in Values
      PROVE  Live(p, k, v)' = IF <<p, k, v>> = <<o, sort, value>> THEN {} ELSE Live(p, k, v)
  <2>1. CASE <<p, k, v>> = <<o, sort, value>>
    BY <1>5, <2>1 DEF Live, Named
  <2>2. CASE <<p, k, v>> # <<o, sort, value>>
    BY <1>4, <1>5, <2>2 DEF Live, Named
  <2>. QED
    BY <2>1, <2>2
<1>8. WaitsAreKept'
  <2> SUFFICES ASSUME NEW y \in objects'
               PROVE  y.until \in {InUse} \cup timelines[y.owner].done + 1 .. MaxSubmits
    BY DEF WaitsAreKept
  <2>1. PICK x \in objects : y = Given2(x)
    BY <1>1
  <2>2. CASE y = x
    BY <2>2 DEF WaitsAreKept
  <2>3. CASE x.owner = o /\ y.owner = o /\ y.until = until
    <3>1. y.until > timelines[o].done
      BY <1>2, <1>9, <2>3
    <3>2. timelines[o].done \in Nat
      BY DEF ObjectsTyped
    <3>. QED
      BY <1>2, <2>3, <3>1, <3>2
  <2>. QED
    BY <1>3, <2>1, <2>2, <2>3
<1>. QED
  BY <1>5, <1>6, <1>7, <1>8

LEMMA DestroyKeepsObjects ==
  ASSUME ObjectsInv, NEW o \in Owners, NEW h \in handles,
         NEW c \in Completions, Given(c), Destroy(o, h, c)
  PROVE  ObjectsInv'
<1>1. ObjectsTyped /\ h.owner = o /\ h.kind \in AllKinds /\ h.value \in Values
  BY DEF ObjectsInv, ObjectsTyped, ObjectHandles, Destroy, Resolves
<1>2. records' = [records EXCEPT ![o][h.kind] =
         [v \in DOMAIN records[o][h.kind] \ {h.value} |-> records[o][h.kind][v]]]
  BY DEF Destroy
<1>3. next' = next /\ handles' = handles /\ timelines' = timelines /\ givenBack' = givenBack
  BY DEF Destroy
<1>4. c.value \in 0 .. MaxSubmits
  BY DEF Completions
<1>5. /\ objects' \subseteq [owner : Owners, kind : AllKinds, value : Values, of : Nat,
                            image : handles \cup {NoHandle}, until : Int]
      /\ \A y \in objects' : y.until = InUse => y \in objects
      /\ \A p \in Owners, k \in AllKinds, v \in Values :
           Live(p, k, v)' = IF <<p, k, v>> = <<o, h.kind, h.value>> THEN {} ELSE Live(p, k, v)
      /\ WaitsAreKept'
  BY <1>1, <1>3, <1>4, BackendDestroysIs DEF ObjectsInv, Destroy
<1>6. \A p \in Owners, k \in AllKinds, v \in Values :
        IF <<p, k, v>> = <<o, h.kind, h.value>> THEN ~ HasRecord(p, k, v)'
        ELSE /\ HasRecord(p, k, v)' <=> HasRecord(p, k, v)
             /\ HasRecord(p, k, v) => records'[p][k][v] = records[p][k][v]
  BY <1>1, <1>2 DEF HasRecord, ObjectsTyped
<1>7. ObjectsTyped'
  <2>1. records' = [p \in Owners |-> [k \in AllKinds |-> records'[p][k]]]
    BY <1>1, <1>2 DEF ObjectsTyped
  <2>. QED
    BY <1>1, <1>3, <1>5, <2>1 DEF ObjectsTyped
<1>8. GenerationsPass'
  BY <1>3, <1>6 DEF ObjectsInv, GenerationsPass
<1>9. RecordsMatch'
  <2> SUFFICES ASSUME NEW p \in Owners, NEW k \in AllKinds, NEW v \in Values
               PROVE  /\ Live(p, k, v)' # {} <=>
                           HasRecord(p, k, v)' /\ HandleOf(p, k, v)' \notin givenBack'
                      /\ \A x \in Live(p, k, v)' :
                           /\ x.of = records'[p][k][v].generation
                           /\ k = "view" => x.image = records'[p][k][v].descriptor.image
    BY DEF RecordsMatch
  <2>1. CASE <<p, k, v>> = <<o, h.kind, h.value>>
    BY <1>5, <1>6, <2>1
  <2>2. CASE <<p, k, v>> # <<o, h.kind, h.value>>
    <3>1. Live(p, k, v)' = Live(p, k, v)
      BY <1>5, <2>2
    <3>2. /\ HasRecord(p, k, v)' <=> HasRecord(p, k, v)
          /\ HasRecord(p, k, v) => records'[p][k][v] = records[p][k][v]
      BY <1>6, <2>2
    <3>3. HasRecord(p, k, v) => HandleOf(p, k, v)' = HandleOf(p, k, v)
      BY <3>2 DEF HandleOf
    <3>. QED
      BY <1>3, <3>1, <3>2, <3>3 DEF ObjectsInv, RecordsMatch
  <2>. QED
    BY <2>1, <2>2
<1>10. ViewsResolve'
  <2> SUFFICES ASSUME NEW x \in objects', x.kind = "view", x.until = InUse
               PROVE  /\ Resolves(x.owner, x.image)'
                      /\ x.image.kind = "image" /\ x.image.value \in Values
    BY DEF ViewsResolve
  <2>1. x \in objects /\ x.owner \in Owners /\ x.value \in Values
    BY <1>1, <1>5 DEF ObjectsTyped
  <2>2. Resolves(x.owner, x.image) /\ x.image.kind = "image" /\ x.image.value \in Values
    BY <2>1 DEF ObjectsInv, ViewsResolve
  <2>3. "image" \in AllKinds /\ "view" \in AllKinds
    BY DEF AllKinds
  <2>4. HasRecord(x.owner, "view", x.value)
        /\ x.image = records[x.owner]["view"][x.value].descriptor.image
    <3>1. x \in Live(x.owner, "view", x.value)
      BY <2>1 DEF Live, Named
    <3>. QED
      BY <2>1, <2>3, <3>1 DEF ObjectsInv, RecordsMatch
  <2>5. <<x.owner, "image", x.image.value>> # <<o, h.kind, h.value>>
    <3> SUFFICES ASSUME x.owner = o, h.kind = "image", x.image.value = h.value PROVE FALSE
      OBVIOUS
    <3>1. x.image.generation = h.generation
      BY <2>2 DEF Resolves, Destroy
    <3>2. HasLiveViews(o, h)
      BY <2>4, <3>1 DEF HasLiveViews, HasRecord
    <3>. QED
      BY <3>2 DEF Destroy
  <2>6. /\ HasRecord(x.owner, "image", x.image.value)'
        /\ records'[x.owner]["image"][x.image.value] = records[x.owner]["image"][x.image.value]
    BY <1>6, <2>1, <2>2, <2>3, <2>5 DEF Resolves
  <2>. QED
    BY <2>2, <2>6 DEF Resolves
<1>. QED
  BY <1>5, <1>7, <1>8, <1>9, <1>10 DEF ObjectsInv

(* A refused creation leaves the records, and may destroy what one stands for. *)
LEMMA DuplicateKeepsObjects ==
  ASSUME ObjectsInv, NEW o \in Owners, NEW sort \in AllKinds, NEW d \in Asked(sort),
         CreateDuplicate(o, sort, d)
  PROVE  ObjectsInv'
<1>1. /\ ObjectsTyped /\ records' = records /\ next' = next /\ handles' = handles
      /\ timelines' = timelines
  BY DEF ObjectsInv, CreateDuplicate
<1>2. PICK value \in Values :
        /\ HasRecord(o, sort, value)
        /\ IF sort = "pipeline" THEN UNCHANGED <<objects, givenBack>>
           ELSE /\ BackendDestroys(o, sort, value, NoCompletion)
                /\ givenBack' = givenBack \cup {HandleOf(o, sort, value)}
  BY DEF CreateDuplicate
<1>3. CASE UNCHANGED <<objects, givenBack>>
  <2>1. ObjectsTyped' /\ GenerationsPass'
    BY <1>1, <1>3 DEF ObjectsInv, ObjectsTyped, GenerationsPass, HasRecord
  <2>2. RecordsMatch'
    BY <1>1, <1>3 DEF ObjectsInv, RecordsMatch, HasRecord, HandleOf, Live, Named
  <2>3. ViewsResolve' /\ WaitsAreKept'
    BY <1>1, <1>3 DEF ObjectsInv, ViewsResolve, WaitsAreKept, HasRecord, Resolves
  <2>. QED
    BY <2>1, <2>2, <2>3 DEF ObjectsInv
<1>4. CASE /\ sort # "pipeline" /\ BackendDestroys(o, sort, value, NoCompletion)
           /\ givenBack' = givenBack \cup {HandleOf(o, sort, value)}
  <2>1. NoCompletion \in 0 .. MaxSubmits
    BY GraphicsObjectsAssumption DEF NoCompletion
  <2>2. /\ objects' \subseteq [owner : Owners, kind : AllKinds, value : Values, of : Nat,
                              image : handles \cup {NoHandle}, until : Int]
        /\ \A y \in objects' : y.until = InUse => y \in objects
        /\ \A p \in Owners, k \in AllKinds, v \in Values :
             Live(p, k, v)' = IF <<p, k, v>> = <<o, sort, value>> THEN {} ELSE Live(p, k, v)
        /\ WaitsAreKept'
    BY <1>1, <1>4, <2>1, BackendDestroysIs DEF ObjectsInv
  <2>3. /\ records[o][sort][value].generation \in Nat
        /\ records[o][sort][value].generation < next[o][sort]
    BY <1>2 DEF ObjectsInv, GenerationsPass
  <2>4. ObjectsTyped'
    BY <1>1, <1>4, <2>2, <2>3 DEF ObjectsTyped, ObjectHandles, HandleOf
  <2>5. GenerationsPass'
    BY <1>1, <1>4, <2>3 DEF ObjectsInv, GenerationsPass, HasRecord, HandleOf
  <2>6. RecordsMatch'
    <3> SUFFICES ASSUME NEW p \in Owners, NEW k \in AllKinds, NEW v \in Values
                 PROVE  /\ Live(p, k, v)' # {} <=>
                             HasRecord(p, k, v)' /\ HandleOf(p, k, v)' \notin givenBack'
                        /\ \A x \in Live(p, k, v)' :
                             /\ x.of = records'[p][k][v].generation
                             /\ k = "view" => x.image = records'[p][k][v].descriptor.image
      BY DEF RecordsMatch
    <3>1. (HasRecord(p, k, v)' <=> HasRecord(p, k, v)) /\ HandleOf(p, k, v)' = HandleOf(p, k, v)
      BY <1>1 DEF HasRecord, HandleOf
    <3>2. CASE <<p, k, v>> = <<o, sort, value>>
      BY <1>4, <2>2, <3>1, <3>2
    <3>3. CASE <<p, k, v>> # <<o, sort, value>>
      <4>1. HandleOf(p, k, v) # HandleOf(o, sort, value)
        BY <3>3 DEF HandleOf
      <4>2. Live(p, k, v)' = Live(p, k, v)
        BY <2>2, <3>3
      <4>. QED
        BY <1>1, <1>4, <3>1, <4>1, <4>2 DEF ObjectsInv, RecordsMatch
    <3>. QED
      BY <3>2, <3>3
  <2>7. ViewsResolve'
    BY <1>1, <2>2 DEF ObjectsInv, ViewsResolve, Resolves, HasRecord
  <2>. QED
    BY <2>2, <2>4, <2>5, <2>6, <2>7 DEF ObjectsInv
<1>. QED
  BY <1>2, <1>3, <1>4

LEMMA SubmitKeepsObjects ==
  ASSUME ObjectsInv, NEW o \in Owners, NEW slot, SubmitFrame(o, slot)
  PROVE  ObjectsInv'
<1>1. ObjectsTyped
  BY DEF ObjectsInv
<1>2. timelines' \in [Owners -> [submitted : 0 .. MaxSubmits, done : Nat]]
      /\ \A p \in Owners : timelines'[p].done = timelines[p].done
  BY <1>1, GraphicsObjectsAssumption DEF SubmitFrame, ObjectsTyped
<1>3. UNCHANGED <<records, next, handles, objects, givenBack>>
  BY DEF SubmitFrame
<1>4. ObjectsTyped'
  BY <1>1, <1>2, <1>3 DEF ObjectsTyped
<1>5. WaitsAreKept'
  BY <1>1, <1>2, <1>3 DEF ObjectsInv, WaitsAreKept, ObjectsTyped
<1>. QED
  BY <1>3, <1>4, <1>5
  DEF ObjectsInv, GenerationsPass, RecordsMatch, ViewsResolve, HasRecord, HandleOf, Live, Named,
      Resolves

LEMMA GpuKeepsObjects ==
  ASSUME ObjectsInv, NEW o \in Owners, GpuCompletes(o)
  PROVE  ObjectsInv'
<1>1. ObjectsTyped
  BY DEF ObjectsInv
<1>2. /\ timelines' \in [Owners -> [submitted : 0 .. MaxSubmits, done : Nat]]
      /\ timelines'[o].done = timelines[o].done + 1
      /\ \A p \in Owners \ {o} : timelines'[p] = timelines[p]
  <2>1. timelines \in [Owners -> [submitted : 0 .. MaxSubmits, done : Nat]]
    BY <1>1 DEF ObjectsTyped
  <2>2. timelines' = [timelines EXCEPT ![o] = [timelines[o] EXCEPT !.done = timelines[o].done + 1]]
    BY DEF GpuCompletes
  <2>3. [timelines[o] EXCEPT !.done = timelines[o].done + 1]
          \in [submitted : 0 .. MaxSubmits, done : Nat]
        /\ [timelines[o] EXCEPT !.done = timelines[o].done + 1].done = timelines[o].done + 1
    BY <2>1
  <2>. QED
    BY <2>1, <2>2, <2>3
<1>3. UNCHANGED <<records, next, handles, givenBack>>
  BY DEF GpuCompletes
<1>4. objects' = {x \in objects : x.owner = o => x.until = InUse
                                                 \/ x.until > timelines[o].done + 1}
  BY DEF GpuCompletes, Collected
<1>5. ObjectsTyped'
  BY <1>1, <1>2, <1>3, <1>4 DEF ObjectsTyped
<1>6. WaitsAreKept'
  <2> SUFFICES ASSUME NEW x \in objects'
               PROVE  x.until \in {InUse} \cup timelines'[x.owner].done + 1 .. MaxSubmits
    BY DEF WaitsAreKept
  <2>1. x.until \in {InUse} \cup timelines[x.owner].done + 1 .. MaxSubmits
        /\ x.owner \in Owners /\ timelines[x.owner].done \in Nat
    BY <1>1, <1>4 DEF ObjectsInv, WaitsAreKept, ObjectsTyped
  <2>2. CASE x.owner = o
    BY <1>2, <1>4, <2>1, <2>2, GraphicsObjectsAssumption
  <2>3. CASE x.owner # o
    BY <1>2, <2>1, <2>3
  <2>. QED
    BY <2>2, <2>3
<1>7. \A p \in Owners, k \in AllKinds, v \in Values : Live(p, k, v)' = Live(p, k, v)
  BY <1>4 DEF Live, Named
<1>8. RecordsMatch'
  BY <1>3, <1>7 DEF ObjectsInv, RecordsMatch, HasRecord, HandleOf
<1>9. ViewsResolve'
  BY <1>3, <1>4 DEF ObjectsInv, ViewsResolve, Resolves, HasRecord
<1>10. GenerationsPass'
  BY <1>3 DEF ObjectsInv, GenerationsPass, HasRecord
<1>. QED
  BY <1>5, <1>6, <1>8, <1>9, <1>10 DEF ObjectsInv

LEMMA ObjectsFollow == ObjectsInv => ObjectsAreSafe
<1> SUFFICES ASSUME ObjectsInv PROVE ObjectsAreSafe
  OBVIOUS
<1>1. ASSUME NEW o \in Owners, NEW h \in ObjectHandles, Resolves(o, h)
      PROVE  /\ HasRecord(o, h.kind, h.value) /\ HandleOf(o, h.kind, h.value) = h
             /\ h.kind \in AllKinds /\ h.value \in Values
  BY <1>1 DEF Resolves, HandleOf, ObjectHandles
<1>2. HandlesAreFaithful
  <2> SUFFICES ASSUME NEW o \in Owners, NEW h \in handles, Resolves(o, h)
               PROVE  IF h \in givenBack
                      THEN h.kind # "pipeline" /\ Live(o, h.kind, h.value) = {}
                      ELSE \E x \in Live(o, h.kind, h.value) : x.of = h.generation
    BY DEF HandlesAreFaithful
  <2>1. /\ HasRecord(o, h.kind, h.value) /\ HandleOf(o, h.kind, h.value) = h
        /\ h.kind \in AllKinds /\ h.value \in Values
    BY <1>1 DEF ObjectsInv, ObjectsTyped
  <2>2. records[o][h.kind][h.value].generation = h.generation
    BY DEF Resolves
  <2>. QED
    BY <2>1, <2>2 DEF ObjectsInv, RecordsMatch, GenerationsPass
<1>3. ViewsHaveTheirImage
  <2> SUFFICES ASSUME NEW x \in objects, x.kind = "view", x.until = InUse,
                      x.image \notin givenBack
               PROVE  \E y \in Live(x.owner, "image", x.image.value) :
                         y.of = x.image.generation
    BY DEF ViewsHaveTheirImage
  <2>1. /\ Resolves(x.owner, x.image) /\ x.image.kind = "image" /\ x.owner \in Owners
        /\ x.image \in handles \cup {NoHandle}
    BY DEF ObjectsInv, ViewsResolve, ObjectsTyped
  <2>2. x.image \in ObjectHandles
    <3>1. NoHandle.owner \notin Owners
      BY GraphicsObjectsAssumption DEF NoHandle
    <3>. QED
      BY <2>1, <3>1 DEF ObjectsInv, ObjectsTyped, Resolves
  <2>3. /\ HasRecord(x.owner, "image", x.image.value)
        /\ HandleOf(x.owner, "image", x.image.value) = x.image
        /\ "image" \in AllKinds /\ x.image.value \in Values
    BY <1>1, <2>1, <2>2
  <2>4. records[x.owner]["image"][x.image.value].generation = x.image.generation
    BY <2>1 DEF Resolves
  <2>. QED
    BY <2>1, <2>3, <2>4 DEF ObjectsInv, RecordsMatch
<1>. QED
  BY <1>2, <1>3 DEF ObjectsInv, ObjectsAreSafe, NothingLeaks, RecordsMatch

LEMMA ObjectsInductive ==
  ASSUME ObjectsInv, [ObjectNext]_objectVars
  PROVE  ObjectsInv'
<1>1. CASE UNCHANGED objectVars
  <2>1. ObjectsTyped'
    BY <1>1 DEF ObjectsInv, ObjectsTyped, objectVars
  <2>2. RecordsMatch'
    BY <1>1 DEF ObjectsInv, RecordsMatch, HasRecord, HandleOf, Live, Named, objectVars
  <2>3. ViewsResolve' /\ WaitsAreKept'
    BY <1>1 DEF ObjectsInv, ViewsResolve, WaitsAreKept, HasRecord, Resolves, objectVars
  <2>4. GenerationsPass'
    BY <1>1 DEF ObjectsInv, GenerationsPass, HasRecord, objectVars
  <2>. QED
    BY <2>1, <2>2, <2>3, <2>4 DEF ObjectsInv
<1>2. ASSUME NEW o \in Owners, NEW sort \in AllKinds, Creates(o, sort)
      PROVE  ObjectsInv'
  <2>1. PICK d \in Asked(sort) : Create(o, sort, d) \/ CreateDuplicate(o, sort, d)
    BY <1>2 DEF Creates
  <2>2. CASE Create(o, sort, d)
    BY <2>2, CreateKeepsObjects
  <2>3. CASE CreateDuplicate(o, sort, d)
    BY <2>3, DuplicateKeepsObjects
  <2>. QED
    BY <2>1, <2>2, <2>3
<1>3. ASSUME NEW o \in Owners, NEW sort, Destroys(o, sort)
      PROVE  ObjectsInv'
  BY <1>3, DestroyKeepsObjects DEF Destroys
<1>4. {"buffer", "pipeline", "image", "view", "sampler"} \subseteq AllKinds
  BY DEF AllKinds
<1>. QED
  BY <1>1, <1>2, <1>3, <1>4, SubmitKeepsObjects, GpuKeepsObjects
  DEF ObjectNext, CreateBuffer, CreateGraphicsPipeline, CreateImage, CreateImageView,
      CreateSampler, DestroyBuffer, DestroyGraphicsPipeline, DestroyImage, DestroyImageView,
      DestroySampler

(* A handle names the object it was made for until the GPU is done with it,
   although backends answer values again, those in use included, and several
   Graphics use the same ones; where the guard of a refused creation destroyed
   that object it names none, and no other object ever
   (graphics/graphics.cpp: Resolve, HasLiveViews, the guards of Create). *)
THEOREM ObjectsSafe == ObjectSpec => []ObjectsAreSafe
<1>1. ObjectInit => ObjectsInv
  BY ObjectsStart
<1>2. ObjectsInv /\ [ObjectNext]_objectVars => ObjectsInv'
  BY ObjectsInductive
<1>3. ObjectsInv => ObjectsAreSafe
  BY ObjectsFollow
<1>. QED
  BY <1>1, <1>2, <1>3, PTL DEF ObjectSpec

(***************************************************************************)
(* Descriptor sets.                                                         *)
(***************************************************************************)

DescriptorsTyped ==
  /\ written \in Seq({WriteSet(r) : r \in Requests})
  /\ cache \subseteq [key : {MakeKey(r) : r \in Requests}, set : 1 .. Len(written)]
  /\ leases \subseteq [request : Requests, set : 1 .. Len(written)]
  /\ inFlight \subseteq Nat
  /\ uses \subseteq [value : Nat, set : Nat]
  /\ clock \in [next : Nat, done : Nat, reported : Nat]

(* What is cached under a key was written for it. *)
CacheIsTrue ==
  \A c \in cache : \A r \in Requests : c.key = MakeKey(r) => written[c.set] = WriteSet(r)

(* A use the GPU has not done is among those the callers have not reported. *)
UsesAreReported ==
  /\ clock.done < clock.next
  /\ \A u \in uses : u.value \in inFlight /\ u.value > clock.done

DescriptorsInv ==
  /\ DescriptorsTyped /\ CacheIsTrue /\ SetsAreCachedOnce /\ LeasesShowTheirRequest
  /\ UsesAreReported /\ NoUseOutlivesThePool

LEMMA KeyDecidesSet ==
  ASSUME NEW r, NEW q, MakeKey(r) = MakeKey(q)
  PROVE  WriteSet(r) = WriteSet(q)
<1>1. SetElements(r.bindings) = SetElements(q.bindings)
  <2>1. MakeKey(r).bindings = SetElements(r.bindings)
        /\ MakeKey(q).bindings = SetElements(q.bindings)
    BY DEF MakeKey
  <2>. QED
    BY <2>1
<1>. QED
  BY <1>1 DEF WriteSet

LEMMA AcquireKeepsDescriptors ==
  ASSUME DescriptorsInv, NEW r \in Requests, Acquire(r)
  PROVE  DescriptorsInv'
<1>1. DescriptorsTyped
  BY DEF DescriptorsInv
<1>2. inFlight' = inFlight /\ uses' = uses /\ clock' = clock /\ ended' = ended
  BY DEF Acquire
<1>3. UsesAreReported' /\ NoUseOutlivesThePool'
  BY <1>2 DEF DescriptorsInv, UsesAreReported, NoUseOutlivesThePool
<1>4. CASE \E c \in Found(r) : /\ leases' = leases \cup {[request |-> r, set |-> c.set]}
                               /\ UNCHANGED <<cache, written>>
  <2>1. PICK c \in Found(r) : leases' = leases \cup {[request |-> r, set |-> c.set]}
    BY <1>4
  <2>2. cache' = cache /\ written' = written
    BY <1>4
  <2>3. c \in cache /\ c.key = MakeKey(r) /\ c.set \in 1 .. Len(written)
    BY <1>1 DEF Found, DescriptorsTyped
  <2>4. DescriptorsTyped'
    BY <1>1, <1>2, <2>1, <2>2, <2>3 DEF DescriptorsTyped
  <2>5. LeasesShowTheirRequest'
    BY <2>1, <2>2, <2>3 DEF DescriptorsInv, LeasesShowTheirRequest, CacheIsTrue
  <2>. QED
    BY <1>3, <2>2, <2>4, <2>5 DEF DescriptorsInv, CacheIsTrue, SetsAreCachedOnce
<1>5. CASE /\ Found(r) = {}
           /\ LET set == Len(written) + 1
              IN  /\ cache' = cache \cup {[key |-> MakeKey(r), set |-> set]}
                  /\ written' = Append(written, WriteSet(r))
                  /\ leases' = leases \cup {[request |-> r, set |-> set]}
  <2> DEFINE set == Len(written) + 1
  <2>1. /\ cache' = cache \cup {[key |-> MakeKey(r), set |-> set]}
        /\ written' = Append(written, WriteSet(r))
        /\ leases' = leases \cup {[request |-> r, set |-> set]}
    BY <1>5
  <2>2. WriteSet(r) \in {WriteSet(q) : q \in Requests}
    OBVIOUS
  <2>3. /\ written' \in Seq({WriteSet(q) : q \in Requests})
        /\ Len(written') = set /\ Len(written) \in Nat
        /\ written'[set] = WriteSet(r)
        /\ \A n \in 1 .. Len(written) : written'[n] = written[n]
    BY <1>1, <2>1, <2>2 DEF DescriptorsTyped
  <2>4. \A n \in 1 .. Len(written) : n \in 1 .. Len(written') /\ n # set
    BY <2>3
  <2>5. set \in 1 .. Len(written')
    BY <2>3
  <2> HIDE DEF set
  <2>6. DescriptorsTyped'
    <3>1. cache' \subseteq [key : {MakeKey(q) : q \in Requests}, set : 1 .. Len(written')]
      BY <1>1, <2>1, <2>4, <2>5 DEF DescriptorsTyped
    <3>2. leases' \subseteq [request : Requests, set : 1 .. Len(written')]
      BY <1>1, <2>1, <2>4, <2>5 DEF DescriptorsTyped
    <3>. QED
      BY <1>1, <1>2, <2>3, <3>1, <3>2 DEF DescriptorsTyped
  <2>7. CacheIsTrue'
    <3> SUFFICES ASSUME NEW c \in cache', NEW q \in Requests, c.key = MakeKey(q)
                 PROVE  written'[c.set] = WriteSet(q)
      BY DEF CacheIsTrue
    <3>1. CASE c \in cache
      BY <1>1, <2>3, <3>1 DEF DescriptorsInv, CacheIsTrue, DescriptorsTyped
    <3>2. CASE c \notin cache
      <4>1. c.key = MakeKey(r) /\ c.set = set
        BY <2>1, <3>2
      <4>. QED
        BY <2>3, <4>1, KeyDecidesSet
    <3>. QED
      BY <3>1, <3>2
  <2>8. SetsAreCachedOnce'
    <3> SUFFICES ASSUME NEW c \in cache', NEW d \in cache', c.key = d.key \/ c.set = d.set
                 PROVE  c = d
      BY DEF SetsAreCachedOnce
    <3>1. \A x \in cache : x.key # MakeKey(r) /\ x.set # set
      BY <1>1, <1>5, <2>4 DEF Found, DescriptorsTyped
    <3>. QED
      BY <2>1, <3>1 DEF DescriptorsInv, SetsAreCachedOnce
  <2>9. LeasesShowTheirRequest'
    <3> SUFFICES ASSUME NEW l \in leases' PROVE written'[l.set] = WriteSet(l.request)
      BY DEF LeasesShowTheirRequest
    <3>1. CASE l \in leases
      BY <1>1, <2>3, <3>1 DEF DescriptorsInv, LeasesShowTheirRequest, DescriptorsTyped
    <3>2. CASE l \notin leases
      BY <2>1, <2>3, <3>2
    <3>. QED
      BY <3>1, <3>2
  <2>. QED
    BY <1>3, <2>6, <2>7, <2>8, <2>9 DEF DescriptorsInv
<1>. QED
  BY <1>4, <1>5 DEF Acquire

LEMMA UseKeepsDescriptors ==
  ASSUME DescriptorsInv, NEW l \in leases, RetainUntil(l)
  PROVE  DescriptorsInv'
<1>1. DescriptorsTyped
  BY DEF DescriptorsInv
<1>2. /\ cache' = cache /\ written' = written /\ leases' = leases /\ ended' = ended
      /\ ended = "no"
      /\ uses' = uses \cup {[value |-> clock.next, set |-> l.set]}
      /\ inFlight' = inFlight \cup {clock.next}
  BY DEF RetainUntil
<1>3. clock' = [clock EXCEPT !.next = clock.next + 1]
  BY DEF RetainUntil
<1>4. clock' \in [next : Nat, done : Nat, reported : Nat] /\ clock'.done = clock.done
      /\ clock'.next = clock.next + 1 /\ clock.next \in Nat /\ clock.done \in Nat
  BY <1>1, <1>3 DEF DescriptorsTyped
<1>5. DescriptorsTyped'
  <2>1. l.set \in Nat
    BY <1>1 DEF DescriptorsTyped
  <2>2. uses' \subseteq [value : Nat, set : Nat] /\ inFlight' \subseteq Nat
    <3>1. clock.next \in Nat
      BY <1>4
    <3>2. [value |-> clock.next, set |-> l.set] \in [value : Nat, set : Nat]
      BY <2>1, <3>1
    <3>3. uses \subseteq [value : Nat, set : Nat] /\ inFlight \subseteq Nat
      BY <1>1 DEF DescriptorsTyped
    <3>. QED
      BY <1>2, <3>1, <3>2, <3>3
  <2>. QED
    BY <1>1, <1>2, <1>4, <2>2 DEF DescriptorsTyped
<1>6. UsesAreReported'
  BY <1>2, <1>4 DEF DescriptorsInv, UsesAreReported
<1>. QED
  BY <1>2, <1>5, <1>6
  DEF DescriptorsInv, CacheIsTrue, SetsAreCachedOnce, LeasesShowTheirRequest,
      NoUseOutlivesThePool

(* The sets stay when the GPU or the callers move. *)
LEMMA ReportKeepsDescriptors ==
  ASSUME DescriptorsInv, DescriptorGpuCompletes \/ ReleaseCompletedSets \/ DestroyDescriptors
  PROVE  DescriptorsInv'
<1>1. DescriptorsTyped
  BY DEF DescriptorsInv
<1>2. cache' = cache /\ written' = written /\ leases' = leases
  BY DEF DescriptorGpuCompletes, ReleaseCompletedSets, DestroyDescriptors
<1>3. clock.done \in Nat /\ clock.next \in Nat
  BY <1>1 DEF DescriptorsTyped
<1>4. /\ clock' \in [next : Nat, done : Nat, reported : Nat]
      /\ inFlight' \subseteq inFlight /\ uses' \subseteq uses
  BY <1>1, <1>3
  DEF DescriptorsTyped, DescriptorGpuCompletes, ReleaseCompletedSets, DestroyDescriptors,
      StillInFlight
<1>5. DescriptorsTyped'
  BY <1>1, <1>2, <1>4 DEF DescriptorsTyped
<1>6. UsesAreReported' /\ NoUseOutlivesThePool'
  <2>1. CASE DescriptorGpuCompletes
    <3>1. /\ inFlight' = inFlight /\ ended' = ended
          /\ uses' = {u \in uses : u.value # clock.done + 1}
      BY <2>1 DEF DescriptorGpuCompletes
    <3>2. clock'.done = clock.done + 1 /\ clock'.next = clock.next /\ clock'.done < clock'.next
      BY <1>3, <1>1, <2>1 DEF DescriptorGpuCompletes, DescriptorsTyped
    <3>3. \A u \in uses : u.value \in Nat
      BY <1>1 DEF DescriptorsTyped
    <3>. QED
      BY <1>3, <3>1, <3>2, <3>3 DEF DescriptorsInv, UsesAreReported, NoUseOutlivesThePool
  <2>2. CASE ReleaseCompletedSets
    <3>1. clock'.done = clock.done /\ clock'.next = clock.next
      BY <1>1, <2>2 DEF ReleaseCompletedSets, DescriptorsTyped
    <3>. QED
      BY <2>2, <3>1
      DEF DescriptorsInv, UsesAreReported, NoUseOutlivesThePool, ReleaseCompletedSets,
          StillInFlight
  <2>3. CASE DestroyDescriptors
    BY <2>3 DEF DescriptorsInv, UsesAreReported, NoUseOutlivesThePool, DestroyDescriptors
  <2>. QED
    BY <2>1, <2>2, <2>3
<1>. QED
  BY <1>2, <1>5, <1>6
  DEF DescriptorsInv, CacheIsTrue, SetsAreCachedOnce, LeasesShowTheirRequest

(* A set a caller holds shows what its request asked for, over every version of
   its resources, and the pool is not destroyed under the GPU
   (graphics/vulkan/descriptor_manager.cpp). *)
THEOREM DescriptorsSafe == DescriptorSpec => []DescriptorsAreSafe
<1>1. DescriptorInit => DescriptorsInv
  BY DEF DescriptorInit, DescriptorsInv, DescriptorsTyped, CacheIsTrue, SetsAreCachedOnce,
         LeasesShowTheirRequest, UsesAreReported, NoUseOutlivesThePool
<1>2. DescriptorsInv /\ [DescriptorNext]_descriptorVars => DescriptorsInv'
  <2> SUFFICES ASSUME DescriptorsInv, [DescriptorNext]_descriptorVars PROVE DescriptorsInv'
    OBVIOUS
  <2>1. CASE UNCHANGED descriptorVars
    BY <2>1
    DEF descriptorVars, DescriptorsInv, DescriptorsTyped, CacheIsTrue, SetsAreCachedOnce,
        LeasesShowTheirRequest, UsesAreReported, NoUseOutlivesThePool
  <2>. QED
    BY <2>1, AcquireKeepsDescriptors, UseKeepsDescriptors, ReportKeepsDescriptors
    DEF DescriptorNext
<1>3. DescriptorsInv => DescriptorsAreSafe
  BY DEF DescriptorsInv, DescriptorsAreSafe
<1>. QED
  BY <1>1, <1>2, <1>3, PTL DEF DescriptorSpec

(***************************************************************************)
(* The path of a frame to the screen.                                       *)
(***************************************************************************)

Token == [frame : Nat, value : Nat]
PathRecord ==
  [at : {"idle", "acquire", "record", "present"}, frame : 0 .. PathFrames, size : Sizes,
   recreate : BOOLEAN, failed : BOOLEAN, first : Images \cup {Unset}, retirement : Nat,
   last : Nat, pending : Seq(Token), image : Images \cup {Unset}, suboptimal : BOOLEAN]
ChainRecord ==
  [id : 1 .. MaxChains, suspended : BOOLEAN, failed : BOOLEAN, retired : SUBSET Nat,
   images : Nat]
ContextRecord ==
  [state : {"free", "acquired", "in_flight"}, value : Nat, frame : Nat, lastUse : Nat]
PresentRecord == [chain : Nat, image : Images, value : Nat]

PathTyped ==
  /\ path \in PathRecord /\ chain \in ChainRecord
  /\ contexts \in [Slots -> ContextRecord]
  /\ timeline \in [next : Nat, done : Nat]
  /\ wsi \in [queue : Seq(PresentRecord), held : SUBSET (Nat \X Images)]
  /\ reported \in Seq(Token)
  /\ chain.retired \subseteq 1 .. chain.id - 1
  /\ timeline.done < timeline.next

(* One value per frame; what was reported is done and what is pending follows. *)
FramesCounted ==
  /\ timeline.next = path.frame + 1
  /\ Len(reported) + Len(path.pending) = path.frame
  /\ \A k \in 1 .. Len(reported) :
       reported[k].frame = k - 1 /\ reported[k].value = k /\ k <= timeline.done
  /\ \A k \in 1 .. Len(path.pending) :
       /\ path.pending[k].frame = Len(reported) + k - 1
       /\ path.pending[k].value = Len(reported) + k
  /\ path.at \in {"acquire", "record"} => path.frame < PathFrames

(* What a context last served is done unless it is in flight. *)
ContextsSound ==
  /\ \A s \in Slots :
       /\ contexts[s].state \in {"free", "acquired"} => contexts[s].lastUse <= timeline.done
       /\ contexts[s].state = "in_flight" => contexts[s].value = contexts[s].lastUse
  /\ path.at \in {"acquire", "record"} => contexts[Slot].state = "acquired"

(* An image is held from its acquisition until the engine takes its present,
   which it does in order, chain by chain. *)
IsQueued(image) == \E k \in 1 .. Len(wsi.queue) : /\ wsi.queue[k].chain = chain.id
                                                  /\ wsi.queue[k].image = image
PresentsInOrder ==
  /\ \A k \in 1 .. Len(wsi.queue) :
       /\ <<wsi.queue[k].chain, wsi.queue[k].image>> \in wsi.held
       /\ wsi.queue[k].chain \in chain.retired \cup {chain.id}
  /\ \A k, m \in 1 .. Len(wsi.queue) : k < m =>
       /\ wsi.queue[k].chain <= wsi.queue[m].chain
       /\ <<wsi.queue[k].chain, wsi.queue[k].image>> # <<wsi.queue[m].chain, wsi.queue[m].image>>
  /\ path.at \in {"record", "present"} =>
       /\ path.image \in Images
       /\ <<chain.id, path.image>> \in wsi.held /\ ~ IsQueued(path.image)

(* Once the first image of a chain was taken, nothing of the retired chains is
   left to present, and that is when their retirement is decided. *)
OldPresentsTaken == \A k \in 1 .. Len(wsi.queue) : wsi.queue[k].chain = chain.id
RetirementSound ==
  /\ path.first # Unset => IsQueued(path.first) \/ OldPresentsTaken
  /\ path.retirement # 0 => OldPresentsTaken

PathInv == PathTyped /\ FramesCounted /\ ContextsSound /\ PresentsInOrder /\ RetirementSound

LEMMA PathNumbers ==
  /\ FrameContexts \in Nat \ {0} /\ PathFrames \in Nat /\ MaxChains \in Nat \ {0}
  /\ Sizes \subseteq Nat /\ Unset \notin Nat /\ Unset \notin Images
BY PresentPathAssumption DEF Images

LEMMA SlotTyped ==
  ASSUME PathTyped
  PROVE  Slot \in Slots /\ path.frame \in Nat
BY PathNumbers DEF PathTyped, PathRecord, Slot, Slots

(* A set of numbers has a smallest one. *)
LEMMA SmallestNumber ==
  ASSUME NEW T \in SUBSET Nat, T # {}
  PROVE  \E x \in T : \A y \in T : x <= y
<1>. DEFINE R == {ss \in Nat \X Nat : ss[1] < ss[2]}
<1>1. IsWellFoundedOn(R, Nat)
  BY NatLessThanWellFounded, Zenon DEF OpToRel
<1>2. \E x \in T : \A y \in T : ~ (<<y, x>> \in R)
  <2>. HIDE DEF R
  <2>. QED BY <1>1, WFMin
<1>3. PICK x \in T : \A y \in T : ~ (<<y, x>> \in R)
  BY <1>2
<1>4. ASSUME NEW y \in T, y < x
      PROVE  <<y, x>> \in R
  BY <1>4
<1>. HIDE DEF R
<1>5. \A y \in T : ~ (y < x)
  BY <1>3, <1>4
<1>. QED
  BY <1>5

(* The frames PollCompletedFrames takes are the first of the pending ones. *)
LEMMA DoneAre ==
  ASSUME PathTyped
  PROVE  /\ DoneInFront \in 0 .. Len(path.pending)
         /\ \A k \in 1 .. DoneInFront : IsCompleted(path.pending[k].value)
<1> DEFINE n == Len(path.pending)
           done == {k \in 1 .. n : \A m \in 1 .. k : IsCompleted(path.pending[m].value)}
           rest == (1 .. n + 1) \ done
<1>1. n \in Nat
  BY DEF PathTyped, PathRecord
<1>2. rest \in SUBSET Nat /\ n + 1 \in rest
  BY <1>1
<1>3. PICK p \in rest : \A y \in rest : p <= y
  BY <1>2, SmallestNumber
<1>4. p \in 1 .. n + 1
  BY <1>3
<1>5. done = 1 .. p - 1
  <2>1. \A k \in 1 .. p - 1 : k \in done
    BY <1>1, <1>3, <1>4
  <2>2. ASSUME NEW k \in done, k >= p
        PROVE  FALSE
    <3>1. p \in 1 .. n /\ \A m \in 1 .. p : IsCompleted(path.pending[m].value)
      BY <1>1, <1>4, <2>2
    <3>. QED
      BY <1>3, <3>1
  <2>. QED
    BY <1>1, <1>4, <2>1, <2>2
<1>6. Cardinality(done) = p - 1
  <2>1. p - 1 \in Int /\ 1 \in Int
    BY <1>1, <1>4
  <2>2. Cardinality(1 .. p - 1) = IF 1 > p - 1 THEN 0 ELSE p - 1 - 1 + 1
    BY <2>1, FS_Interval
  <2>3. Cardinality(1 .. p - 1) = p - 1
    BY <1>1, <1>4, <2>2
  <2>. QED
    BY <1>5, <2>3
<1>7. DoneInFront = p - 1
  BY <1>6 DEF DoneInFront
<1>8. \A k \in done : IsCompleted(path.pending[k].value)
  OBVIOUS
<1> HIDE DEF done
<1>. QED
  BY <1>1, <1>4, <1>5, <1>7, <1>8

(* A step in which nothing is polled, submitted or completed. *)
LEMMA CountsStay ==
  ASSUME PathInv, PathTyped', timeline' = timeline, reported' = reported,
         path'.frame = path.frame, path'.pending = path.pending,
         path'.at \in {"acquire", "record"} => path.at \in {"acquire", "record"}
  PROVE  FramesCounted'
BY DEF PathInv, FramesCounted

LEMMA PresentsStay ==
  ASSUME PathInv, wsi' = wsi, chain'.id = chain.id, chain'.retired = chain.retired,
         path'.at \in {"record", "present"} => path.at \in {"record", "present"}
                                               /\ path'.image = path.image,
         path'.first = path.first, path'.retirement = path.retirement
  PROVE  PresentsInOrder' /\ RetirementSound'
BY DEF PathInv, PresentsInOrder, RetirementSound, IsQueued, OldPresentsTaken

LEMMA PathStarts == PathInit => PathInv
<1> SUFFICES ASSUME PathInit PROVE PathInv
  OBVIOUS
<1>1. PICK surface \in Surfaces, size \in Sizes :
        /\ chain = MakeChain(1, surface, size)
        /\ path = [at |-> "idle", frame |-> 0, size |-> size, recreate |-> FALSE,
                   failed |-> FALSE, first |-> Unset, retirement |-> 0, last |-> 0,
                   pending |-> <<>>, image |-> Unset, suboptimal |-> FALSE]
  BY DEF PathInit
<1>2. /\ contexts = [s \in Slots |-> FreeContext]
      /\ timeline = [next |-> 1, done |-> 0]
      /\ wsi = [queue |-> <<>>, held |-> {}]
      /\ reported = <<>>
  BY DEF PathInit
<1>3. chain \in ChainRecord /\ chain.retired = {}
  BY <1>1, PathNumbers, PresentPathAssumption DEF MakeChain, ChainRecord, ChooseImageCount, Surface
<1>4. path \in PathRecord
  BY <1>1, PathNumbers DEF PathRecord
<1>5. PathTyped
  BY <1>2, <1>3, <1>4 DEF PathTyped, FreeContext, ContextRecord
<1>. QED
  BY <1>1, <1>2, <1>3, <1>5, PathNumbers
  DEF PathInv, FramesCounted, ContextsSound, FreeContext, PresentsInOrder, RetirementSound

LEMMA ChainMade ==
  ASSUME NEW id \in 1 .. MaxChains, NEW surface \in Surfaces, NEW size \in Sizes
  PROVE  /\ MakeChain(id, surface, size) \in ChainRecord
         /\ MakeChain(id, surface, size).id = id
BY PathNumbers, PresentPathAssumption DEF MakeChain, ChainRecord, ChooseImageCount, Surface

(* Polling moves frames from those pending to those reported. *)
PollStep ==
  /\ timeline' = timeline /\ path'.frame = path.frame
  /\ reported' = reported \o [k \in 1 .. DoneInFront |-> path.pending[k]]
  /\ path'.pending = SubSeq(path.pending, DoneInFront + 1, Len(path.pending))
  /\ path'.at \in {"acquire", "record"} => path.frame < PathFrames

LEMMA PollKeepsCounts ==
  ASSUME PathInv, PollStep
  PROVE  FramesCounted' /\ reported' \in Seq(Token) /\ path'.pending \in Seq(Token)
<1>14. PICK d \in 0 .. Len(path.pending) : d = DoneInFront
  BY DoneAre DEF PathInv
<1> DEFINE front == [k \in 1 .. d |-> path.pending[k]]
<1>1. PathTyped /\ FramesCounted
  BY DEF PathInv
<1>2. /\ path.pending \in Seq(Token) /\ reported \in Seq(Token)
      /\ path.frame \in Nat /\ timeline.done \in Nat /\ timeline.next \in Nat
  BY <1>1, SlotTyped DEF PathTyped, PathRecord
<1>3. d \in 0 .. Len(path.pending) /\ \A k \in 1 .. d : path.pending[k].value <= timeline.done
  <2>1. \A k \in 1 .. d : path.pending[k] \in Token /\ IsCompleted(path.pending[k].value)
    BY <1>1, <1>2, <1>14, DoneAre
  <2>. QED
    BY <1>1, <1>2, <2>1 DEF IsCompleted, Token
<1>4. front \in Seq(Token) /\ Len(front) = d
  BY <1>2, <1>3
<1>5. reported' = reported \o front /\ path'.pending = SubSeq(path.pending, d + 1, Len(path.pending))
  BY <1>14 DEF PollStep
<1>6. \A k \in 1 .. d : front[k] = path.pending[k]
  OBVIOUS
<1> HIDE DEF front
<1>7. /\ reported' \in Seq(Token) /\ Len(reported') = Len(reported) + d
      /\ \A k \in 1 .. Len(reported) : reported'[k] = reported[k]
      /\ \A k \in Len(reported) + 1 .. Len(reported) + d :
           reported'[k] = path.pending[k - Len(reported)]
  <2>1. /\ reported' \in Seq(Token) /\ Len(reported') = Len(reported) + d
        /\ \A k \in 1 .. Len(reported) + d :
             reported'[k] = IF k <= Len(reported) THEN reported[k] ELSE front[k - Len(reported)]
    BY <1>2, <1>3, <1>4, <1>5
  <2>2. Len(reported) \in Nat
    BY <1>2
  <2>. QED
    BY <1>3, <1>6, <2>1, <2>2
<1>8. /\ path'.pending \in Seq(Token) /\ Len(path'.pending) = Len(path.pending) - d
      /\ \A k \in 1 .. Len(path.pending) - d : path'.pending[k] = path.pending[d + k]
  BY <1>2, <1>3, <1>5
<1>9. Len(reported) \in Nat /\ Len(path.pending) \in Nat /\ d \in Nat /\ d <= Len(path.pending)
  <2>1. Len(reported) \in Nat /\ Len(path.pending) \in Nat
    BY <1>2
  <2>. QED
    BY <1>3, <2>1
<1>13. Len(reported') = Len(reported) + d /\ Len(path'.pending) = Len(path.pending) - d
  BY <1>7, <1>8
<1>10. \A k \in 1 .. Len(reported') :
         reported'[k].frame = k - 1 /\ reported'[k].value = k /\ k <= timeline.done
  <2> SUFFICES ASSUME NEW k \in 1 .. Len(reported')
               PROVE  reported'[k].frame = k - 1 /\ reported'[k].value = k /\ k <= timeline.done
    OBVIOUS
  <2>1. CASE k <= Len(reported)
    <3>1. k \in 1 .. Len(reported)
      BY <1>9, <1>13, <2>1
    <3>2. reported[k].frame = k - 1 /\ reported[k].value = k /\ k <= timeline.done
      BY <1>1, <3>1 DEF FramesCounted
    <3>. QED
      BY <1>7, <3>1, <3>2
  <2>2. CASE k > Len(reported)
    <3>1. k - Len(reported) \in 1 .. d /\ reported'[k] = path.pending[k - Len(reported)]
      BY <1>3, <1>7, <1>9, <2>2
    <3>2. /\ path.pending[k - Len(reported)].frame = Len(reported) + (k - Len(reported)) - 1
          /\ path.pending[k - Len(reported)].value = Len(reported) + (k - Len(reported))
      BY <1>1, <1>3, <1>9, <3>1 DEF FramesCounted
    <3>3. path.pending[k - Len(reported)].value <= timeline.done
      BY <1>3, <3>1
    <3>. QED
      BY <1>3, <1>7, <1>9, <3>1, <3>2, <3>3
  <2>. QED
    BY <1>3, <1>7, <1>9, <2>1, <2>2
<1>11. \A k \in 1 .. Len(path'.pending) :
         /\ path'.pending[k].frame = Len(reported') + k - 1
         /\ path'.pending[k].value = Len(reported') + k
  <2> SUFFICES ASSUME NEW k \in 1 .. Len(path'.pending)
               PROVE  /\ path'.pending[k].frame = Len(reported') + k - 1
                      /\ path'.pending[k].value = Len(reported') + k
    OBVIOUS
  <2>3. k \in Nat /\ 1 <= k /\ k <= Len(path.pending) - d
    BY <1>9, <1>13
  <2>1. d + k \in 1 .. Len(path.pending) /\ path'.pending[k] = path.pending[d + k]
    BY <1>8, <1>9, <2>3
  <2>2. /\ path.pending[d + k].frame = Len(reported) + (d + k) - 1
        /\ path.pending[d + k].value = Len(reported) + (d + k)
    BY <1>1, <2>1 DEF FramesCounted
  <2>. QED
    BY <1>9, <1>13, <2>1, <2>2, <2>3
<1>12. Len(reported') + Len(path'.pending) = path'.frame /\ timeline'.next = path'.frame + 1
  <2>1. Len(reported) + Len(path.pending) = path.frame /\ timeline.next = path.frame + 1
    BY <1>1 DEF FramesCounted
  <2>2. path'.frame = path.frame /\ timeline'.next = timeline.next
    BY DEF PollStep
  <2>3. Len(reported') + Len(path'.pending) = Len(reported) + Len(path.pending)
    <3>1. \A r, p \in Nat : (r + d) + (p - d) = r + p
      BY <1>9
    <3>2. (Len(reported) + d) + (Len(path.pending) - d) = Len(reported) + Len(path.pending)
      BY <1>9, <3>1
    <3>. QED
      BY <1>13, <3>2
  <2>. QED
    BY <2>1, <2>2, <2>3
<1>. QED
  <2>1. timeline' = timeline /\ path'.frame = path.frame
        /\ (path'.at \in {"acquire", "record"} => path.frame < PathFrames)
    BY DEF PollStep
  <2>. QED
    BY <1>7, <1>8, <1>10, <1>11, <1>12, <2>1 DEF FramesCounted

LEMMA ContextAcquired ==
  ASSUME PathInv, Acquirable(contexts[Slot]), contexts' = Acquired, timeline' = timeline,
         path'.frame = path.frame
  PROVE  ContextsSound' /\ contexts' \in [Slots -> ContextRecord]
<1>1. PathTyped /\ ContextsSound
  BY DEF PathInv
<1>2. Slot \in Slots /\ path.frame \in Nat
  BY <1>1, SlotTyped
<1>3. contexts \in [Slots -> ContextRecord] /\ contexts[Slot] \in ContextRecord
      /\ timeline.done \in Nat
  BY <1>1, <1>2 DEF PathTyped
<1>4. Slot' = Slot
  BY DEF Slot
<1> DEFINE c == [contexts[Slot] EXCEPT !.state = "acquired", !.frame = path.frame]
<1>5. c \in ContextRecord /\ c.state = "acquired" /\ c.lastUse = contexts[Slot].lastUse
  BY <1>2, <1>3 DEF ContextRecord
<1>6. contexts' = [contexts EXCEPT ![Slot] = c]
  BY <1>2, <1>3 DEF Acquired, ContextRecord
<1>7. contexts[Slot].lastUse <= timeline.done
  BY <1>1, <1>2, <1>3 DEF Acquirable, IsCompleted, ContextsSound, ContextRecord
<1> HIDE DEF c
<1>8. contexts' \in [Slots -> ContextRecord]
  BY <1>2, <1>3, <1>5, <1>6
<1>9. contexts'[Slot] = c /\ \A s \in Slots \ {Slot} : contexts'[s] = contexts[s]
  BY <1>2, <1>3, <1>6
<1>. QED
  BY <1>1, <1>2, <1>4, <1>5, <1>7, <1>8, <1>9 DEF ContextsSound

LEMMA ContextsStay ==
  ASSUME PathInv, contexts' = contexts, timeline'.done >= timeline.done, timeline'.done \in Nat,
         path'.at \in {"acquire", "record"} => path.at \in {"acquire", "record"}
                                               /\ path'.frame = path.frame
  PROVE  ContextsSound'
<1>1. PathTyped /\ ContextsSound
  BY DEF PathInv
<1>2. timeline.done \in Nat /\ \A s \in Slots : contexts[s].lastUse \in Nat
  BY <1>1 DEF PathTyped, ContextRecord
<1>3. path'.at \in {"acquire", "record"} => Slot' = Slot
  BY DEF Slot
<1>. QED
  BY <1>1, <1>2, <1>3 DEF ContextsSound

(* The retired chains go when nothing of them is left to present. *)
LEMMA PollKeepsPresents ==
  ASSUME PathInv, wsi' = wsi, chain'.id = chain.id, chain'.retired = RetiredLeft,
         path'.first = path.first, path'.retirement = RetirementLeft,
         path'.at \notin {"record", "present"}
  PROVE  PresentsInOrder' /\ RetirementSound'
<1>1. PresentsInOrder /\ RetirementSound
  BY DEF PathInv
<1>2. \A k \in 1 .. Len(wsi.queue) : wsi.queue[k].chain \in RetiredLeft \cup {chain.id}
  BY <1>1 DEF PresentsInOrder, RetirementSound, RetiredLeft, RetiredDone, OldPresentsTaken
<1>3. PresentsInOrder'
  BY <1>1, <1>2 DEF PresentsInOrder
<1>4. path'.retirement # 0 => path.retirement # 0
  BY DEF RetirementLeft
<1>5. RetirementSound'
  BY <1>1, <1>4 DEF RetirementSound, IsQueued, OldPresentsTaken
<1>. QED
  BY <1>3, <1>5

LEMMA RecreationKeepsPresents ==
  ASSUME PathInv, wsi' = wsi, chain'.id = chain.id + 1,
         chain'.retired = RetiredLeft \cup {chain.id},
         path'.first = Unset, path'.retirement = 0, path'.at \notin {"record", "present"}
  PROVE  PresentsInOrder' /\ RetirementSound'
<1>1. PresentsInOrder /\ RetirementSound
  BY DEF PathInv
<1>2. \A k \in 1 .. Len(wsi.queue) : wsi.queue[k].chain \in RetiredLeft \cup {chain.id}
  BY <1>1 DEF PresentsInOrder, RetirementSound, RetiredLeft, RetiredDone, OldPresentsTaken
<1>3. PresentsInOrder'
  BY <1>1, <1>2 DEF PresentsInOrder
<1>. QED
  BY <1>3 DEF RetirementSound

LEMMA PollIsTyped ==
  ASSUME PathInv
  PROVE  /\ RetirementLeft \in Nat /\ RetiredLeft \subseteq 1 .. chain.id - 1
         /\ Polled.pending = SubSeq(path.pending, DoneInFront + 1, Len(path.pending))
         /\ SubSeq(path.pending, DoneInFront + 1, Len(path.pending)) \in Seq(Token)
         /\ Polled \in PathRecord
         /\ Polled.frame = path.frame /\ Polled.at = path.at /\ Polled.first = path.first
         /\ Polled.retirement = RetirementLeft
<1>1. path \in PathRecord /\ chain.retired \subseteq 1 .. chain.id - 1
  BY DEF PathInv, PathTyped
<1>2. path.pending \in Seq(Token) /\ path.retirement \in Nat
  BY <1>1 DEF PathRecord
<1>3. DoneInFront \in 0 .. Len(path.pending)
  BY DoneAre DEF PathInv
<1>4. SubSeq(path.pending, DoneInFront + 1, Len(path.pending)) \in Seq(Token)
  BY <1>2, <1>3
<1>5. RetirementLeft \in Nat /\ RetiredLeft \subseteq 1 .. chain.id - 1
  BY <1>1, <1>2 DEF RetirementLeft, RetiredLeft
<1>. QED
  BY <1>1, <1>4, <1>5 DEF Polled, PathRecord

LEMMA RenderKeepsPath ==
  ASSUME PathInv, RenderBegins
  PROVE  PathInv'
<1>1. PathTyped
  BY DEF PathInv
<1>2. path.at = "idle" /\ path.frame < PathFrames
  BY DEF RenderBegins, MayRender
<1>3. /\ timeline' = timeline /\ wsi' = wsi
      /\ reported' = reported \o [k \in 1 .. DoneInFront |-> path.pending[k]]
  BY DEF RenderBegins
<1> DEFINE released == [chain EXCEPT !.retired = RetiredLeft]
           New(surface) == MakeChain(chain.id + 1, surface, path.size)
<1>4. /\ released \in ChainRecord /\ released.id = chain.id /\ released.retired = RetiredLeft
      /\ [released EXCEPT !.suspended = TRUE] \in ChainRecord
      /\ [released EXCEPT !.suspended = TRUE].id = chain.id
      /\ [released EXCEPT !.suspended = TRUE].retired = RetiredLeft
      /\ Unreplaced(released) \in ChainRecord
      /\ Unreplaced(released).id = chain.id /\ Unreplaced(released).retired = RetiredLeft
  <2>1. chain \in ChainRecord /\ RetiredLeft \in SUBSET Nat
    BY <1>1, PollIsTyped DEF PathTyped, ChainRecord
  <2>2. released \in ChainRecord /\ released.id = chain.id /\ released.retired = RetiredLeft
    BY <2>1 DEF ChainRecord
  <2> HIDE DEF released
  <2>. QED
    BY <2>2 DEF ChainRecord, Unreplaced
<1> HIDE DEF released
(* The chain stays but for what it retired. *)
<1>5. ASSUME path' \in PathRecord, chain' \in ChainRecord, contexts' \in [Slots -> ContextRecord],
             chain'.id = chain.id, chain'.retired = RetiredLeft,
             path'.frame = path.frame, path'.first = path.first,
             path'.retirement = RetirementLeft, path'.at \in {"idle", "acquire"},
             path'.pending = Polled.pending, ContextsSound'
      PROVE  PathInv'
  <2>1. PollStep
    BY <1>2, <1>3, <1>5, PollIsTyped DEF PollStep
  <2>2. FramesCounted' /\ reported' \in Seq(Token)
    BY <2>1, PollKeepsCounts
  <2>3. PresentsInOrder' /\ RetirementSound'
    BY <1>3, <1>5, PollKeepsPresents
  <2>4. PathTyped'
    BY <1>1, <1>3, <1>5, <2>2, PollIsTyped DEF PathTyped
  <2>. QED
    BY <1>5, <2>2, <2>3, <2>4 DEF PathInv
(* The chain is replaced. *)
<1>6. ASSUME path' \in PathRecord, chain' \in ChainRecord, contexts' \in [Slots -> ContextRecord],
             chain'.id = chain.id + 1, chain'.retired = RetiredLeft \cup {chain.id},
             path'.frame = path.frame, path'.first = Unset,
             path'.retirement = 0, path'.at \in {"idle", "acquire"},
             path'.pending = Polled.pending, ContextsSound'
      PROVE  PathInv'
  <2>1. PollStep
    BY <1>2, <1>3, <1>6, PollIsTyped DEF PollStep
  <2>2. FramesCounted' /\ reported' \in Seq(Token)
    BY <2>1, PollKeepsCounts
  <2>3. PresentsInOrder' /\ RetirementSound'
    BY <1>3, <1>6, RecreationKeepsPresents
  <2>4. chain'.retired \subseteq 1 .. chain'.id - 1
    <3>1. chain.id \in Nat /\ chain.id >= 1
      BY <1>1, PathNumbers DEF PathTyped, ChainRecord
    <3>. QED
      BY <1>6, <3>1, PollIsTyped
  <2>5. PathTyped'
    BY <1>1, <1>3, <1>6, <2>2, <2>4 DEF PathTyped
  <2>. QED
    BY <1>6, <2>2, <2>3, <2>5 DEF PathInv
<1>7. contexts \in [Slots -> ContextRecord] /\ timeline.done \in Nat
  BY <1>1 DEF PathTyped
<1>8. contexts' = contexts /\ path'.at = "idle" => ContextsSound' /\ contexts' \in [Slots -> ContextRecord]
  BY <1>3, <1>7, ContextsStay
<1>9. Acquirable(contexts[Slot]) /\ contexts' = Acquired /\ path'.frame = path.frame =>
        ContextsSound' /\ contexts' \in [Slots -> ContextRecord]
  BY <1>3, ContextAcquired
<1>10. CASE \/ /\ chain' = [released EXCEPT !.suspended = TRUE]
               /\ path' = [Polled EXCEPT !.recreate = TRUE]
               /\ contexts' = contexts
            \/ path' = Polled /\ chain' = released /\ contexts' = contexts
            \/ /\ path' = [Polled EXCEPT !.failed = TRUE, !.at = "idle"]
               /\ chain' = Unreplaced(released) /\ contexts' = contexts
  <2>1. /\ path' \in PathRecord /\ path'.frame = path.frame /\ path'.first = path.first
        /\ path'.retirement = RetirementLeft /\ path'.at = "idle"
        /\ path'.pending = Polled.pending
    <3> DEFINE q == Polled
    <3>1. q \in PathRecord /\ q.frame = path.frame /\ q.at = "idle" /\ q.first = path.first
          /\ q.retirement = RetirementLeft
      BY <1>2, PollIsTyped
    <3>2. \/ path' = [q EXCEPT !.recreate = TRUE] \/ path' = q
          \/ path' = [q EXCEPT !.failed = TRUE, !.at = "idle"]
      BY <1>10
    <3> HIDE DEF q
    <3>3. path' \in PathRecord /\ path'.frame = path.frame /\ path'.first = path.first
          /\ path'.retirement = RetirementLeft /\ path'.at = "idle" /\ path'.pending = q.pending
      BY <3>1, <3>2 DEF PathRecord
    <3>. QED
      BY <3>3 DEF q
  <2>2. chain' \in ChainRecord /\ chain'.id = chain.id /\ chain'.retired = RetiredLeft
    BY <1>4, <1>10
  <2>3. ContextsSound' /\ contexts' \in [Slots -> ContextRecord]
    BY <1>8, <1>10, <2>1
  <2>. QED
    BY <1>5, <2>1, <2>2, <2>3
<1>11. CASE /\ Acquirable(contexts[Slot]) /\ contexts' = Acquired
            /\ path' = [Polled EXCEPT !.at = "acquire"] /\ chain' = released
  <2>1. /\ path' \in PathRecord /\ path'.frame = path.frame /\ path'.first = path.first
        /\ path'.retirement = RetirementLeft /\ path'.at = "acquire"
        /\ path'.pending = Polled.pending
    <3> DEFINE q == Polled
    <3>1. q \in PathRecord /\ q.frame = path.frame /\ q.first = path.first
          /\ q.retirement = RetirementLeft
      BY PollIsTyped
    <3>2. path' = [q EXCEPT !.at = "acquire"]
      BY <1>11
    <3> HIDE DEF q
    <3>3. path' \in PathRecord /\ path'.frame = path.frame /\ path'.first = path.first
          /\ path'.retirement = RetirementLeft /\ path'.at = "acquire" /\ path'.pending = q.pending
      BY <3>1, <3>2 DEF PathRecord
    <3>. QED
      BY <3>3 DEF q
  <2>2. ContextsSound' /\ contexts' \in [Slots -> ContextRecord]
    BY <1>9, <1>11, <2>1
  <2>. QED
    BY <1>4, <1>5, <1>11, <2>1, <2>2
<1>12. ASSUME NEW surface \in Surfaces, chain.id < MaxChains, path.size # 0,
              Recreation(New(surface), RetiredLeft),
              contexts' = IF path'.at = "acquire" THEN Acquired ELSE contexts
       PROVE  PathInv'
  <2> DEFINE new == New(surface)
  <2>1. new \in ChainRecord /\ new.id = chain.id + 1
    <3>1. chain.id + 1 \in 1 .. MaxChains /\ path.size \in Sizes
      BY <1>1, <1>12, PathNumbers DEF PathTyped, ChainRecord, PathRecord
    <3>. QED
      BY <3>1, ChainMade
  <2>2. chain' = Replaced(new, RetiredLeft)
        /\ path' = [path EXCEPT !.first = Unset, !.retirement = 0,
                       !.recreate = new.suspended,
                       !.pending = SubSeq(path.pending, DoneInFront + 1, Len(path.pending)),
                       !.at = IF ~new.suspended /\ Acquirable(contexts[Slot])
                              THEN "acquire" ELSE "idle"]
    BY <1>12 DEF Recreation
  <2> HIDE DEF new
  <2>3. chain' \in ChainRecord /\ chain'.id = chain.id + 1
        /\ chain'.retired = RetiredLeft \cup {chain.id}
    <3>1. RetiredLeft \cup {chain.id} \in SUBSET Nat
      BY <1>1, PollIsTyped, PathNumbers DEF PathTyped, ChainRecord
    <3>. QED
      BY <2>1, <2>2, <3>1 DEF Replaced, ChainRecord
  <2>4. /\ path' \in PathRecord /\ path'.frame = path.frame /\ path'.first = Unset
        /\ path'.retirement = 0 /\ path'.at \in {"idle", "acquire"}
        /\ path'.at = "acquire" => Acquirable(contexts[Slot])
    <3>1. new.suspended \in BOOLEAN
      BY <2>1 DEF ChainRecord
    <3>2. path \in PathRecord
      BY <1>1 DEF PathTyped
    <3>. QED
      BY <2>2, <3>1, <3>2, PollIsTyped DEF PathRecord
  <2>5. path'.pending = Polled.pending
    <3>1. path \in PathRecord
      BY <1>1 DEF PathTyped
    <3>. QED
      BY <2>2, <3>1, PollIsTyped DEF PathRecord
  <2>6. ContextsSound' /\ contexts' \in [Slots -> ContextRecord]
    BY <1>8, <1>9, <1>12, <2>4
  <2>. QED
    BY <1>6, <2>3, <2>4, <2>5, <2>6
<1>. QED
  BY <1>10, <1>11, <1>12 DEF RenderBegins, Fails, released

LEMMA ResizeKeepsPath ==
  ASSUME PathInv, NEW size \in Sizes, SetFramebufferSize(size)
  PROVE  PathInv'
<1>1. PathTyped
  BY DEF PathInv
<1>2. /\ path.at = "idle" /\ path' = [path EXCEPT !.size = size, !.recreate = TRUE]
      /\ chain' = chain /\ contexts' = contexts /\ timeline' = timeline
      /\ wsi' = wsi /\ reported' = reported
  BY DEF SetFramebufferSize
<1>3. /\ path' \in PathRecord /\ path'.at = "idle" /\ path'.frame = path.frame
      /\ path'.pending = path.pending /\ path'.first = path.first
      /\ path'.retirement = path.retirement
  BY <1>1, <1>2 DEF PathTyped, PathRecord
<1>4. PathTyped'
  BY <1>1, <1>2, <1>3 DEF PathTyped
<1>5. FramesCounted'
  BY <1>2, <1>3, <1>4, CountsStay
<1>6. timeline.done \in Nat
  BY <1>1 DEF PathTyped
<1>7. ContextsSound'
  BY <1>2, <1>3, <1>6, ContextsStay
<1>8. PresentsInOrder' /\ RetirementSound'
  BY <1>2, <1>3, PresentsStay
<1>. QED
  BY <1>4, <1>5, <1>7, <1>8 DEF PathInv

(* ReleaseAcquired frees the context the frame had acquired. *)
LEMMA ContextReleased ==
  ASSUME PathInv, path.at \in {"acquire", "record"}, contexts' = PathReleased,
         timeline' = timeline, path'.at = "idle"
  PROVE  ContextsSound' /\ contexts' \in [Slots -> ContextRecord]
<1>1. PathTyped /\ ContextsSound
  BY DEF PathInv
<1>2. Slot \in Slots
  BY <1>1, SlotTyped
<1>3. contexts \in [Slots -> ContextRecord] /\ contexts[Slot] \in ContextRecord
  BY <1>1, <1>2 DEF PathTyped
<1> DEFINE c == [contexts[Slot] EXCEPT !.state = "free", !.value = 0]
<1>4. c \in ContextRecord /\ c.state = "free" /\ c.lastUse = contexts[Slot].lastUse
  BY <1>3 DEF ContextRecord
<1>5. contexts' = [contexts EXCEPT ![Slot] = c]
  BY <1>2, <1>3 DEF PathReleased, ContextRecord
<1>6. contexts[Slot].lastUse <= timeline.done
  BY <1>1, <1>2 DEF ContextsSound
<1> HIDE DEF c
<1>7. contexts' \in [Slots -> ContextRecord]
  BY <1>2, <1>3, <1>4, <1>5
<1>8. contexts'[Slot] = c /\ \A s \in Slots \ {Slot} : contexts'[s] = contexts[s]
  BY <1>2, <1>3, <1>5
<1>. QED
  BY <1>1, <1>2, <1>4, <1>6, <1>7, <1>8 DEF ContextsSound

(* A frame that ends without a submission leaves everything but the context. *)
LEMMA GivingUpKeepsPath ==
  ASSUME PathInv, path.at \in {"acquire", "record"}, contexts' = PathReleased,
         timeline' = timeline, wsi' = wsi, reported' = reported, chain' = chain,
         path' \in PathRecord, path'.at = "idle", path'.frame = path.frame,
         path'.pending = path.pending, path'.first = path.first,
         path'.retirement = path.retirement
  PROVE  PathInv'
<1>1. PathTyped
  BY DEF PathInv
<1>2. ContextsSound' /\ contexts' \in [Slots -> ContextRecord]
  BY ContextReleased
<1>3. PathTyped'
  BY <1>1, <1>2 DEF PathTyped
<1>4. FramesCounted'
  BY <1>3, CountsStay
<1>5. PresentsInOrder' /\ RetirementSound'
  BY PresentsStay
<1>. QED
  BY <1>2, <1>3, <1>4, <1>5 DEF PathInv

LEMMA AcquireKeepsPath ==
  ASSUME PathInv, AcquireNextImage
  PROVE  PathInv'
<1>1. PathTyped /\ PresentsInOrder
  BY DEF PathInv
<1>2. /\ path.at = "acquire" /\ timeline' = timeline /\ reported' = reported /\ chain' = chain
      /\ path \in PathRecord
  BY <1>1 DEF AcquireNextImage, PathTyped
<1>3. ASSUME NEW image \in 1 .. chain.images, NEW suboptimal \in BOOLEAN,
             <<chain.id, image>> \notin wsi.held,
             wsi' = [wsi EXCEPT !.held = wsi.held \cup {<<chain.id, image>>}],
             path' = [path EXCEPT !.at = "record", !.image = image, !.suboptimal = suboptimal],
             contexts' = contexts
      PROVE  PathInv'
  <2>1. image \in Images /\ chain.id \in Nat
    BY <1>1, PathNumbers DEF PathTyped, ChainRecord, Images
  <2>2. /\ path' \in PathRecord /\ path'.at = "record" /\ path'.image = image
        /\ path'.frame = path.frame /\ path'.pending = path.pending
        /\ path'.first = path.first /\ path'.retirement = path.retirement
    BY <1>2, <1>3, <2>1 DEF PathRecord
  <2>3. /\ wsi' \in [queue : Seq(PresentRecord), held : SUBSET (Nat \X Images)]
        /\ wsi'.queue = wsi.queue /\ wsi'.held = wsi.held \cup {<<chain.id, image>>}
    <3>1. wsi \in [queue : Seq(PresentRecord), held : SUBSET (Nat \X Images)]
      BY <1>1 DEF PathTyped
    <3>. QED
      BY <1>3, <2>1, <3>1
  <2>4. PathTyped'
    BY <1>1, <1>2, <1>3, <2>2, <2>3 DEF PathTyped
  <2>5. FramesCounted'
    BY <1>2, <2>2, <2>4, CountsStay
  <2>6. timeline.done \in Nat
    BY <1>1 DEF PathTyped
  <2>7. ContextsSound'
    BY <1>2, <1>3, <2>2, <2>6, ContextsStay
  <2>8. ~ IsQueued(image)
    BY <1>1, <1>3 DEF PresentsInOrder, IsQueued
  <2>9. PresentsInOrder'
    BY <1>1, <1>2, <2>1, <2>2, <2>3, <2>8 DEF PresentsInOrder, IsQueued
  <2>10. RetirementSound'
    BY <1>2, <2>2, <2>3 DEF PathInv, RetirementSound, IsQueued, OldPresentsTaken
  <2>. QED
    BY <2>4, <2>5, <2>7, <2>9, <2>10 DEF PathInv
<1>4. ASSUME NEW answer \in Declined,
             path' = [path EXCEPT !.at = "idle",
                                  !.recreate = path.recreate \/ answer = "out_of_date"],
             contexts' = PathReleased, wsi' = wsi
      PROVE  PathInv'
  <2>1. /\ path' \in PathRecord /\ path'.at = "idle" /\ path'.frame = path.frame
        /\ path'.pending = path.pending /\ path'.first = path.first
        /\ path'.retirement = path.retirement
    <3>1. (path.recreate \/ answer = "out_of_date") \in BOOLEAN
      BY <1>2 DEF PathRecord
    <3>. QED
      BY <1>2, <1>4, <3>1 DEF PathRecord
  <2>. QED
    BY <1>2, <1>4, <2>1, GivingUpKeepsPath
<1>5. ASSUME Fails(path), contexts' = PathReleased, wsi' = wsi
      PROVE  PathInv'
  <2>1. /\ path' \in PathRecord /\ path'.at = "idle" /\ path'.frame = path.frame
        /\ path'.pending = path.pending /\ path'.first = path.first
        /\ path'.retirement = path.retirement
    BY <1>2, <1>5 DEF PathRecord, Fails
  <2>. QED
    BY <1>2, <1>5, <2>1, GivingUpKeepsPath
<1>. QED
  BY <1>3, <1>4, <1>5 DEF AcquireNextImage

LEMMA SubmittedContext ==
  ASSUME PathInv, path.at = "record", contexts' = InFlight(timeline.next),
         timeline'.done = timeline.done, path'.at = "present"
  PROVE  ContextsSound' /\ contexts' \in [Slots -> ContextRecord]
<1>1. PathTyped /\ ContextsSound
  BY DEF PathInv
<1>2. Slot \in Slots /\ timeline.next \in Nat
  BY <1>1, SlotTyped DEF PathTyped
<1>3. contexts \in [Slots -> ContextRecord] /\ contexts[Slot] \in ContextRecord
  BY <1>1, <1>2 DEF PathTyped
<1> DEFINE c == [contexts[Slot] EXCEPT !.state = "in_flight", !.value = timeline.next,
                                       !.lastUse = timeline.next]
<1>4. c \in ContextRecord /\ c.state = "in_flight" /\ c.lastUse = c.value
  BY <1>2, <1>3 DEF ContextRecord
<1>5. contexts' = [contexts EXCEPT ![Slot] = c]
  BY <1>2, <1>3 DEF InFlight, ContextRecord
<1> HIDE DEF c
<1>6. contexts' \in [Slots -> ContextRecord]
  BY <1>2, <1>3, <1>4, <1>5
<1>7. contexts'[Slot] = c /\ \A s \in Slots \ {Slot} : contexts'[s] = contexts[s]
  BY <1>2, <1>3, <1>5
<1>. QED
  BY <1>1, <1>2, <1>4, <1>6, <1>7 DEF ContextsSound

LEMMA RecordKeepsPath ==
  ASSUME PathInv, RecordAndSubmit
  PROVE  PathInv'
<1>1. PathTyped /\ PresentsInOrder /\ FramesCounted /\ RetirementSound
  BY DEF PathInv
<1>2. /\ path.at = "record" /\ wsi' = wsi /\ reported' = reported /\ chain' = chain
      /\ path \in PathRecord
  BY <1>1 DEF RecordAndSubmit, PathTyped
<1>3. ASSUME TakesValue, Submitted(timeline.next)
      PROVE  PathInv'
  <2> DEFINE tok == [frame |-> path.frame, value |-> timeline.next]
             decided == IF path.first = path.image /\ chain.retired # {} /\ path.retirement = 0
                        THEN timeline.next ELSE path.retirement
  <2>1. /\ timeline.next \in Nat /\ timeline.done \in Nat /\ timeline.done < timeline.next
        /\ path.frame \in Nat /\ path.pending \in Seq(Token) /\ path.frame < PathFrames
        /\ reported \in Seq(Token) /\ path.retirement \in Nat
    BY <1>1, <1>2, SlotTyped DEF PathTyped, PathRecord, FramesCounted
  <2>2. timeline' \in [next : Nat, done : Nat] /\ timeline'.next = timeline.next + 1
        /\ timeline'.done = timeline.done
    <3>1. timeline \in [next : Nat, done : Nat]
      BY <1>1 DEF PathTyped
    <3>. QED
      BY <1>3, <3>1 DEF TakesValue
  <2>3. tok \in Token /\ tok.frame = path.frame /\ tok.value = timeline.next /\ decided \in Nat
    BY <2>1 DEF Token
  <2>4. path' = [path EXCEPT !.at = "present", !.last = timeline.next, !.frame = path.frame + 1,
                   !.retirement = decided, !.pending = Append(path.pending, tok)]
    BY <1>3 DEF Submitted
  <2> HIDE DEF tok
  <2>5. Append(path.pending, tok) \in Seq(Token)
    BY <2>1, <2>3
  <2>6. /\ path' \in PathRecord /\ path'.at = "present" /\ path'.frame = path.frame + 1
        /\ path'.first = path.first /\ path'.image = path.image
        /\ path'.retirement = decided
    <3> HIDE DEF decided
    <3>1. path.frame + 1 \in 0 .. PathFrames
      BY <2>1, PathNumbers
    <3>. QED
      BY <1>2, <2>1, <2>3, <2>4, <2>5, <3>1 DEF PathRecord
  <2>7. path'.pending = Append(path.pending, tok)
    <3> HIDE DEF decided
    <3>. QED
      BY <1>2, <2>4 DEF PathRecord
  <2>8. ContextsSound' /\ contexts' \in [Slots -> ContextRecord]
    BY <1>2, <1>3, <2>2, <2>6, SubmittedContext DEF Submitted
  <2>9. PathTyped'
    BY <1>1, <1>2, <2>1, <2>2, <2>6, <2>8 DEF PathTyped
  <2>10. FramesCounted'
    <3>1. Len(reported) + Len(path.pending) = path.frame /\ timeline.next = path.frame + 1
      BY <1>1 DEF FramesCounted
    <3>2. Len(reported) \in Nat /\ Len(path.pending) \in Nat
      BY <2>1
    <3>3. /\ Len(path'.pending) = Len(path.pending) + 1
          /\ \A k \in 1 .. Len(path.pending) : path'.pending[k] = path.pending[k]
          /\ path'.pending[Len(path.pending) + 1] = tok
      BY <2>1, <2>3, <2>7
    <3>4. timeline'.next = path'.frame + 1
      BY <2>1, <2>2, <2>6, <3>1
    <3>5. Len(reported') + Len(path'.pending) = path'.frame
      <4>1. \A r, p, f \in Nat : r + p = f => r + (p + 1) = f + 1
        OBVIOUS
      <4>2. Len(reported) + (Len(path.pending) + 1) = path.frame + 1
        BY <2>1, <3>1, <3>2, <4>1
      <4>. QED
        BY <1>2, <2>6, <3>3, <4>2
    <3>6. \A k \in 1 .. Len(reported') :
            reported'[k].frame = k - 1 /\ reported'[k].value = k /\ k <= timeline'.done
      BY <1>1, <1>2, <2>2 DEF FramesCounted
    <3>7. \A k \in 1 .. Len(path'.pending) :
            /\ path'.pending[k].frame = Len(reported') + k - 1
            /\ path'.pending[k].value = Len(reported') + k
      <4> SUFFICES ASSUME NEW k \in 1 .. Len(path'.pending)
                   PROVE  /\ path'.pending[k].frame = Len(reported') + k - 1
                          /\ path'.pending[k].value = Len(reported') + k
        OBVIOUS
      <4>1. k \in Nat /\ 1 <= k /\ k <= Len(path.pending) + 1
        BY <3>2, <3>3
      <4>2. CASE k <= Len(path.pending)
        <5>1. k \in 1 .. Len(path.pending)
          BY <3>2, <4>1, <4>2
        <5>. QED
          BY <1>1, <1>2, <3>3, <5>1 DEF FramesCounted
      <4>3. CASE k = Len(path.pending) + 1
        <5>1. path'.pending[k] = tok
          BY <3>3, <4>3
        <5>2. tok.frame = Len(reported) + k - 1 /\ tok.value = Len(reported) + k
          <6>1. \A r, p, f \in Nat : r + p = f => /\ f = r + (p + 1) - 1 /\ f + 1 = r + (p + 1)
            OBVIOUS
          <6>2. path.frame = Len(reported) + (Len(path.pending) + 1) - 1
                /\ path.frame + 1 = Len(reported) + (Len(path.pending) + 1)
            BY <2>1, <3>1, <3>2, <6>1
          <6>. QED
            BY <2>3, <3>1, <4>3, <6>2
        <5>. QED
          BY <1>2, <5>1, <5>2
      <4>. QED
        BY <3>2, <4>1, <4>2, <4>3
    <3>. QED
      BY <2>6, <3>4, <3>5, <3>6, <3>7 DEF FramesCounted
  <2>11. PresentsInOrder'
    BY <1>1, <1>2, <2>6 DEF PresentsInOrder, IsQueued
  <2>12. RetirementSound'
    <3>1. (path.first # Unset => IsQueued(path.first) \/ OldPresentsTaken)'
      BY <1>1, <1>2, <2>6 DEF RetirementSound, IsQueued, OldPresentsTaken
    <3>2. path'.retirement # 0 => OldPresentsTaken
      <4>1. path.image \in Images /\ ~ IsQueued(path.image)
        BY <1>1, <1>2 DEF PresentsInOrder
      <4>2. path.first = path.image => OldPresentsTaken
        BY <1>1, <4>1, PathNumbers DEF RetirementSound
      <4>. QED
        BY <1>1, <2>6, <4>2 DEF RetirementSound
    <3>3. OldPresentsTaken => OldPresentsTaken'
      BY <1>2 DEF OldPresentsTaken
    <3>. QED
      BY <1>1, <1>2, <2>6, <3>1, <3>2, <3>3 DEF RetirementSound, IsQueued
  <2>. QED
    BY <2>8, <2>9, <2>10, <2>11, <2>12 DEF PathInv
<1>4. ASSUME Fails(path), contexts' = PathReleased, timeline' = timeline
      PROVE  PathInv'
  <2>1. /\ path' \in PathRecord /\ path'.at = "idle" /\ path'.frame = path.frame
        /\ path'.pending = path.pending /\ path'.first = path.first
        /\ path'.retirement = path.retirement
    BY <1>2, <1>4 DEF PathRecord, Fails
  <2>. QED
    BY <1>2, <1>4, <2>1, GivingUpKeepsPath
<1>. QED
  BY <1>3, <1>4 DEF RecordAndSubmit

LEMMA PresentKeepsPath ==
  ASSUME PathInv, Present
  PROVE  PathInv'
<1>1. PathTyped /\ PresentsInOrder /\ RetirementSound
  BY DEF PathInv
<1>2. /\ path.at = "present" /\ contexts' = contexts /\ timeline' = timeline
      /\ reported' = reported /\ chain' = chain
      /\ path \in PathRecord /\ timeline.done \in Nat
  BY <1>1 DEF Present, PathTyped
<1>3. /\ path.image \in Images /\ chain.id \in Nat /\ path.last \in Nat
      /\ <<chain.id, path.image>> \in wsi.held /\ ~ IsQueued(path.image)
  BY <1>1, <1>2, PathNumbers DEF PathTyped, PathRecord, ChainRecord, PresentsInOrder
<1>4. ASSUME NEW answer \in PresentStatus,
             wsi' = [wsi EXCEPT !.queue = Append(wsi.queue, [chain |-> chain.id,
                                    image |-> path.image, value |-> path.last])],
             path' = [path EXCEPT
                 !.at = "idle", !.image = Unset,
                 !.first = IF path.first = Unset /\ answer # "out_of_date"
                           THEN path.image ELSE path.first,
                 !.recreate = path.suboptimal \/ answer \in {"suboptimal", "out_of_date"}]
      PROVE  PathInv'
  <2> DEFINE p == [chain |-> chain.id, image |-> path.image, value |-> path.last]
  <2>1. p \in PresentRecord /\ p.chain = chain.id /\ p.image = path.image
    BY <1>3 DEF PresentRecord
  <2>2. wsi.queue \in Seq(PresentRecord) /\ Len(wsi.queue) \in Nat
        /\ wsi \in [queue : Seq(PresentRecord), held : SUBSET (Nat \X Images)]
    BY <1>1 DEF PathTyped
  <2>3. wsi' = [wsi EXCEPT !.queue = Append(wsi.queue, p)]
    BY <1>4
  <2> HIDE DEF p
  <2>4. /\ wsi' \in [queue : Seq(PresentRecord), held : SUBSET (Nat \X Images)]
        /\ wsi'.queue = Append(wsi.queue, p) /\ wsi'.held = wsi.held
    <3> DEFINE longer == Append(wsi.queue, p)
    <3>1. longer \in Seq(PresentRecord) /\ wsi' = [wsi EXCEPT !.queue = longer]
      BY <2>1, <2>2, <2>3
    <3> HIDE DEF longer
    <3>2. /\ wsi' \in [queue : Seq(PresentRecord), held : SUBSET (Nat \X Images)]
          /\ wsi'.queue = longer /\ wsi'.held = wsi.held
      BY <2>2, <3>1
    <3>. QED
      BY <3>2 DEF longer
  <2>5. /\ Len(wsi'.queue) = Len(wsi.queue) + 1
        /\ \A k \in 1 .. Len(wsi.queue) : wsi'.queue[k] = wsi.queue[k]
        /\ wsi'.queue[Len(wsi.queue) + 1] = p
    BY <2>1, <2>2, <2>4
  <2>6. (path.suboptimal \/ answer \in {"suboptimal", "out_of_date"}) \in BOOLEAN
    BY <1>2 DEF PathRecord
  <2>7. /\ path' \in PathRecord /\ path'.at = "idle" /\ path'.frame = path.frame
        /\ path'.pending = path.pending /\ path'.retirement = path.retirement
        /\ path'.first \in {path.first, path.image}
    BY <1>2, <1>3, <1>4, <2>6 DEF PathRecord
  <2>15. path.first # Unset => path'.first = path.first
    BY <1>2, <1>4 DEF PathRecord
  <2>8. PathTyped'
    BY <1>1, <1>2, <2>4, <2>7 DEF PathTyped
  <2>9. FramesCounted'
    BY <1>2, <2>7, <2>8, CountsStay
  <2>10. ContextsSound'
    BY <1>2, <2>7, ContextsStay
  <2>11. \A k \in 1 .. Len(wsi'.queue) : k \in 1 .. Len(wsi.queue) \/ k = Len(wsi.queue) + 1
    BY <2>2, <2>5
  <2>12. \A k \in 1 .. Len(wsi.queue) :
           /\ wsi.queue[k].chain \in chain.retired \cup {chain.id}
           /\ wsi.queue[k].chain <= chain.id
           /\ <<wsi.queue[k].chain, wsi.queue[k].image>> # <<chain.id, path.image>>
    <3>1. \A j \in chain.retired \cup {chain.id} : j <= chain.id
      BY <1>1, <1>3 DEF PathTyped
    <3>2. \A k \in 1 .. Len(wsi.queue) : wsi.queue[k].chain \in chain.retired \cup {chain.id}
      BY <1>1 DEF PresentsInOrder
    <3>3. \A k \in 1 .. Len(wsi.queue) :
            ~ (wsi.queue[k].chain = chain.id /\ wsi.queue[k].image = path.image)
      BY <1>3 DEF IsQueued
    <3>. QED
      BY <3>1, <3>2, <3>3
  <2>13. PresentsInOrder'
    <3>1. \A k \in 1 .. Len(wsi'.queue) :
            /\ <<wsi'.queue[k].chain, wsi'.queue[k].image>> \in wsi'.held
            /\ wsi'.queue[k].chain \in chain'.retired \cup {chain'.id}
      BY <1>1, <1>2, <1>3, <2>1, <2>4, <2>5, <2>11 DEF PresentsInOrder
    <3>2. \A k, m \in 1 .. Len(wsi'.queue) : k < m =>
            /\ wsi'.queue[k].chain <= wsi'.queue[m].chain
            /\ <<wsi'.queue[k].chain, wsi'.queue[k].image>>
                 # <<wsi'.queue[m].chain, wsi'.queue[m].image>>
      <4> SUFFICES ASSUME NEW k \in 1 .. Len(wsi'.queue), NEW m \in 1 .. Len(wsi'.queue), k < m
                   PROVE  /\ wsi'.queue[k].chain <= wsi'.queue[m].chain
                          /\ <<wsi'.queue[k].chain, wsi'.queue[k].image>>
                               # <<wsi'.queue[m].chain, wsi'.queue[m].image>>
        OBVIOUS
      <4>1. k \in 1 .. Len(wsi.queue)
        BY <2>2, <2>5, <2>11
      <4>. QED
        BY <1>1, <2>1, <2>5, <2>11, <2>12, <4>1 DEF PresentsInOrder
    <3>. QED
      BY <2>7, <3>1, <3>2 DEF PresentsInOrder
  <2>14. RetirementSound'
    <3>1. (path'.first # Unset => IsQueued(path.first)) => TRUE
      OBVIOUS
    <3>2. OldPresentsTaken => OldPresentsTaken'
      BY <1>2, <2>1, <2>5, <2>11 DEF OldPresentsTaken
    <3>3. path.first # Unset /\ IsQueued(path.first) =>
            \E k \in 1 .. Len(wsi'.queue) : /\ wsi'.queue[k].chain = chain'.id
                                            /\ wsi'.queue[k].image = path'.first
      BY <1>2, <2>2, <2>5, <2>15 DEF IsQueued
    <3>4. path'.first = path.image =>
            \E k \in 1 .. Len(wsi'.queue) : /\ wsi'.queue[k].chain = chain'.id
                                            /\ wsi'.queue[k].image = path'.first
      BY <1>2, <2>1, <2>2, <2>5
    <3>. QED
      BY <1>1, <2>7, <3>2, <3>3, <3>4 DEF RetirementSound, IsQueued
  <2>. QED
    BY <2>8, <2>9, <2>10, <2>13, <2>14 DEF PathInv
<1>5. ASSUME Fails(path), wsi' = wsi
      PROVE  PathInv'
  <2>1. /\ path' \in PathRecord /\ path'.at = "idle" /\ path'.frame = path.frame
        /\ path'.pending = path.pending /\ path'.first = path.first
        /\ path'.retirement = path.retirement
    BY <1>2, <1>5 DEF PathRecord, Fails
  <2>2. PathTyped'
    BY <1>1, <1>2, <1>5, <2>1 DEF PathTyped
  <2>3. FramesCounted'
    BY <1>2, <2>1, <2>2, CountsStay
  <2>4. ContextsSound'
    BY <1>2, <2>1, ContextsStay
  <2>5. PresentsInOrder' /\ RetirementSound'
    BY <1>2, <1>5, <2>1, PresentsStay
  <2>. QED
    BY <2>2, <2>3, <2>4, <2>5 DEF PathInv
<1>. QED
  BY <1>4, <1>5 DEF Present

LEMMA CompletionKeepsPath ==
  ASSUME PathInv, PathGpuCompletes
  PROVE  PathInv'
<1>1. PathTyped /\ FramesCounted
  BY DEF PathInv
<1>2. /\ path' = path /\ chain' = chain /\ contexts' = contexts /\ wsi' = wsi
      /\ reported' = reported /\ timeline.done < timeline.next - 1
      /\ timeline' = [timeline EXCEPT !.done = timeline.done + 1]
  BY DEF PathGpuCompletes
<1>3. timeline \in [next : Nat, done : Nat]
  BY <1>1 DEF PathTyped
<1>4. /\ timeline' \in [next : Nat, done : Nat] /\ timeline'.next = timeline.next
      /\ timeline'.done = timeline.done + 1 /\ timeline'.done < timeline'.next
  BY <1>2, <1>3
<1>5. PathTyped'
  BY <1>1, <1>2, <1>4 DEF PathTyped
<1>6. FramesCounted'
  <2>1. \A k \in 1 .. Len(reported) : k <= timeline'.done
    BY <1>1, <1>3, <1>4 DEF FramesCounted
  <2>. QED
    BY <1>1, <1>2, <1>4, <2>1 DEF FramesCounted
<1>7. ContextsSound'
  BY <1>2, <1>3, <1>4, ContextsStay
<1>8. PresentsInOrder' /\ RetirementSound'
  BY <1>2, PresentsStay
<1>. QED
  BY <1>5, <1>6, <1>7, <1>8 DEF PathInv

LEMMA TakingKeepsPath ==
  ASSUME PathInv, EngineTakesPresent
  PROVE  PathInv'
<1>1. PathTyped /\ PresentsInOrder /\ RetirementSound
  BY DEF PathInv
<1> DEFINE q == wsi.queue
           n == Len(wsi.queue)
           pair == <<Head(wsi.queue).chain, Head(wsi.queue).image>>
<1>2. /\ path' = path /\ chain' = chain /\ contexts' = contexts /\ timeline' = timeline
      /\ reported' = reported /\ q # <<>>
      /\ wsi' = [queue |-> Tail(q), held |-> wsi.held \ {pair}]
  BY DEF EngineTakesPresent
<1>3. q \in Seq(PresentRecord) /\ n \in Nat /\ n >= 1 /\ wsi.held \in SUBSET (Nat \X Images)
  BY <1>1, <1>2 DEF PathTyped
<1>4. /\ wsi'.queue = Tail(q) /\ Tail(q) \in Seq(PresentRecord) /\ Len(wsi'.queue) = n - 1
      /\ \A k \in 1 .. n - 1 : wsi'.queue[k] = q[k + 1]
      /\ wsi'.held = wsi.held \ {pair}
      /\ pair = <<q[1].chain, q[1].image>>
  BY <1>2, <1>3
<1>5. PathTyped'
  BY <1>1, <1>2, <1>3, <1>4 DEF PathTyped
<1>6. FramesCounted'
  BY <1>2, <1>5, CountsStay
<1>7. timeline.done \in Nat
  BY <1>1 DEF PathTyped
<1>8. ContextsSound'
  BY <1>2, <1>7, ContextsStay
<1>9. \A k \in 1 .. n - 1 : k + 1 \in 1 .. n /\ 1 < k + 1 /\ 1 \in 1 .. n
  BY <1>3
<1>10. PresentsInOrder'
  <2>1. \A k \in 1 .. n - 1 :
          /\ <<q[k + 1].chain, q[k + 1].image>> \in wsi.held
          /\ q[k + 1].chain \in chain.retired \cup {chain.id}
          /\ <<q[k + 1].chain, q[k + 1].image>> # <<q[1].chain, q[1].image>>
    BY <1>1, <1>9 DEF PresentsInOrder
  <2>2. \A k, m \in 1 .. n - 1 : k < m =>
          /\ q[k + 1].chain <= q[m + 1].chain
          /\ <<q[k + 1].chain, q[k + 1].image>> # <<q[m + 1].chain, q[m + 1].image>>
    BY <1>1, <1>3, <1>9 DEF PresentsInOrder
  <2>3. path.at \in {"record", "present"} =>
          /\ path.image \in Images /\ <<chain.id, path.image>> \in wsi.held
          /\ <<chain.id, path.image>> # <<q[1].chain, q[1].image>>
          /\ \A k \in 1 .. n - 1 : ~ (q[k + 1].chain = chain.id /\ q[k + 1].image = path.image)
    BY <1>1, <1>3, <1>9 DEF PresentsInOrder, IsQueued
  <2> DEFINE w == wsi'.queue
  <2>4. /\ Len(w) = n - 1 /\ wsi'.held = wsi.held \ {<<q[1].chain, q[1].image>>}
        /\ chain' = chain /\ path' = path
        /\ \A k \in 1 .. n - 1 : w[k] = q[k + 1]
    BY <1>2, <1>4
  <2> HIDE DEF q, n, pair, w
  <2>5. \A k \in 1 .. n - 1 : w[k].chain = q[k + 1].chain /\ w[k].image = q[k + 1].image
    BY <2>4
  <2>6. \A k \in 1 .. Len(w) :
          /\ <<w[k].chain, w[k].image>> \in wsi'.held
          /\ w[k].chain \in chain'.retired \cup {chain'.id}
    <3> SUFFICES ASSUME NEW k \in 1 .. n - 1
                 PROVE  /\ <<w[k].chain, w[k].image>> \in wsi'.held
                        /\ w[k].chain \in chain'.retired \cup {chain'.id}
      BY <2>4
    <3>. QED
      BY <2>1, <2>4, <2>5
  <2>7. \A k, m \in 1 .. Len(w) : k < m =>
          /\ w[k].chain <= w[m].chain
          /\ <<w[k].chain, w[k].image>> # <<w[m].chain, w[m].image>>
    <3> SUFFICES ASSUME NEW k \in 1 .. n - 1, NEW m \in 1 .. n - 1, k < m
                 PROVE  /\ w[k].chain <= w[m].chain
                        /\ <<w[k].chain, w[k].image>> # <<w[m].chain, w[m].image>>
      BY <2>4
    <3>. QED
      BY <2>2, <2>5
  <2>8. path'.at \in {"record", "present"} =>
          \A k \in 1 .. Len(w) : ~ (w[k].chain = chain'.id /\ w[k].image = path'.image)
    BY <2>3, <2>4, <2>5
  <2>9. path'.at \in {"record", "present"} =>
          /\ path'.image \in Images /\ <<chain'.id, path'.image>> \in wsi'.held
          /\ ~ IsQueued(path.image)'
    BY <2>3, <2>4, <2>8 DEF IsQueued, w
  <2>. QED
    BY <2>6, <2>7, <2>9 DEF PresentsInOrder, w
<1>11. OldPresentsTaken => OldPresentsTaken'
  BY <1>2, <1>3, <1>4, <1>9 DEF OldPresentsTaken
<1>12. ASSUME NEW image, IsQueued(image)
       PROVE  \/ OldPresentsTaken'
              \/ \E k \in 1 .. n - 1 : q[k + 1].chain = chain.id /\ q[k + 1].image = image
  <2>1. PICK k \in 1 .. n : q[k].chain = chain.id /\ q[k].image = image
    BY <1>12 DEF IsQueued
  <2>2. CASE k = 1
    <3>1. chain.id \in Nat /\ \A j \in chain.retired : j \in Nat /\ j < chain.id
      BY <1>1, PathNumbers DEF PathTyped, ChainRecord
    <3>2. \A m \in 1 .. n - 1 : q[m + 1].chain >= chain.id
                                /\ q[m + 1].chain \in chain.retired \cup {chain.id}
      BY <1>1, <1>3, <1>9, <2>1, <2>2 DEF PresentsInOrder
    <3>3. \A m \in 1 .. n - 1 : q[m + 1].chain = chain.id
      BY <3>1, <3>2
    <3>. QED
      BY <1>2, <1>4, <3>3 DEF OldPresentsTaken
  <2>3. CASE k # 1
    <3>1. k - 1 \in 1 .. n - 1 /\ (k - 1) + 1 = k
      BY <1>3, <2>3
    <3>. QED
      BY <2>1, <3>1
  <2>. QED
    BY <2>2, <2>3
<1>13. path.first # Unset => \/ OldPresentsTaken'
                             \/ \E k \in 1 .. n - 1 : /\ q[k + 1].chain = chain.id
                                                      /\ q[k + 1].image = path.first
  BY <1>1, <1>11, <1>12 DEF RetirementSound
<1>14. RetirementSound'
  BY <1>1, <1>2, <1>4, <1>11, <1>13 DEF RetirementSound, IsQueued
<1>. QED
  BY <1>5, <1>6, <1>8, <1>10, <1>14 DEF PathInv

LEMMA PathFollows == PathInv => PathIsSafe
<1> SUFFICES ASSUME PathInv PROVE PathIsSafe
  OBVIOUS
<1>1. PathTyped /\ FramesCounted /\ ContextsSound /\ PresentsInOrder
  BY DEF PathInv
<1>2. path \in PathRecord /\ chain \in ChainRecord /\ path.frame \in Nat
      /\ timeline.done \in Nat /\ timeline.next \in Nat /\ timeline.done < timeline.next
      /\ reported \in Seq(Token) /\ path.pending \in Seq(Token)
      /\ contexts \in [Slots -> ContextRecord]
  BY <1>1, SlotTyped DEF PathTyped, PathRecord
<1>3. PathTypeOK
  <2>1. /\ path.at \in {"idle", "acquire", "record", "present"}
        /\ path.frame \in 0 .. PathFrames /\ path.size \in Sizes
        /\ path.first \in Images \cup {Unset} /\ path.image \in Images \cup {Unset}
        /\ path.retirement \in Nat /\ path.last \in Nat
    BY <1>2 DEF PathRecord
  <2>2. {path.recreate, path.failed, path.suboptimal} \subseteq BOOLEAN
    BY <1>2 DEF PathRecord
  <2>3. \A s \in Slots : contexts[s].state \in {"free", "acquired", "in_flight"}
    BY <1>2 DEF ContextRecord
  <2>4. chain.id \in 1 .. MaxChains /\ chain.retired \subseteq 1 .. chain.id - 1
    BY <1>1, <1>2 DEF PathTyped, ChainRecord
  <2>5. timeline.done \in 0 .. timeline.next - 1
    BY <1>2
  <2>. QED
    BY <2>1, <2>2, <2>3, <2>4, <2>5 DEF PathTypeOK
<1>4. PoolsAreIdle
  <2>1. \A s \in Slots : contexts[s].lastUse \in Nat
    BY <1>2 DEF ContextRecord
  <2>. QED
    BY <1>1, <1>2, <2>1 DEF PoolsAreIdle, ContextsSound, IsCompleted
<1>5. PresentsHaveTheirChain
  BY <1>1 DEF PresentsHaveTheirChain, PresentsInOrder
<1>6. FramesAreReportedOnce
  <2> DEFINE all == reported \o path.pending
  <2>1. Len(reported) \in Nat /\ Len(path.pending) \in Nat
        /\ Len(reported) + Len(path.pending) = path.frame
    BY <1>1, <1>2 DEF FramesCounted
  <2>2. /\ Len(all) = Len(reported) + Len(path.pending)
        /\ \A k \in 1 .. Len(reported) + Len(path.pending) :
             all[k] = IF k <= Len(reported) THEN reported[k] ELSE path.pending[k - Len(reported)]
    BY <1>2
  <2> HIDE DEF all
  <2>3. \A k \in 1 .. Len(all) : all[k].frame = k - 1 /\ all[k].value = k
    <3> SUFFICES ASSUME NEW k \in 1 .. Len(all)
                 PROVE  all[k].frame = k - 1 /\ all[k].value = k
      OBVIOUS
    <3>1. k \in Nat /\ 1 <= k /\ k <= Len(reported) + Len(path.pending)
      BY <2>1, <2>2
    <3>2. CASE k <= Len(reported)
      <4>1. k \in 1 .. Len(reported) /\ all[k] = reported[k]
        BY <2>1, <2>2, <3>1, <3>2
      <4>. QED
        BY <1>1, <4>1 DEF FramesCounted
    <3>3. CASE k > Len(reported)
      <4>1. k - Len(reported) \in 1 .. Len(path.pending) /\ all[k] = path.pending[k - Len(reported)]
        BY <2>1, <2>2, <3>1, <3>3
      <4>2. /\ path.pending[k - Len(reported)].frame = Len(reported) + (k - Len(reported)) - 1
            /\ path.pending[k - Len(reported)].value = Len(reported) + (k - Len(reported))
        BY <1>1, <4>1 DEF FramesCounted
      <4>. QED
        BY <2>1, <3>1, <4>1, <4>2
    <3>. QED
      BY <2>1, <3>1, <3>2, <3>3
  <2>4. \A k \in 1 .. Len(reported) : IsCompleted(reported[k].value)
    BY <1>1, <1>2, <2>1 DEF FramesCounted, IsCompleted
  <2>. QED
    BY <2>1, <2>2, <2>3, <2>4 DEF FramesAreReportedOnce, all
<1>. QED
  BY <1>3, <1>4, <1>5, <1>6 DEF PathIsSafe

(* No command pool is reset while the GPU uses it, no queued present loses  *)
(* its swapchain, and every frame is reported once, in order, after the GPU *)
(* has finished it: for every ring, number of chains, surface and window    *)
(* (clear_present_path.cpp, frame_context.cpp, swapchain.cpp).              *)
THEOREM PathSafe == PathSpec => []PathIsSafe
<1>1. PathInit => PathInv
  BY PathStarts
<1>2. PathInv /\ [PathNext]_pathVars => PathInv'
  <2> SUFFICES ASSUME PathInv, [PathNext]_pathVars PROVE PathInv'
    OBVIOUS
  <2>1. CASE \E size \in Sizes : SetFramebufferSize(size)
    BY <2>1, ResizeKeepsPath
  <2>2. CASE RenderBegins
    BY <2>2, RenderKeepsPath
  <2>3. CASE AcquireNextImage
    BY <2>3, AcquireKeepsPath
  <2>4. CASE RecordAndSubmit
    BY <2>4, RecordKeepsPath
  <2>5. CASE Present
    BY <2>5, PresentKeepsPath
  <2>6. CASE PathGpuCompletes
    BY <2>6, CompletionKeepsPath
  <2>7. CASE EngineTakesPresent
    BY <2>7, TakingKeepsPath
  <2>8. CASE UNCHANGED pathVars
    BY <2>8 DEF pathVars, PathInv, PathTyped, FramesCounted, ContextsSound, Slot,
                PresentsInOrder, RetirementSound, IsQueued, OldPresentsTaken
  <2>. QED
    BY <2>1, <2>2, <2>3, <2>4, <2>5, <2>6, <2>7, <2>8 DEF PathNext
<1>3. PathInv => PathIsSafe
  BY PathFollows
<1>. QED
  BY <1>1, <1>2, <1>3, PTL DEF PathSpec

(***************************************************************************)
(* The tracker of resource states.                                          *)
(***************************************************************************)

RangeRecord == [first : Nat, end : Nat, state : ResourceState]
CellRecord ==
  [access : SUBSET {"colorRead", "colorWrite", "transferRead", "transferWrite", "shaderRead"},
   layout : {"none", "Undefined", "color"} \cup Usages,
   family : BufferFamilies \cup ImageFamilies, raced : BOOLEAN]

Covers(r, c) == r.first <= c /\ c < r.end

(* What the tracker and the device hold at a moment, saved or current. *)
RangesGood(held) ==
  /\ held \in SUBSET RangeRecord
  /\ \A r \in held : r.first < r.end /\ r.end <= Bytes
  /\ \A r, q \in held : r # q => r.end <= q.first \/ q.end <= r.first
DeviceGood(made) == made \in [Cells -> CellRecord] /\ \A c \in Cells : ~ made[c].raced
BytesTracked(held, made) ==
  \A c \in Cells : /\ \A r \in held : Covers(r, c) => Tracks(r.state, made[c])
                   /\ (\A r \in held : ~ Covers(r, c)) => made[c] = Untouched
LevelsTracked(levels, made) ==
  \A c \in Cells : IF levels[c] = Untracked THEN made[c] = Untouched
                   ELSE Tracks(levels[c], made[c])
Kept(held, levels, made) ==
  /\ RangesGood(held) /\ DeviceGood(made)
  /\ levels \in [0 .. Subresources - 1 -> ResourceState \cup {Untracked}]
  /\ kind = "buffer" => BytesTracked(held, made)
  /\ kind = "image" => LevelsTracked(levels, made)

StateInv ==
  /\ kind \in {"buffer", "image"} /\ Kept(ranges, images, device)
  /\ saved # Untracked => Kept(saved.ranges, saved.images, saved.device)

LEMMA StateNumbers ==
  /\ Bytes \in Nat \ {0} /\ Subresources \in Nat \ {0}
  /\ Ignored \in BufferFamilies /\ Ignored \in ImageFamilies /\ Untracked \notin ResourceState
BY ResourceStatesAssumption

LEMMA UntouchedTyped ==
  /\ Untouched \in CellRecord /\ ~ Untouched.raced
  /\ \A family \in BufferFamilies \cup ImageFamilies :
       [Untouched EXCEPT !.family = family] \in CellRecord
BY StateNumbers DEF Untouched, CellRecord

LEMMA StatesMade ==
  ASSUME NEW usage \in Usages \cup {"Undefined"}, NEW family \in BufferFamilies \cup ImageFamilies
  PROVE  /\ MakeState(usage, family) \in ResourceState
         /\ MakeState(usage, family).family = family
         /\ kind = "buffer" => MakeState(usage, family).layout = "none"
<1>1. AccessOf(usage) \in
        SUBSET {"colorRead", "colorWrite", "transferRead", "transferWrite", "shaderRead"}
  BY DEF AccessOf
<1>2. LayoutOf(usage) \in {"none", "Undefined", "color"} \cup Usages
  BY DEF LayoutOf
<1>. QED
  BY <1>1, <1>2 DEF MakeState, MakeBufferState, MakeImageState, ResourceState

(* A use out of the tracked state waits for everything it must. *)
LEMMA UseIsTracked ==
  ASSUME NEW source \in ResourceState, NEW asked \in ResourceState, NEW cell \in CellRecord,
         Tracks(source, cell), ~ cell.raced
  PROVE  LET used == Uses(cell, source, asked, Barrier(source, asked))
         IN  /\ used \in CellRecord /\ ~ used.raced
             /\ Next1(source, asked) \in ResourceState
             /\ Tracks(Next1(source, asked), used)
<1> DEFINE new == ResolveQueueFamily(source, asked)
<1>1. new \in ResourceState /\ new.access = asked.access
  BY DEF ResolveQueueFamily, ResourceState
<1> DEFINE used == Uses(cell, source, asked, Barrier(source, asked))
<1>2. CASE RequiresBarrier(source, new)
  <2>1. Next1(source, asked) = new /\ Barrier(source, asked)
    BY <1>2 DEF Next1, Barrier
  <2>2. used = [access |-> asked.access, layout |-> new.layout, family |-> new.family,
                raced |-> cell.raced \/ ~ (cell.access \subseteq source.access)]
    BY <2>1 DEF Uses
  <2> HIDE DEF new
  <2>3. cell.access \subseteq source.access
    BY DEF Tracks
  <2>4. used \in CellRecord /\ ~ used.raced
    BY <1>1, <2>2, <2>3 DEF ResourceState, CellRecord
  <2>5. Tracks(new, used)
    BY <1>1, <2>2 DEF Tracks
  <2>. QED
    BY <1>1, <2>1, <2>4, <2>5
<1>3. CASE ~ RequiresBarrier(source, new)
  <2> DEFINE merged == MergeReadStates(source, new)
  <2>1. Next1(source, asked) = merged /\ ~ Barrier(source, asked)
    BY <1>3 DEF Next1, Barrier
  <2>2. used = [access |-> cell.access \cup asked.access, layout |-> cell.layout,
                family |-> cell.family,
                raced |-> \/ cell.raced \/ (HasWrite(cell.access) /\ asked.access # {})
                          \/ (HasWrite(asked.access) /\ cell.access # {})]
    BY <2>1 DEF Uses
  <2> HIDE DEF new
  <2>3. /\ ~ HasWrite(source.access) /\ ~ HasWrite(new.access)
        /\ source.layout = new.layout /\ source.family = new.family
    BY <1>3 DEF RequiresBarrier
  <2>4. ~ HasWrite(cell.access)
    BY <2>3 DEF HasWrite, Tracks
  <2>5. merged \in ResourceState /\ merged.access = new.access \cup source.access
        /\ merged.layout = new.layout /\ merged.family = new.family
    BY <1>1 DEF MergeReadStates, ResourceState
  <2>6. used \in CellRecord /\ ~ used.raced
    BY <1>1, <2>2, <2>3, <2>4 DEF CellRecord, ResourceState
  <2> HIDE DEF merged
  <2>7. Tracks(merged, used)
    BY <1>1, <2>2, <2>3, <2>5 DEF Tracks, CellRecord
  <2>. QED
    BY <2>1, <2>5, <2>6, <2>7
<1>. QED
  BY <1>2, <1>3

(* What the replacement of first .. end - 1 leaves of a tracked range. *)
LEMMA OutsideIs ==
  ASSUME RangesGood(ranges), NEW first \in Nat, NEW end \in Nat, first < end,
         NEW n \in Outside(ranges, first, end)
  PROVE  \E r \in ranges :
           /\ n \in RangeRecord /\ n.state = r.state /\ n.first < n.end
           /\ r.first <= n.first /\ n.end <= r.end
           /\ \/ n.end <= first /\ n = [r EXCEPT !.end = Min2(r.end, first)]
              \/ end <= n.first /\ n = [r EXCEPT !.first = Max2(r.first, end)]
<1>1. PICK r \in ranges :
        \/ r.first < first /\ n = [r EXCEPT !.end = Min2(r.end, first)]
        \/ end < r.end /\ n = [r EXCEPT !.first = Max2(r.first, end)]
  BY DEF Outside
<1>2. r \in RangeRecord /\ r.first < r.end
  BY DEF RangesGood
<1>3. r.first \in Nat /\ r.end \in Nat
  BY <1>2 DEF RangeRecord
<1>4. CASE r.first < first /\ n = [r EXCEPT !.end = Min2(r.end, first)]
  <2>1. Min2(r.end, first) \in Nat /\ Min2(r.end, first) <= first /\ Min2(r.end, first) <= r.end
        /\ r.first < Min2(r.end, first)
    BY <1>2, <1>3, <1>4 DEF Min2
  <2>2. n \in RangeRecord /\ n.first = r.first /\ n.end = Min2(r.end, first) /\ n.state = r.state
    BY <1>2, <1>4, <2>1 DEF RangeRecord
  <2>3. n.first < n.end /\ r.first <= n.first /\ n.end <= r.end /\ n.end <= first
    BY <1>3, <2>1, <2>2
  <2>. QED
    BY <1>4, <2>2, <2>3
<1>5. CASE end < r.end /\ n = [r EXCEPT !.first = Max2(r.first, end)]
  <2>1. Max2(r.first, end) \in Nat /\ end <= Max2(r.first, end) /\ r.first <= Max2(r.first, end)
        /\ Max2(r.first, end) < r.end
    BY <1>2, <1>3, <1>5 DEF Max2
  <2>2. n \in RangeRecord /\ n.first = Max2(r.first, end) /\ n.end = r.end /\ n.state = r.state
    BY <1>2, <1>5, <2>1 DEF RangeRecord
  <2>3. n.first < n.end /\ r.first <= n.first /\ n.end <= r.end /\ end <= n.first
    BY <1>3, <2>1, <2>2
  <2>. QED
    BY <1>5, <2>2, <2>3
<1>. QED
  BY <1>1, <1>4, <1>5

LEMMA OutsideKeeps ==
  ASSUME RangesGood(ranges), NEW first \in Nat, NEW end \in Nat, first < end,
         NEW r \in ranges, NEW c \in Nat, Covers(r, c), c \notin first .. end - 1
  PROVE  \E n \in Outside(ranges, first, end) : Covers(n, c)
<1>1. r \in RangeRecord /\ r.first \in Nat /\ r.end \in Nat
  BY DEF RangesGood, RangeRecord
<1>2. CASE c < first
  <2>1. [r EXCEPT !.end = Min2(r.end, first)] \in Outside(ranges, first, end)
    BY <1>1, <1>2 DEF Outside, Covers
  <2>2. c < Min2(r.end, first)
    BY <1>1, <1>2 DEF Covers, Min2
  <2>. QED
    BY <1>1, <2>1, <2>2 DEF Covers, RangeRecord
<1>3. CASE c >= end
  <2>1. [r EXCEPT !.first = Max2(r.first, end)] \in Outside(ranges, first, end)
    BY <1>1, <1>3 DEF Outside, Covers
  <2>2. Max2(r.first, end) <= c
    BY <1>1, <1>3 DEF Covers, Max2
  <2>. QED
    BY <1>1, <2>1, <2>2 DEF Covers, RangeRecord
<1>. QED
  BY <1>2, <1>3

(* Replacing first .. end - 1 by ranges inside it that do not overlap. *)
LEMMA ReplacementIsGood ==
  ASSUME RangesGood(ranges), NEW first \in Nat, NEW end \in Nat, first < end, end <= Bytes,
         NEW fresh \in SUBSET RangeRecord,
         \A s \in fresh : first <= s.first /\ s.first < s.end /\ s.end <= end,
         \A s, t \in fresh : s # t => s.end <= t.first \/ t.end <= s.first
  PROVE  RangesGood(Outside(ranges, first, end) \cup fresh)
<1> DEFINE outside == Outside(ranges, first, end)
<1>1. \A n \in outside : \E r \in ranges :
           /\ n \in RangeRecord /\ n.state = r.state /\ n.first < n.end
           /\ r.first <= n.first /\ n.end <= r.end
           /\ \/ n.end <= first /\ n = [r EXCEPT !.end = Min2(r.end, first)]
              \/ end <= n.first /\ n = [r EXCEPT !.first = Max2(r.first, end)]
  BY OutsideIs
<1> HIDE DEF outside
<1>2. /\ ranges \in SUBSET RangeRecord
      /\ \A r \in ranges : r.first < r.end /\ r.end <= Bytes /\ r.first \in Nat /\ r.end \in Nat
      /\ \A r, q \in ranges : r # q => r.end <= q.first \/ q.end <= r.first
  BY DEF RangesGood, RangeRecord
<1>3. \A s \in fresh \cup outside : s \in RangeRecord /\ s.first \in Nat /\ s.end \in Nat
  BY <1>1 DEF RangeRecord
<1>4. Bytes \in Nat
  BY StateNumbers
<1>5. \A n \in outside \cup fresh : n.first < n.end /\ n.end <= Bytes
  <2>1. \A n \in outside : n.first < n.end /\ n.end <= Bytes
    BY <1>1, <1>2, <1>3, <1>4
  <2>2. \A n \in fresh : n.first < n.end /\ n.end <= Bytes
    BY <1>3, <1>4
  <2>. QED
    BY <2>1, <2>2
<1>6. \A n, m \in outside : n # m => n.end <= m.first \/ m.end <= n.first
  <2> SUFFICES ASSUME NEW n \in outside, NEW m \in outside, n # m
               PROVE  n.end <= m.first \/ m.end <= n.first
    OBVIOUS
  <2>1. PICK r \in ranges : /\ r.first <= n.first /\ n.end <= r.end
                            /\ \/ n.end <= first /\ n = [r EXCEPT !.end = Min2(r.end, first)]
                               \/ end <= n.first /\ n = [r EXCEPT !.first = Max2(r.first, end)]
    BY <1>1
  <2>2. PICK q \in ranges : /\ q.first <= m.first /\ m.end <= q.end
                            /\ \/ m.end <= first /\ m = [q EXCEPT !.end = Min2(q.end, first)]
                               \/ end <= m.first /\ m = [q EXCEPT !.first = Max2(q.first, end)]
    BY <1>1
  <2>3. /\ n.first \in Nat /\ n.end \in Nat /\ m.first \in Nat /\ m.end \in Nat
        /\ r.first \in Nat /\ r.end \in Nat /\ q.first \in Nat /\ q.end \in Nat
    BY <1>2, <1>3
  <2>4. CASE r # q
    <3>1. r.end <= q.first \/ q.end <= r.first
      BY <1>2, <2>4
    <3>. QED
      BY <2>1, <2>2, <2>3, <3>1
  <2>5. CASE r = q
    <3>1. (n.end <= first /\ end <= m.first) \/ (m.end <= first /\ end <= n.first)
      BY <2>1, <2>2, <2>5
    <3>. QED
      BY <2>3, <3>1
  <2>. QED
    BY <2>4, <2>5
<1>7. \A n \in outside, s \in fresh : n.end <= s.first \/ s.end <= n.first
  <2> SUFFICES ASSUME NEW n \in outside, NEW s \in fresh
               PROVE  n.end <= s.first \/ s.end <= n.first
    OBVIOUS
  <2>1. n.end <= first \/ end <= n.first
    BY <1>1
  <2>2. first <= s.first /\ s.end <= end
    OBVIOUS
  <2>. QED
    BY <1>3, <2>1, <2>2
<1>8. \A n, m \in outside \cup fresh : n # m => n.end <= m.first \/ m.end <= n.first
  BY <1>6, <1>7
<1>9. outside \cup fresh \in SUBSET RangeRecord
  BY <1>3
<1>10. RangesGood(outside \cup fresh)
  BY <1>5, <1>8, <1>9 DEF RangesGood
<1>. QED
  BY <1>10 DEF outside

LEMMA ReplacementIsTracked ==
  ASSUME RangesGood(ranges), BytesTracked(ranges, device), kind = "buffer",
         NEW first \in Nat, NEW end \in Nat, first < end, end <= Bytes,
         NEW fresh \in SUBSET RangeRecord, NEW made,
         \A s \in fresh : first <= s.first /\ s.first < s.end /\ s.end <= end,
         \A c \in Cells : c \notin first .. end - 1 => made[c] = device[c],
         \A c \in Cells : c \in first .. end - 1 =>
              /\ \E s \in fresh : Covers(s, c)
              /\ \A s \in fresh : Covers(s, c) => Tracks(s.state, made[c])
  PROVE  BytesTracked(Outside(ranges, first, end) \cup fresh, made)
<1> DEFINE outside == Outside(ranges, first, end)
<1> SUFFICES ASSUME NEW c \in Cells
             PROVE  /\ \A r \in outside \cup fresh : Covers(r, c) => Tracks(r.state, made[c])
                    /\ (\A r \in outside \cup fresh : ~ Covers(r, c)) => made[c] = Untouched
  BY DEF BytesTracked
<1>1. c \in Nat
  BY StateNumbers DEF Cells
<1>2. CASE c \in first .. end - 1
  <2>1. ASSUME NEW n \in outside, Covers(n, c)
        PROVE  FALSE
    <3>1. n \in RangeRecord /\ (n.end <= first \/ end <= n.first)
      BY OutsideIs
    <3>. QED
      BY <1>1, <1>2, <2>1, <3>1 DEF Covers, RangeRecord
  <2>. QED
    BY <1>2, <2>1
<1>3. CASE c \notin first .. end - 1
  <2>1. made[c] = device[c]
    BY <1>3
  <2>2. ASSUME NEW s \in fresh, Covers(s, c)
        PROVE  FALSE
    <3>1. s.first \in Nat /\ s.end \in Nat /\ first <= s.first /\ s.end <= end
      BY DEF RangeRecord
    <3>. QED
      BY <1>1, <1>3, <2>2, <3>1 DEF Covers
  <2>3. ASSUME NEW n \in outside, Covers(n, c)
        PROVE  Tracks(n.state, made[c])
    <3>1. PICK r \in ranges : /\ n \in RangeRecord /\ n.state = r.state
                              /\ r.first <= n.first /\ n.end <= r.end
      BY OutsideIs
    <3>2. r \in RangeRecord
      BY DEF RangesGood
    <3>3. Covers(r, c)
      BY <1>1, <2>3, <3>1, <3>2 DEF Covers, RangeRecord
    <3>. QED
      BY <2>1, <3>1, <3>3 DEF BytesTracked
  <2>4. ASSUME \A n \in outside : ~ Covers(n, c)
        PROVE  made[c] = Untouched
    <3>1. \A r \in ranges : ~ Covers(r, c)
      BY <1>1, <1>3, <2>4, OutsideKeeps
    <3>. QED
      BY <2>1, <3>1 DEF BytesTracked
  <2> HIDE DEF outside
  <2>. QED
    BY <2>2, <2>3, <2>4
<1>. QED
  BY <1>2, <1>3

(* The pieces a use asks for lie inside it, apart, each in one tracked range. *)
LEMMA SegmentsAre ==
  ASSUME RangesGood(ranges), NEW first \in Nat, NEW end \in Nat, first < end
  PROVE  /\ \A s \in Segments(first, end) :
              /\ s \in RangeRecord /\ first <= s.first /\ s.first < s.end /\ s.end <= end
              /\ \E r \in ranges : s.state = r.state /\ r.first <= s.first /\ s.end <= r.end
         /\ \A s, t \in Segments(first, end) : s # t => s.end <= t.first \/ t.end <= s.first
         /\ \A c \in first .. end - 1, r \in ranges : Covers(r, c) =>
              \E s \in Segments(first, end) : Covers(s, c) /\ s.state = r.state
<1> DEFINE Inside(r) == [first |-> Max2(r.first, first), end |-> Min2(r.end, end),
                         state |-> r.state]
<1>1. \A r \in ranges : /\ r \in RangeRecord /\ r.first \in Nat /\ r.end \in Nat
                        /\ r.state \in ResourceState /\ r.first < r.end
  BY DEF RangesGood, RangeRecord
<1>2. \A r \in ranges : r \in Overlapping(first, end) <=> r.first < end /\ first < r.end
  BY DEF Overlapping, Overlap
<1>3. ASSUME NEW s \in Segments(first, end)
      PROVE  \E r \in ranges : /\ s = Inside(r) /\ r.first < end /\ first < r.end
                               /\ s \in RangeRecord /\ s.state = r.state
                               /\ first <= s.first /\ s.first < s.end /\ s.end <= end
                               /\ r.first <= s.first /\ s.end <= r.end
  <2>1. PICK r \in Overlapping(first, end) : s = Inside(r)
    BY DEF Segments
  <2>2. r \in ranges /\ r.first < end /\ first < r.end
    BY DEF Overlapping, Overlap
  <2>3. /\ Max2(r.first, first) \in Nat /\ Min2(r.end, end) \in Nat
        /\ Max2(r.first, first) < Min2(r.end, end)
        /\ first <= Max2(r.first, first) /\ r.first <= Max2(r.first, first)
        /\ Min2(r.end, end) <= end /\ Min2(r.end, end) <= r.end
    BY <1>1, <2>2 DEF Max2, Min2
  <2>4. s \in RangeRecord /\ s.state = r.state /\ s.first = Max2(r.first, first)
        /\ s.end = Min2(r.end, end)
    BY <1>1, <2>1, <2>2, <2>3 DEF RangeRecord
  <2>. QED
    BY <2>1, <2>2, <2>3, <2>4
<1>4. ASSUME NEW s \in Segments(first, end), NEW t \in Segments(first, end), s # t
      PROVE  s.end <= t.first \/ t.end <= s.first
  <2>1. PICK r \in ranges : s = Inside(r) /\ s \in RangeRecord /\ r.first <= s.first /\ s.end <= r.end
    BY <1>3
  <2>2. PICK q \in ranges : t = Inside(q) /\ t \in RangeRecord /\ q.first <= t.first /\ t.end <= q.end
    BY <1>3
  <2> HIDE DEF Inside
  <2>3. r # q
    BY <1>4, <2>1, <2>2
  <2>4. r.end <= q.first \/ q.end <= r.first
    BY <2>3 DEF RangesGood
  <2>5. s.first \in Nat /\ s.end \in Nat /\ t.first \in Nat /\ t.end \in Nat
    BY <2>1, <2>2 DEF RangeRecord
  <2>. QED
    BY <1>1, <2>1, <2>2, <2>4, <2>5
<1>5. ASSUME NEW c \in first .. end - 1, NEW r \in ranges, Covers(r, c)
      PROVE  \E s \in Segments(first, end) : Covers(s, c) /\ s.state = r.state
  <2>1. r \in Overlapping(first, end)
    BY <1>1, <1>2, <1>5 DEF Covers
  <2>2. Inside(r) \in Segments(first, end)
    BY <2>1 DEF Segments
  <2>3. Max2(r.first, first) <= c /\ c < Min2(r.end, end)
    BY <1>1, <1>5 DEF Covers, Max2, Min2
  <2>. QED
    BY <2>2, <2>3 DEF Covers
<1>. QED
  <2>1. \A s \in Segments(first, end) :
              /\ s \in RangeRecord /\ first <= s.first /\ s.first < s.end /\ s.end <= end
              /\ \E r \in ranges : s.state = r.state /\ r.first <= s.first /\ s.end <= r.end
    BY <1>3
  <2>. QED
    BY <1>4, <1>5, <2>1

LEMMA KeptStep ==
  ASSUME StateInv, kind' = kind, saved' = saved, Kept(ranges', images', device')
  PROVE  StateInv'
<1>1. Cells' = Cells
  BY DEF Cells
<1>2. Kept(ranges, images, device)'
  BY <1>1 DEF Kept, RangesGood, DeviceGood, BytesTracked, LevelsTracked
<1>3. saved' # Untracked => Kept(saved.ranges, saved.images, saved.device)'
  BY <1>1 DEF StateInv, Kept, RangesGood, DeviceGood, BytesTracked, LevelsTracked
<1>. QED
  BY <1>2, <1>3 DEF StateInv

(* A use of first .. end - 1 of a buffer that replaces what was tracked there. *)
LEMMA ReplacementKeepsStates ==
  ASSUME StateInv, kind = "buffer", kind' = kind, saved' = saved, images' = images,
         NEW first \in Nat, NEW end \in Nat, first < end, end <= Bytes,
         NEW fresh \in SUBSET RangeRecord,
         \A s \in fresh : first <= s.first /\ s.first < s.end /\ s.end <= end,
         \A s, t \in fresh : s # t => s.end <= t.first \/ t.end <= s.first,
         ranges' = Outside(ranges, first, end) \cup fresh,
         NEW used, device' = [c \in Cells |-> IF c \in first .. end - 1 THEN used[c] ELSE device[c]],
         \A c \in first .. end - 1 :
              /\ used[c] \in CellRecord /\ ~ used[c].raced
              /\ \E s \in fresh : Covers(s, c)
              /\ \A s \in fresh : Covers(s, c) => Tracks(s.state, used[c])
  PROVE  StateInv'
<1>1. /\ RangesGood(ranges) /\ DeviceGood(device) /\ BytesTracked(ranges, device)
      /\ images \in [0 .. Subresources - 1 -> ResourceState \cup {Untracked}]
  BY DEF StateInv, Kept
<1>2. RangesGood(ranges')
  BY <1>1, ReplacementIsGood
<1>3. \A c \in Cells : /\ c \notin first .. end - 1 => device'[c] = device[c]
                       /\ c \in first .. end - 1 => device'[c] = used[c]
  OBVIOUS
<1>4. device' \in [Cells -> CellRecord]
  BY <1>1 DEF DeviceGood
<1>5. DeviceGood(device')
  BY <1>1, <1>3, <1>4 DEF DeviceGood
<1>6. BytesTracked(ranges', device')
  <2>1. /\ \A c \in Cells : c \notin first .. end - 1 => device'[c] = device[c]
        /\ \A c \in Cells : c \in first .. end - 1 =>
              /\ \E s \in fresh : Covers(s, c)
              /\ \A s \in fresh : Covers(s, c) => Tracks(s.state, device'[c])
    BY <1>3
  <2>. QED
    BY <1>1, <2>1, ReplacementIsTracked
<1>7. Kept(ranges', images', device')
  BY <1>1, <1>2, <1>5, <1>6 DEF Kept
<1>. QED
  BY <1>7, KeptStep

LEMMA RangesKeepStates ==
  ASSUME StateInv, TransitionBufferRanges
  PROVE  StateInv'
<1>1. /\ kind = "buffer" /\ kind' = kind /\ images' = images /\ saved' = saved
      /\ RangesGood(ranges) /\ DeviceGood(device) /\ BytesTracked(ranges, device)
      /\ images \in [0 .. Subresources - 1 -> ResourceState \cup {Untracked}]
  BY DEF TransitionBufferRanges, StateInv, Kept
<1>2. PICK first \in Cells, usage \in Usages, family \in BufferFamilies :
        \E end \in first + 1 .. Bytes : BufferUsed(first, end, MakeState(usage, family))
  BY DEF TransitionBufferRanges
<1>3. PICK end \in first + 1 .. Bytes : BufferUsed(first, end, MakeState(usage, family))
  BY <1>2
<1>4. first \in Nat /\ end \in Nat /\ first < end /\ end <= Bytes
  BY <1>1, StateNumbers DEF Cells
<1>12. \A c \in first .. end - 1 : c \in Cells /\ c \in Nat
  BY <1>1, <1>4, StateNumbers DEF Cells
<1> DEFINE asked == MakeState(usage, family)
<1>5. asked \in ResourceState /\ asked.layout = "none" /\ asked.family = family
  BY <1>1, StatesMade
<1>6. BufferUsed(first, end, asked)
  BY <1>3
<1> HIDE DEF asked
<1>7. CASE /\ Overlapping(first, end) = {} /\ InitialIsValid(asked)
           /\ ranges' = ranges \cup {[first |-> first, end |-> end, state |-> asked]}
           /\ device' = [c \in Cells |-> IF c \in first .. end - 1
                       THEN Uses([device[c] EXCEPT !.layout = "none"], asked, asked, FALSE)
                       ELSE device[c]]
  <2> DEFINE new == [first |-> first, end |-> end, state |-> asked]
  <2>1. new \in RangeRecord /\ new.first = first /\ new.end = end /\ new.state = asked
    BY <1>4, <1>5 DEF RangeRecord
  <2>2. \A r \in ranges : r \in RangeRecord /\ r.first \in Nat /\ r.end \in Nat
                          /\ (r.end <= first \/ end <= r.first)
    BY <1>1, <1>4, <1>7 DEF Overlapping, Overlap, RangesGood, RangeRecord
  <2>3. ranges' = ranges \cup {new}
    BY <1>7
  <2> HIDE DEF new
  <2>4. RangesGood(ranges')
    <3>1. \A r, q \in ranges \cup {new} : r # q => r.end <= q.first \/ q.end <= r.first
      BY <1>1, <2>1, <2>2 DEF RangesGood
    <3>2. \A r \in ranges \cup {new} : r.first < r.end /\ r.end <= Bytes
      BY <1>1, <1>4, <2>1 DEF RangesGood
    <3>3. ranges \cup {new} \in SUBSET RangeRecord
      BY <2>1, <2>2
    <3>. QED
      BY <2>3, <3>1, <3>2, <3>3 DEF RangesGood
  <2>5. \A c \in first .. end - 1 : device[c] = Untouched
    <3> SUFFICES ASSUME NEW c \in first .. end - 1 PROVE device[c] = Untouched
      OBVIOUS
    <3>1. \A r \in ranges : ~ Covers(r, c)
      BY <1>4, <2>2 DEF Covers
    <3>. QED
      BY <1>1, <1>12, <3>1 DEF BytesTracked
  <2>6. \A c \in first .. end - 1 :
          device'[c] = Uses([Untouched EXCEPT !.layout = "none"], asked, asked, FALSE)
    BY <1>7, <1>12, <2>5
  <2>7. Uses([Untouched EXCEPT !.layout = "none"], asked, asked, FALSE)
          = [access |-> asked.access, layout |-> "none", family |-> Ignored, raced |-> FALSE]
    BY DEF Uses, Untouched, HasWrite
  <2>8. \A c \in first .. end - 1 :
          /\ device'[c] \in CellRecord /\ ~ device'[c].raced /\ Tracks(asked, device'[c])
    <3> DEFINE u == [access |-> asked.access, layout |-> "none", family |-> Ignored, raced |-> FALSE]
    <3>1. asked.family = Ignored
      BY <1>7 DEF InitialIsValid
    <3>2. u \in CellRecord /\ ~ u.raced
      BY <1>5, StateNumbers DEF CellRecord, ResourceState
    <3>3. Tracks(asked, u)
      BY <1>5, <3>1 DEF Tracks
    <3>4. \A c \in first .. end - 1 : device'[c] = u
      BY <2>6, <2>7
    <3> HIDE DEF u
    <3>. QED
      BY <3>2, <3>3, <3>4
  <2>9. \A c \in Cells : c \notin first .. end - 1 => device'[c] = device[c]
    BY <1>7
  <2>10. DeviceGood(device')
    <3>1. \A c \in Cells : device'[c] \in CellRecord /\ ~ device'[c].raced
      BY <1>1, <2>8, <2>9 DEF DeviceGood
    <3>2. device' = [c \in Cells |-> device'[c]]
      BY <1>7
    <3>. QED
      BY <3>1, <3>2 DEF DeviceGood
  <2>11. BytesTracked(ranges', device')
    <3> SUFFICES ASSUME NEW c \in Cells
                 PROVE  /\ \A r \in ranges' : Covers(r, c) => Tracks(r.state, device'[c])
                        /\ (\A r \in ranges' : ~ Covers(r, c)) => device'[c] = Untouched
      BY DEF BytesTracked
    <3>0. c \in Nat
      BY <1>1, StateNumbers DEF Cells
    <3>1. CASE c \in first .. end - 1
      <4>1. Covers(new, c) /\ \A r \in ranges : ~ Covers(r, c)
        BY <1>4, <2>1, <2>2, <3>0, <3>1 DEF Covers
      <4>. QED
        BY <2>1, <2>3, <2>8, <3>1, <4>1
    <3>2. CASE c \notin first .. end - 1
      <4>1. ~ Covers(new, c)
        BY <1>4, <2>1, <3>0, <3>2 DEF Covers
      <4>. QED
        BY <1>1, <2>3, <2>9, <3>2, <4>1 DEF BytesTracked
    <3>. QED
      BY <3>1, <3>2
  <2>12. Kept(ranges', images', device')
    BY <1>1, <2>4, <2>10, <2>11 DEF Kept
  <2>. QED
    BY <1>1, <2>12, KeptStep
<1>8. CASE /\ Covered(first, end)
           /\ ranges' = Outside(ranges, first, end) \cup
                    {[s EXCEPT !.state = Next1(s.state, asked)] : s \in Segments(first, end)}
           /\ device' = [c \in Cells |->
                IF c \in first .. end - 1
                THEN LET s == CHOOSE r \in Segments(first, end) : r.first <= c /\ c < r.end
                     IN  Uses(device[c], s.state, asked, Barrier(s.state, asked))
                ELSE device[c]]
  <2> DEFINE At(c) == CHOOSE r \in Segments(first, end) : r.first <= c /\ c < r.end
             Left(s) == [s EXCEPT !.state = Next1(s.state, asked)]
             fresh == {Left(s) : s \in Segments(first, end)}
             used == [c \in first .. end - 1 |->
                        Uses(device[c], At(c).state, asked, Barrier(At(c).state, asked))]
  <2>1. /\ \A s \in Segments(first, end) :
              /\ s \in RangeRecord /\ first <= s.first /\ s.first < s.end /\ s.end <= end
              /\ \E r \in ranges : s.state = r.state /\ r.first <= s.first /\ s.end <= r.end
        /\ \A s, t \in Segments(first, end) : s # t => s.end <= t.first \/ t.end <= s.first
    BY <1>1, <1>4, SegmentsAre
  <2>2. \A s \in Segments(first, end) :
          /\ s.state \in ResourceState /\ s.first \in Nat /\ s.end \in Nat
          /\ Next1(s.state, asked) \in ResourceState
    <3>1. \A s \in Segments(first, end) : s.state \in ResourceState
      BY <2>1 DEF RangeRecord
    <3>2. ASSUME NEW st \in ResourceState
          PROVE  Next1(st, asked) \in ResourceState
      BY <1>5, <3>2 DEF Next1, MergeReadStates, ResolveQueueFamily, ResourceState
    <3>. QED
      BY <2>1, <3>1, <3>2 DEF RangeRecord
  <2>3. \A s \in Segments(first, end) :
          /\ Left(s) \in RangeRecord /\ Left(s).first = s.first /\ Left(s).end = s.end
          /\ Left(s).state = Next1(s.state, asked)
    BY <2>1, <2>2 DEF RangeRecord
  <2>4. \A c \in first .. end - 1 :
          /\ At(c) \in Segments(first, end) /\ Covers(At(c), c)
          /\ Tracks(At(c).state, device[c])
    <3> SUFFICES ASSUME NEW c \in first .. end - 1
                 PROVE  /\ At(c) \in Segments(first, end) /\ Covers(At(c), c)
                        /\ Tracks(At(c).state, device[c])
      OBVIOUS
    <3>1. PICK r \in ranges : Covers(r, c)
      BY <1>8 DEF Covered, Covers
    <3>2. \E s \in Segments(first, end) : Covers(s, c)
      BY <1>1, <1>4, <3>1, SegmentsAre
    <3>3. At(c) \in Segments(first, end) /\ Covers(At(c), c)
      BY <3>2 DEF Covers
    <3> HIDE DEF At
    <3>4. PICK q \in ranges : At(c).state = q.state /\ q.first <= At(c).first /\ At(c).end <= q.end
      BY <2>1, <3>3
    <3>5. q.first \in Nat /\ q.end \in Nat /\ c \in Nat
      BY <1>1, <1>12 DEF RangesGood, RangeRecord
    <3>6. Covers(q, c)
      BY <2>2, <3>3, <3>4, <3>5 DEF Covers
    <3>. QED
      BY <1>1, <1>12, <3>3, <3>4, <3>6 DEF BytesTracked
  <2>5. \A c \in first .. end - 1, s \in Segments(first, end) : Covers(s, c) => s = At(c)
    <3> HIDE DEF At
    <3>. QED
      BY <1>12, <2>1, <2>2, <2>4 DEF Covers
  <2>6. ranges' = Outside(ranges, first, end) \cup fresh
    BY <1>8
  <2>7. device' = [c \in Cells |-> IF c \in first .. end - 1 THEN used[c] ELSE device[c]]
    BY <1>8
  <2>8. \A c \in first .. end - 1 :
          used[c] = Uses(device[c], At(c).state, asked, Barrier(At(c).state, asked))
    OBVIOUS
  <2> HIDE DEF At, used, Left
  <2>9. \A c \in first .. end - 1 :
          /\ used[c] \in CellRecord /\ ~ used[c].raced
          /\ Tracks(Next1(At(c).state, asked), used[c])
    <3> SUFFICES ASSUME NEW c \in first .. end - 1
                 PROVE  /\ used[c] \in CellRecord /\ ~ used[c].raced
                        /\ Tracks(Next1(At(c).state, asked), used[c])
      OBVIOUS
    <3>1. device[c] \in CellRecord /\ ~ device[c].raced
      BY <1>1, <1>12 DEF DeviceGood
    <3>2. At(c).state \in ResourceState /\ Tracks(At(c).state, device[c])
      BY <2>2, <2>4
    <3>. QED
      BY <1>5, <2>8, <3>1, <3>2, UseIsTracked
  <2>10. \A c \in first .. end - 1 :
           /\ \E s \in fresh : Covers(s, c)
           /\ \A s \in fresh : Covers(s, c) => Tracks(s.state, used[c])
    <3> SUFFICES ASSUME NEW c \in first .. end - 1
                 PROVE  /\ \E s \in fresh : Covers(s, c)
                        /\ \A s \in fresh : Covers(s, c) => Tracks(s.state, used[c])
      OBVIOUS
    <3>1. Left(At(c)) \in fresh /\ Covers(Left(At(c)), c)
      BY <2>3, <2>4 DEF Covers
    <3>2. ASSUME NEW s \in Segments(first, end), Covers(Left(s), c)
          PROVE  Tracks(Left(s).state, used[c])
      <4>1. Covers(s, c)
        BY <2>3, <3>2 DEF Covers
      <4>. QED
        BY <2>3, <2>5, <2>9, <4>1
    <3>. QED
      BY <3>1, <3>2
  <2>11. /\ fresh \in SUBSET RangeRecord
         /\ \A s \in fresh : first <= s.first /\ s.first < s.end /\ s.end <= end
    BY <2>1, <2>3
  <2>12. \A s, t \in fresh : s # t => s.end <= t.first \/ t.end <= s.first
    <3>1. ASSUME NEW s \in Segments(first, end), NEW t \in Segments(first, end), Left(s) # Left(t)
          PROVE  Left(s).end <= Left(t).first \/ Left(t).end <= Left(s).first
      <4>1. s # t
        BY <3>1
      <4>. QED
        BY <2>1, <2>3, <4>1
    <3>. QED
      BY <3>1
  <2> HIDE DEF fresh
  <2>13. \A c \in first .. end - 1 :
              /\ used[c] \in CellRecord /\ ~ used[c].raced
              /\ \E s \in fresh : Covers(s, c)
              /\ \A s \in fresh : Covers(s, c) => Tracks(s.state, used[c])
    BY <2>9, <2>10
  <2>. QED
    BY <1>1, <1>4, <2>6, <2>7, <2>11, <2>12, <2>13, ReplacementKeepsStates
<1>. QED
  BY <1>6, <1>7, <1>8 DEF BufferUsed

LEMMA BufferKeepsStates ==
  ASSUME StateInv, TransitionBuffer
  PROVE  StateInv'
<1>1. /\ kind = "buffer" /\ kind' = kind /\ images' = images /\ saved' = saved
      /\ RangesGood(ranges) /\ DeviceGood(device) /\ BytesTracked(ranges, device)
  BY DEF TransitionBuffer, StateInv, Kept
<1>2. PICK first \in Cells, usage \in Usages, family \in BufferFamilies :
         \E end \in first + 1 .. Bytes, source \in {r.state : r \in ranges} :
          LET asked == MakeState(usage, family)
          IN  /\ Covered(first, end) /\ FamilyIsValid(source, asked)
              /\ \A s \in Segments(first, end) : s.state = source
              /\ ranges' = Outside(ranges, first, end) \cup
                   {[first |-> first, end |-> end, state |-> Next1(source, asked)]}
              /\ device' = [c \in Cells |-> IF c \in first .. end - 1
                              THEN Uses(device[c], source, asked, Barrier(source, asked))
                              ELSE device[c]]
  BY DEF TransitionBuffer
<1> DEFINE asked == MakeState(usage, family)
<1>3. PICK end \in first + 1 .. Bytes, source \in {r.state : r \in ranges} :
          /\ Covered(first, end) /\ FamilyIsValid(source, asked)
          /\ \A s \in Segments(first, end) : s.state = source
          /\ ranges' = Outside(ranges, first, end) \cup
                   {[first |-> first, end |-> end, state |-> Next1(source, asked)]}
          /\ device' = [c \in Cells |-> IF c \in first .. end - 1
                              THEN Uses(device[c], source, asked, Barrier(source, asked))
                              ELSE device[c]]
  BY <1>2
<1>4. first \in Nat /\ end \in Nat /\ first < end /\ end <= Bytes
  BY <1>1, StateNumbers DEF Cells
<1>5. asked \in ResourceState
  BY StatesMade
<1> HIDE DEF asked
<1>6. \A c \in first .. end - 1 : c \in Cells /\ c \in Nat
  BY <1>1, <1>4, StateNumbers DEF Cells
<1>7. source \in ResourceState
  BY <1>1 DEF RangesGood, RangeRecord
<1>8. \A c \in first .. end - 1 : /\ Tracks(source, device[c])
                                  /\ device[c] \in CellRecord /\ ~ device[c].raced
  <2> SUFFICES ASSUME NEW c \in first .. end - 1
               PROVE  /\ Tracks(source, device[c])
                      /\ device[c] \in CellRecord /\ ~ device[c].raced
    OBVIOUS
  <2>1. PICK r \in ranges : Covers(r, c)
    BY <1>3 DEF Covered, Covers
  <2>2. \E s \in Segments(first, end) : s.state = r.state
    BY <1>1, <1>4, <2>1, SegmentsAre
  <2>3. r.state = source
    BY <1>3, <2>2
  <2>. QED
    BY <1>1, <1>6, <2>1, <2>3 DEF BytesTracked, DeviceGood
<1> DEFINE used == [c \in first .. end - 1 |->
                      Uses(device[c], source, asked, Barrier(source, asked))]
           new == [first |-> first, end |-> end, state |-> Next1(source, asked)]
<1>9. device' = [c \in Cells |-> IF c \in first .. end - 1 THEN used[c] ELSE device[c]]
  BY <1>3
<1>10. \A c \in first .. end - 1 :
         /\ used[c] \in CellRecord /\ ~ used[c].raced
         /\ Next1(source, asked) \in ResourceState /\ Tracks(Next1(source, asked), used[c])
  BY <1>5, <1>7, <1>8, UseIsTracked
<1>11. first \in first .. end - 1
  BY <1>4
<1>12. /\ new \in RangeRecord /\ new.first = first /\ new.end = end
       /\ new.state = Next1(source, asked)
  BY <1>4, <1>10, <1>11 DEF RangeRecord
<1>13. ranges' = Outside(ranges, first, end) \cup {new}
  BY <1>3
<1> HIDE DEF used, new
<1>14. \A c \in first .. end - 1 :
         /\ used[c] \in CellRecord /\ ~ used[c].raced
         /\ \E s \in {new} : Covers(s, c)
         /\ \A s \in {new} : Covers(s, c) => Tracks(s.state, used[c])
  BY <1>4, <1>6, <1>10, <1>12 DEF Covers
<1>15. /\ {new} \in SUBSET RangeRecord
       /\ \A s \in {new} : first <= s.first /\ s.first < s.end /\ s.end <= end
       /\ \A s, t \in {new} : s # t => s.end <= t.first \/ t.end <= s.first
  BY <1>4, <1>12
<1>. QED
  BY <1>1, <1>4, <1>9, <1>13, <1>14, <1>15, ReplacementKeepsStates

LEMMA ImageKeepsStates ==
  ASSUME StateInv, TransitionImage
  PROVE  StateInv'
<1>1. /\ kind = "image" /\ kind' = kind /\ ranges' = ranges /\ saved' = saved
      /\ RangesGood(ranges) /\ DeviceGood(device) /\ LevelsTracked(images, device)
      /\ images \in [0 .. Subresources - 1 -> ResourceState \cup {Untracked}]
      /\ Cells = 0 .. Subresources - 1
  BY DEF TransitionImage, StateInv, Kept, Cells
<1>2. PICK first \in Cells, usage \in Usages, family \in ImageFamilies :
         \E last \in first .. Subresources - 1 :
          LET keys == first .. last
              asked == MakeState(usage, family)
              source == images[first]
          IN  /\ \A s \in keys : images[s] = source
              /\ IF source = Untracked THEN InitialIsValid(asked)
                 ELSE FamilyIsValid(source, asked)
              /\ images' = [s \in Cells |->
                   IF s \notin keys THEN images[s]
                   ELSE IF source = Untracked THEN asked ELSE Next1(source, asked)]
              /\ device' = [s \in Cells |->
                   IF s \notin keys THEN device[s]
                   ELSE IF source = Untracked
                   THEN Uses(device[s], MakeState("Undefined", Ignored), asked, TRUE)
                   ELSE Uses(device[s], source, asked, Barrier(source, asked))]
  BY DEF TransitionImage
<1> DEFINE asked == MakeState(usage, family)
           source == images[first]
<1>3. PICK last \in first .. Subresources - 1 :
          /\ \A s \in first .. last : images[s] = source
          /\ IF source = Untracked THEN InitialIsValid(asked) ELSE FamilyIsValid(source, asked)
          /\ images' = [s \in Cells |->
                   IF s \notin first .. last THEN images[s]
                   ELSE IF source = Untracked THEN asked ELSE Next1(source, asked)]
          /\ device' = [s \in Cells |->
                   IF s \notin first .. last THEN device[s]
                   ELSE IF source = Untracked
                   THEN Uses(device[s], MakeState("Undefined", Ignored), asked, TRUE)
                   ELSE Uses(device[s], source, asked, Barrier(source, asked))]
  BY <1>2
<1>4. asked \in ResourceState /\ asked.family = family
  BY StatesMade
<1>5. MakeState("Undefined", Ignored).family = Ignored
  BY StateNumbers, StatesMade
<1>13. MakeState("Undefined", Ignored).access = {}
  BY DEF MakeState, MakeBufferState, MakeImageState, AccessOf
<1> HIDE DEF asked
<1>6. \A c \in Cells : device[c] \in CellRecord /\ ~ device[c].raced
  BY <1>1 DEF DeviceGood
<1>7. ASSUME NEW c \in Cells
      PROVE  /\ images'[c] \in ResourceState \cup {Untracked}
             /\ device'[c] \in CellRecord /\ ~ device'[c].raced
             /\ IF images'[c] = Untracked THEN device'[c] = Untouched
                ELSE Tracks(images'[c], device'[c])
  <2>1. CASE c \notin first .. last
    <3>1. images'[c] = images[c] /\ device'[c] = device[c]
      BY <1>3, <2>1
    <3>. QED
      BY <1>1, <1>6, <3>1 DEF LevelsTracked
  <2>2. CASE c \in first .. last /\ source = Untracked
    <3> DEFINE u == Uses(Untouched, MakeState("Undefined", Ignored), asked, TRUE)
    <3>1. images'[c] = asked /\ device[c] = Untouched /\ asked.family = Ignored
      BY <1>1, <1>3, <2>2 DEF LevelsTracked, InitialIsValid
    <3>2. device'[c] = u
      BY <1>3, <2>2, <3>1
    <3>3. u = [access |-> asked.access, layout |-> asked.layout, family |-> Ignored,
               raced |-> FALSE]
      <4>1. Untouched.access = {} /\ Untouched.raced = FALSE
        BY DEF Untouched
      <4>2. ResolveQueueFamily(MakeState("Undefined", Ignored), asked)
              = [asked EXCEPT !.family = Ignored]
        BY <1>5, <3>1 DEF ResolveQueueFamily
      <4>3. [asked EXCEPT !.family = Ignored].layout = asked.layout
            /\ [asked EXCEPT !.family = Ignored].family = Ignored
        BY <1>4 DEF ResourceState
      <4>. QED
        BY <1>13, <4>1, <4>2, <4>3 DEF Uses
    <3> HIDE DEF u
    <3>4. u \in CellRecord /\ ~ u.raced
      BY <1>4, <3>3, StateNumbers DEF CellRecord, ResourceState
    <3>5. Tracks(asked, u)
      BY <1>4, <3>1, <3>3 DEF Tracks
    <3>. QED
      BY <1>4, <3>1, <3>2, <3>4, <3>5, StateNumbers
  <2>3. CASE c \in first .. last /\ source # Untracked
    <3>1. source \in ResourceState /\ images[c] = source
      BY <1>1, <1>3, <2>3
    <3>2. Tracks(source, device[c])
      BY <1>1, <2>3, <3>1 DEF LevelsTracked
    <3>3. images'[c] = Next1(source, asked)
          /\ device'[c] = Uses(device[c], source, asked, Barrier(source, asked))
      BY <1>3, <2>3
    <3> HIDE DEF source
    <3>4. /\ device'[c] \in CellRecord /\ ~ device'[c].raced
          /\ images'[c] \in ResourceState /\ Tracks(images'[c], device'[c])
      BY <1>4, <1>6, <3>1, <3>2, <3>3, UseIsTracked
    <3>. QED
      BY <3>4, StateNumbers
  <2>. QED
    BY <2>1, <2>2, <2>3
<1>8. images' = [s \in 0 .. Subresources - 1 |-> images'[s]] /\ device' = [s \in Cells |-> device'[s]]
  BY <1>1, <1>3
<1>9. images' \in [0 .. Subresources - 1 -> ResourceState \cup {Untracked}]
  BY <1>1, <1>7, <1>8
<1>10. DeviceGood(device')
  <2>1. device' \in [Cells -> CellRecord]
    BY <1>7, <1>8
  <2>. QED
    BY <1>7, <2>1 DEF DeviceGood
<1>11. LevelsTracked(images', device')
  BY <1>7 DEF LevelsTracked
<1>12. Kept(ranges', images', device')
  BY <1>1, <1>9, <1>10, <1>11 DEF Kept
<1>. QED
  BY <1>1, <1>12, KeptStep

(* Nothing tracked and nothing done. *)
LEMMA NothingIsKept ==
  ASSUME kind \in {"buffer", "image"}
  PROVE  Kept({}, [s \in 0 .. Subresources - 1 |-> Untracked], [c \in Cells |-> Untouched])
<1>1. RangesGood({})
  BY DEF RangesGood
<1>2. DeviceGood([c \in Cells |-> Untouched])
  BY UntouchedTyped DEF DeviceGood
<1>3. BytesTracked({}, [c \in Cells |-> Untouched])
  BY DEF BytesTracked
<1>4. kind = "image" => LevelsTracked([s \in 0 .. Subresources - 1 |-> Untracked],
                                      [c \in Cells |-> Untouched])
  BY DEF LevelsTracked, Cells
<1>. QED
  BY <1>1, <1>2, <1>3, <1>4 DEF Kept

LEMMA ImportsKeepStates ==
  ASSUME StateInv, ImportBuffer \/ ImportImage
  PROVE  StateInv'
<1>1. CASE ImportBuffer
  <2>1. PICK family \in BufferFamilies :
          /\ ranges' = {[first |-> 0, end |-> Bytes,
                         state |-> [access |-> {}, layout |-> "none", family |-> family]]}
          /\ device' = [c \in Cells |-> [Untouched EXCEPT !.family = family, !.layout = "none"]]
    BY <1>1 DEF ImportBuffer
  <2>2. kind = "buffer" /\ kind' = kind /\ images' = images /\ saved' = saved
        /\ images \in [0 .. Subresources - 1 -> ResourceState \cup {Untracked}]
    BY <1>1 DEF ImportBuffer, StateInv, Kept
  <2> DEFINE state == [access |-> {}, layout |-> "none", family |-> family]
             all == [first |-> 0, end |-> Bytes, state |-> state]
             cell == [Untouched EXCEPT !.family = family, !.layout = "none"]
  <2>3. cell \in CellRecord /\ ~ cell.raced /\ Tracks(state, cell)
    BY StateNumbers DEF CellRecord, Tracks, Untouched
  <2>4. device' = [c \in Cells |-> cell]
    BY <2>1
  <2>5. all \in RangeRecord /\ all.first = 0 /\ all.end = Bytes /\ all.state = state
    <3>1. state \in ResourceState
      BY DEF ResourceState
    <3>. QED
      BY <3>1, StateNumbers DEF RangeRecord
  <2>6. ranges' = {all}
    BY <2>1
  <2> HIDE DEF cell, all, state
  <2>7. RangesGood({all})
    BY <2>5, StateNumbers DEF RangesGood
  <2>8. DeviceGood(device')
    BY <2>3, <2>4 DEF DeviceGood
  <2>9. BytesTracked({all}, device')
    <3>1. \A c \in Cells : Covers(all, c)
      BY <2>2, <2>5, StateNumbers DEF Cells, Covers
    <3>. QED
      BY <2>3, <2>4, <2>5, <3>1 DEF BytesTracked
  <2>10. Kept(ranges', images', device')
    BY <2>2, <2>6, <2>7, <2>8, <2>9 DEF Kept
  <2>. QED
    BY <2>2, <2>10, KeptStep
<1>2. CASE ImportImage
  <2>1. PICK family \in ImageFamilies :
          /\ images' = [s \in Cells |-> [access |-> {}, layout |-> "Undefined", family |-> family]]
          /\ device' = [c \in Cells |-> [Untouched EXCEPT !.family = family]]
    BY <1>2 DEF ImportImage
  <2>2. kind = "image" /\ kind' = kind /\ ranges' = ranges /\ saved' = saved
        /\ RangesGood(ranges) /\ Cells = 0 .. Subresources - 1
    BY <1>2 DEF ImportImage, StateInv, Kept, Cells
  <2> DEFINE state == [access |-> {}, layout |-> "Undefined", family |-> family]
             cell == [Untouched EXCEPT !.family = family]
  <2>3. cell \in CellRecord /\ ~ cell.raced /\ Tracks(state, cell)
    BY StateNumbers DEF CellRecord, Tracks, Untouched
  <2>4. device' = [c \in Cells |-> cell] /\ images' = [s \in Cells |-> state]
    BY <2>1
  <2>5. state \in ResourceState /\ state # Untracked
    <3>1. state \in ResourceState
      BY DEF ResourceState
    <3>. QED
      BY <3>1, StateNumbers
  <2> HIDE DEF cell, state
  <2>6. DeviceGood(device')
    BY <2>3, <2>4 DEF DeviceGood
  <2>7. LevelsTracked(images', device')
    BY <2>3, <2>4, <2>5 DEF LevelsTracked
  <2>8. images' \in [0 .. Subresources - 1 -> ResourceState \cup {Untracked}]
    BY <2>2, <2>4, <2>5
  <2>9. Kept(ranges', images', device')
    BY <2>2, <2>6, <2>7, <2>8 DEF Kept
  <2>. QED
    BY <2>2, <2>9, KeptStep
<1>. QED
  BY <1>1, <1>2

LEMMA TransactionsKeepStates ==
  ASSUME StateInv, Forget \/ BeginTransaction \/ Commit \/ Rollback
  PROVE  StateInv'
<1>1. kind \in {"buffer", "image"} /\ kind' = kind /\ Cells' = Cells
      /\ Kept(ranges, images, device)
  BY DEF Forget, BeginTransaction, Commit, Rollback, StateInv, Cells
<1>2. CASE Forget
  <2>1. Kept(ranges', images', device') /\ saved' = saved
    BY <1>1, <1>2, NothingIsKept DEF Forget
  <2>. QED
    BY <1>1, <2>1, KeptStep
<1>3. CASE BeginTransaction
  <2>1. /\ ranges' = ranges /\ images' = images /\ device' = device
        /\ saved'.ranges = ranges /\ saved'.images = images /\ saved'.device = device
    BY <1>3 DEF BeginTransaction
  <2>. QED
    BY <1>1, <2>1 DEF StateInv, Kept, RangesGood, DeviceGood, BytesTracked, LevelsTracked
<1>4. CASE Commit
  <2>1. ranges' = ranges /\ images' = images /\ device' = device /\ saved' = Untracked
    BY <1>4 DEF Commit
  <2>. QED
    BY <1>1, <2>1 DEF StateInv, Kept, RangesGood, DeviceGood, BytesTracked, LevelsTracked
<1>5. CASE Rollback
  <2>1. /\ ranges' = saved.ranges /\ images' = saved.images /\ device' = saved.device
        /\ saved' = Untracked /\ Kept(saved.ranges, saved.images, saved.device)
    BY <1>5 DEF Rollback, StateInv
  <2>. QED
    BY <1>1, <2>1 DEF StateInv, Kept, RangesGood, DeviceGood, BytesTracked, LevelsTracked
<1>. QED
  BY <1>2, <1>3, <1>4, <1>5

(* The tracked ranges never overlap, the tracked state names every use since *)
(* the last barrier, and nothing races on the device, through transactions   *)
(* and rollbacks: for every buffer and image, usage and queue family         *)
(* (resource_state.cpp).                                                     *)
THEOREM StatesSafe == StateSpec => []StatesAreSafe
<1>1. StateInit => StateInv
  <2> SUFFICES ASSUME StateInit PROVE StateInv
    OBVIOUS
  <2>. QED
    BY NothingIsKept DEF StateInit, StateInv
<1>2. StateInv /\ [StateNext]_stateVars => StateInv'
  <2> SUFFICES ASSUME StateInv, [StateNext]_stateVars PROVE StateInv'
    OBVIOUS
  <2>1. CASE ImportBuffer \/ ImportImage
    BY <2>1, ImportsKeepStates
  <2>2. CASE TransitionBufferRanges
    BY <2>2, RangesKeepStates
  <2>3. CASE TransitionBuffer
    BY <2>3, BufferKeepsStates
  <2>4. CASE TransitionImage
    BY <2>4, ImageKeepsStates
  <2>5. CASE Forget \/ BeginTransaction \/ Commit \/ Rollback
    BY <2>5, TransactionsKeepStates
  <2>6. CASE UNCHANGED stateVars
    BY <2>6 DEF stateVars, StateInv, Kept, RangesGood, DeviceGood, BytesTracked, LevelsTracked,
                Cells
  <2>. QED
    BY <2>1, <2>2, <2>3, <2>4, <2>5, <2>6 DEF StateNext
<1>3. StateInv => StatesAreSafe
  <2> SUFFICES ASSUME StateInv PROVE StatesAreSafe
    OBVIOUS
  <2>1. RangesGood(ranges) /\ DeviceGood(device)
    BY DEF StateInv, Kept
  <2>2. RangesAreDisjoint
    BY <2>1 DEF RangesGood, RangeRecord, RangesAreDisjoint, Overlap
  <2>3. NothingRaces
    BY <2>1 DEF DeviceGood, NothingRaces
  <2>4. TrackerMatchesDevice
    <3>1. CASE kind = "buffer"
      <4>1. BytesTracked(ranges, device)
        BY <3>1 DEF StateInv, Kept
      <4> SUFFICES ASSUME NEW c \in Cells
                   PROVE  LET here == {r \in ranges : r.first <= c /\ c < r.end}
                          IN  IF here = {} THEN device[c] = Untouched
                              ELSE \E r \in here : Tracks(r.state, device[c])
        BY <3>1 DEF TrackerMatchesDevice
      <4> DEFINE here == {r \in ranges : r.first <= c /\ c < r.end}
      <4>2. here = {} => device[c] = Untouched
        BY <4>1 DEF BytesTracked, Covers
      <4>3. \A r \in here : Tracks(r.state, device[c])
        BY <4>1 DEF BytesTracked, Covers
      <4> HIDE DEF here
      <4>4. IF here = {} THEN device[c] = Untouched
            ELSE \E r \in here : Tracks(r.state, device[c])
        BY <4>2, <4>3
      <4>. QED
        BY <4>4 DEF here
    <3>2. CASE kind = "image"
      BY <3>2 DEF StateInv, Kept, LevelsTracked, TrackerMatchesDevice
    <3>. QED
      BY <3>1, <3>2 DEF StateInv
  <2>. QED
    BY <2>2, <2>3, <2>4 DEF StatesAreSafe
<1>. QED
  BY <1>1, <1>2, <1>3, PTL DEF StateSpec

(***************************************************************************)
(* Uploads.  What FoldLeft computes is a run over the prefixes of a         *)
(* sequence.                                                                *)
(***************************************************************************)

(* Induction over the prefixes of a sequence. *)
LEMMA PrefixInduction ==
  ASSUME NEW n \in Nat, NEW S, 0 \in S, \A k \in 0 .. n - 1 : k \in S => k + 1 \in S
  PROVE  0 .. n \subseteq S
<1> SUFFICES ASSUME (0 .. n) \ S # {} PROVE FALSE
  OBVIOUS
<1>0. (0 .. n) \ S \in SUBSET Nat
  OBVIOUS
<1>1. PICK x \in (0 .. n) \ S : \A y \in (0 .. n) \ S : x <= y
  BY <1>0, SmallestNumber
<1>2. x - 1 \in 0 .. n - 1 /\ (x - 1) + 1 = x
  BY <1>1
<1>3. x - 1 \in S
  BY <1>1, <1>2
<1>. QED
  BY <1>1, <1>2, <1>3

LEMMA LargestNumber ==
  ASSUME NEW n \in Nat, NEW T \in SUBSET (1 .. n), T # {}
  PROVE  Max(T) \in T /\ \A y \in T : y <= Max(T)
<1> DEFINE bounds == {z \in Nat : \A y \in T : y <= z}
<1>1. bounds \in SUBSET Nat /\ n \in bounds
  OBVIOUS
<1>2. PICK z \in bounds : \A b \in bounds : z <= b
  BY <1>1, SmallestNumber
<1>3. z \in T
  <2> SUFFICES ASSUME z \notin T PROVE FALSE
    OBVIOUS
  <2>1. \A y \in T : y <= z - 1 /\ y >= 1
    BY <1>2
  <2>2. z - 1 \in Nat
    <3>1. PICK y \in T : TRUE
      OBVIOUS
    <3>2. y <= z - 1 /\ y >= 1 /\ y \in Nat /\ z \in Nat
      BY <1>2, <2>1
    <3>. QED
      BY <3>2
  <2>3. z - 1 \in bounds
    BY <2>1, <2>2
  <2>. QED
    BY <1>2, <2>2, <2>3
<1>4. \E x \in T : \A y \in T : x >= y
  BY <1>2, <1>3
<1>5. Max(T) \in T /\ \A y \in T : Max(T) >= y
  BY <1>4 DEF Max
<1>. QED
  BY <1>5

LEMMA LargestOfPrefix ==
  ASSUME NEW n \in Nat, NEW k \in 1 .. n
  PROVE  Max(1 .. k) = k /\ (1 .. k) \ {k} = 1 .. k - 1
<1>1. 1 .. k \in SUBSET (1 .. n) /\ k \in 1 .. k
  OBVIOUS
<1>2. Max(1 .. k) \in 1 .. k /\ \A y \in 1 .. k : y <= Max(1 .. k)
  BY <1>1, LargestNumber
<1>. QED
  BY <1>1, <1>2

(* The function a fold over a sequence stands for exists. *)
Steps(A, E) == [A -> [E -> A]]
Inputs(n, E) == [1 .. n -> E]
FoldsTo(n, seq, base, step, h) ==
  \A s \in SUBSET (1 .. n) :
    h[s] = IF s = {} THEN base ELSE step[h[s \ {Max(s)}]][seq[Max(s)]]

LEMMA FoldRuns ==
  ASSUME NEW A, NEW E, NEW n \in Nat, NEW step \in Steps(A, E), NEW base \in A,
         NEW seq \in Inputs(n, E)
  PROVE  \E h \in [SUBSET (1 .. n) -> A] : FoldsTo(n, seq, base, step, h)
<1>0. step \in [A -> [E -> A]] /\ seq \in [1 .. n -> E]
  BY DEF Steps, Inputs
<1> DEFINE Run(h, k) ==
             \A s \in SUBSET (1 .. k) :
               h[s] = IF s = {} THEN base ELSE step[h[s \ {Max(s)}]][seq[Max(s)]]
           S == {k \in 0 .. n : \E h \in [SUBSET (1 .. k) -> A] : Run(h, k)}
<1>1. 0 \in S
  <2> DEFINE h == [s \in SUBSET (1 .. 0) |-> base]
  <2>1. h \in [SUBSET (1 .. 0) -> A]
    OBVIOUS
  <2>2. \A s \in SUBSET (1 .. 0) : s = {}
    OBVIOUS
  <2>3. Run(h, 0)
    BY <2>2
  <2>4. 0 \in 0 .. n
    OBVIOUS
  <2> HIDE DEF h, Run
  <2>. QED
    BY <2>1, <2>3, <2>4
<1>2. ASSUME NEW k \in 0 .. n - 1, k \in S
      PROVE  k + 1 \in S
  <2>1. PICK h \in [SUBSET (1 .. k) -> A] : Run(h, k)
    BY <1>2
  <2> DEFINE g == [s \in SUBSET (1 .. k + 1) |->
                     IF k + 1 \in s THEN step[h[s \ {k + 1}]][seq[k + 1]] ELSE h[s]]
  <2>2. k \in Nat /\ k + 1 \in 1 .. n
    OBVIOUS
  <2>3. \A s \in SUBSET (1 .. k + 1) :
          /\ s \ {k + 1} \in SUBSET (1 .. k)
          /\ k + 1 \notin s => s \in SUBSET (1 .. k)
    BY <2>2
  <2>4. g \in [SUBSET (1 .. k + 1) -> A]
    <3>1. \A s \in SUBSET (1 .. k + 1) :
            (IF k + 1 \in s THEN step[h[s \ {k + 1}]][seq[k + 1]] ELSE h[s]) \in A
      BY <1>0, <2>1, <2>2, <2>3
    <3>. QED
      BY <3>1
  <2>5. ASSUME NEW s \in SUBSET (1 .. k + 1)
        PROVE  g[s] = IF s = {} THEN base ELSE step[g[s \ {Max(s)}]][seq[Max(s)]]
    <3>1. CASE k + 1 \in s
      <4>0. k + 1 \in Nat /\ s \in SUBSET (1 .. k + 1) /\ s # {}
        BY <2>2, <3>1
      <4>1. Max(s) \in s /\ k + 1 <= Max(s)
        BY <3>1, <4>0, LargestNumber
      <4>2. Max(s) = k + 1
        <5>1. Max(s) \in 1 .. k + 1
          BY <4>1
        <5>. QED
          BY <2>2, <4>1, <5>1
      <4>3. g[s] = step[h[s \ {k + 1}]][seq[k + 1]]
        BY <3>1
      <4>4. g[s \ {k + 1}] = h[s \ {k + 1}]
        BY <2>3
      <4>. QED
        BY <3>1, <4>2, <4>3, <4>4
    <3>2. CASE k + 1 \notin s
      <4>1. s \in SUBSET (1 .. k) /\ g[s] = h[s]
        BY <2>3, <3>2
      <4>2. s # {} => s \ {Max(s)} \in SUBSET (1 .. k)
        BY <4>1
      <4>3. \A t \in SUBSET (1 .. k) : g[t] = h[t]
        <5>1. \A t \in SUBSET (1 .. k) : t \in SUBSET (1 .. k + 1) /\ k + 1 \notin t
          BY <2>2
        <5>. QED
          BY <5>1
      <4> HIDE DEF g
      <4>. QED
        BY <2>1, <4>1, <4>2, <4>3
    <3>. QED
      BY <3>1, <3>2
  <2>6. Run(g, k + 1)
    BY <2>5
  <2> HIDE DEF g, Run
  <2>. QED
    BY <2>2, <2>4, <2>6
<1>3. n \in S
  <2>1. \A k \in 0 .. n - 1 : k \in S => k + 1 \in S
    BY <1>2
  <2> HIDE DEF S
  <2>2. 0 .. n \subseteq S
    BY <1>1, <2>1, PrefixInduction
  <2>. QED
    BY <2>2
<1>. QED
  BY <1>3 DEF FoldsTo

LEMMA TotalRuns ==
  ASSUME NEW n \in Nat, NEW items, DOMAIN items = 1 .. n,
         \A k \in 1 .. n : items[k].size \in Nat
  PROVE  \E p \in [0 .. n -> Nat] :
           /\ p[0] = 0 /\ p[n] = TotalSize(items)
           /\ \A k \in 1 .. n : p[k] = p[k - 1] + items[k].size
<1> DEFINE Next2(f) == [s \in SUBSET DOMAIN items |->
             IF s = {} THEN 0 ELSE f[s \ {Max(s)}] + items[Max(s)].size]
           F == CHOOSE f : f = Next2(f)
           step == [x \in Nat |-> [y \in Nat |-> x + y]]
           seq == [k \in 1 .. n |-> items[k].size]
<1>1. TotalSize(items) = F[DOMAIN items]
  BY DEF TotalSize, FoldLeft, MapThenFoldSet
<1>2. /\ step \in Steps(Nat, Nat) /\ seq \in Inputs(n, Nat)
      /\ \A x, y \in Nat : step[x][y] = x + y
  BY DEF Steps, Inputs
<1>3. \A k \in 1 .. n : seq[k] = items[k].size
  OBVIOUS
<1> HIDE DEF step, seq
<1>4. PICK h \in [SUBSET (1 .. n) -> Nat] : FoldsTo(n, seq, 0, step, h)
  <2>1. 0 \in Nat
    OBVIOUS
  <2>. QED
    BY <1>2, <2>1, FoldRuns
<1>5. ASSUME NEW s \in SUBSET (1 .. n), s # {}
      PROVE  Max(s) \in 1 .. n /\ s \ {Max(s)} \in SUBSET (1 .. n)
  BY <1>5, LargestNumber
<1>6. ASSUME NEW s \in SUBSET (1 .. n)
      PROVE  h[s] = IF s = {} THEN 0 ELSE h[s \ {Max(s)}] + items[Max(s)].size
  <2>1. CASE s = {}
    BY <1>4, <2>1 DEF FoldsTo
  <2>2. CASE s # {}
    <3>1. h[s \ {Max(s)}] \in Nat /\ seq[Max(s)] \in Nat /\ seq[Max(s)] = items[Max(s)].size
      BY <1>2, <1>3, <1>4, <1>5, <2>2 DEF Inputs
    <3>2. h[s] = step[h[s \ {Max(s)}]][seq[Max(s)]]
      BY <1>4, <2>2 DEF FoldsTo
    <3>. QED
      BY <1>2, <2>2, <3>1, <3>2
  <2>. QED
    BY <2>1, <2>2
<1>7. h = Next2(h)
  <2>1. h = [s \in SUBSET (1 .. n) |-> h[s]]
    BY <1>4
  <2>. QED
    BY <1>6, <2>1
<1>8. F = Next2(F)
  <2> HIDE DEF Next2
  <2>. QED
    BY <1>7
<1> HIDE DEF F
<1>9. \A s \in SUBSET (1 .. n) :
        F[s] = IF s = {} THEN 0 ELSE F[s \ {Max(s)}] + items[Max(s)].size
  BY <1>8
<1> HIDE DEF Next2
<1>10. F[{}] = 0
  BY <1>9
<1>11. ASSUME NEW k \in 1 .. n
       PROVE  F[1 .. k] = F[1 .. k - 1] + items[k].size
  <2>1. Max(1 .. k) = k /\ (1 .. k) \ {k} = 1 .. k - 1
    BY LargestOfPrefix
  <2>2. 1 .. k \in SUBSET (1 .. n) /\ 1 .. k # {}
    OBVIOUS
  <2>. QED
    BY <1>9, <2>1, <2>2
<1> DEFINE S == {k \in 0 .. n : F[1 .. k] \in Nat}
           p == [k \in 0 .. n |-> F[1 .. k]]
<1>12. 0 .. n \subseteq S
  <2>1. 1 .. 0 = {}
    OBVIOUS
  <2>2. 0 \in S
    BY <1>10, <2>1
  <2>3. ASSUME NEW k \in 0 .. n - 1, k \in S
        PROVE  k + 1 \in S
    <3>1. k + 1 \in 1 .. n /\ (k + 1) - 1 = k
      OBVIOUS
    <3>2. F[1 .. k + 1] = F[1 .. k] + items[k + 1].size
      BY <1>11, <3>1
    <3>. QED
      BY <2>3, <3>1, <3>2
  <2> HIDE DEF S
  <2>4. \A k \in 0 .. n - 1 : k \in S => k + 1 \in S
    BY <2>3
  <2>. QED
    BY <2>2, <2>4, PrefixInduction
<1>13. p \in [0 .. n -> Nat]
  BY <1>12
<1>14. p[0] = 0
  <2>1. 1 .. 0 = {} /\ 0 \in 0 .. n
    OBVIOUS
  <2>. QED
    BY <1>10, <2>1
<1>15. p[n] = TotalSize(items)
  BY <1>1
<1>16. \A k \in 1 .. n : p[k] = p[k - 1] + items[k].size
  <2>1. \A k \in 1 .. n : k \in 0 .. n /\ k - 1 \in 0 .. n
    OBVIOUS
  <2>. QED
    BY <1>11, <2>1
<1> HIDE DEF p
<1>. QED
  BY <1>13, <1>14, <1>15, <1>16

LEMMA LayoutRuns ==
  ASSUME NEW n \in Nat, NEW batch, DOMAIN batch = 1 .. n,
         \A k \in 1 .. n : batch[k].size \in Nat
  PROVE  \E p \in [0 .. n -> Nat] :
           /\ p[0] = 0 /\ p[n] = SizeOf(batch)
           /\ \A k \in 1 .. n : p[k] = AppendUploadSlice(p[k - 1], batch[k])
<1>0. \A x, y \in Nat : Aligned(x) \in Nat /\ Aligned(x) + y \in Nat
  BY DEF Aligned
<1> DEFINE Next2(f) == [s \in SUBSET DOMAIN batch |->
             IF s = {} THEN 0 ELSE AppendUploadSlice(f[s \ {Max(s)}], batch[Max(s)])]
           F == CHOOSE f : f = Next2(f)
           step == [x \in Nat |-> [y \in Nat |-> Aligned(x) + y]]
           seq == [k \in 1 .. n |-> batch[k].size]
<1>1. SizeOf(batch) = F[DOMAIN batch]
  BY DEF SizeOf, FoldLeft, MapThenFoldSet
<1>2. /\ step \in Steps(Nat, Nat) /\ seq \in Inputs(n, Nat)
      /\ \A x, y \in Nat : step[x][y] = Aligned(x) + y
  <2>1. \A x \in Nat : [y \in Nat |-> Aligned(x) + y] \in [Nat -> Nat]
    BY <1>0
  <2>2. step \in Steps(Nat, Nat)
    BY <2>1 DEF Steps
  <2>. QED
    BY <2>2 DEF Inputs
<1>3. \A k \in 1 .. n : seq[k] = batch[k].size
  OBVIOUS
<1> HIDE DEF step, seq
<1>4. PICK h \in [SUBSET (1 .. n) -> Nat] : FoldsTo(n, seq, 0, step, h)
  <2>1. 0 \in Nat
    OBVIOUS
  <2>. QED
    BY <1>2, <2>1, FoldRuns
<1>5. ASSUME NEW s \in SUBSET (1 .. n), s # {}
      PROVE  Max(s) \in 1 .. n /\ s \ {Max(s)} \in SUBSET (1 .. n)
  BY <1>5, LargestNumber
<1>6. ASSUME NEW s \in SUBSET (1 .. n)
      PROVE  h[s] = IF s = {} THEN 0 ELSE AppendUploadSlice(h[s \ {Max(s)}], batch[Max(s)])
  <2>1. CASE s = {}
    BY <1>4, <2>1 DEF FoldsTo
  <2>2. CASE s # {}
    <3>1. h[s \ {Max(s)}] \in Nat /\ seq[Max(s)] \in Nat /\ seq[Max(s)] = batch[Max(s)].size
      BY <1>2, <1>3, <1>4, <1>5, <2>2 DEF Inputs
    <3>2. h[s] = step[h[s \ {Max(s)}]][seq[Max(s)]]
      BY <1>4, <2>2 DEF FoldsTo
    <3>. QED
      BY <1>2, <2>2, <3>1, <3>2 DEF AppendUploadSlice
  <2>. QED
    BY <2>1, <2>2
<1>7. h = Next2(h)
  <2>1. h = [s \in SUBSET (1 .. n) |-> h[s]]
    BY <1>4
  <2>. QED
    BY <1>6, <2>1
<1>8. F = Next2(F)
  <2> HIDE DEF Next2
  <2>. QED
    BY <1>7
<1> HIDE DEF F
<1>9. \A s \in SUBSET (1 .. n) :
        F[s] = IF s = {} THEN 0 ELSE AppendUploadSlice(F[s \ {Max(s)}], batch[Max(s)])
  BY <1>8
<1> HIDE DEF Next2
<1>10. F[{}] = 0
  BY <1>9
<1>11. ASSUME NEW k \in 1 .. n
       PROVE  F[1 .. k] = AppendUploadSlice(F[1 .. k - 1], batch[k])
  <2>1. Max(1 .. k) = k /\ (1 .. k) \ {k} = 1 .. k - 1
    BY LargestOfPrefix
  <2>2. 1 .. k \in SUBSET (1 .. n) /\ 1 .. k # {}
    OBVIOUS
  <2>. QED
    BY <1>9, <2>1, <2>2
<1> DEFINE S == {k \in 0 .. n : F[1 .. k] \in Nat}
           p == [k \in 0 .. n |-> F[1 .. k]]
<1>12. 0 .. n \subseteq S
  <2>1. 1 .. 0 = {}
    OBVIOUS
  <2>2. 0 \in S
    BY <1>10, <2>1
  <2>3. ASSUME NEW k \in 0 .. n - 1, k \in S
        PROVE  k + 1 \in S
    <3>1. k + 1 \in 1 .. n /\ (k + 1) - 1 = k
      OBVIOUS
    <3>2. F[1 .. k + 1] = AppendUploadSlice(F[1 .. k], batch[k + 1])
      BY <1>11, <3>1
    <3>3. F[1 .. k] \in Nat /\ batch[k + 1].size \in Nat
      BY <2>3, <3>1
    <3>5. Aligned(F[1 .. k]) \in Nat
      BY <1>0, <3>3
    <3>4. F[1 .. k + 1] \in Nat
      BY <3>2, <3>3, <3>5 DEF AppendUploadSlice
    <3>. QED
      BY <3>4
  <2> HIDE DEF S
  <2>4. \A k \in 0 .. n - 1 : k \in S => k + 1 \in S
    BY <2>3
  <2>. QED
    BY <2>2, <2>4, PrefixInduction
<1>13. p \in [0 .. n -> Nat]
  BY <1>12
<1>14. p[0] = 0
  <2>1. 1 .. 0 = {} /\ 0 \in 0 .. n
    OBVIOUS
  <2>. QED
    BY <1>10, <2>1
<1>15. p[n] = SizeOf(batch)
  BY <1>1
<1>16. \A k \in 1 .. n : p[k] = AppendUploadSlice(p[k - 1], batch[k])
  <2>1. \A k \in 1 .. n : k \in 0 .. n /\ k - 1 \in 0 .. n
    OBVIOUS
  <2>. QED
    BY <1>11, <2>1
<1> HIDE DEF p
<1>. QED
  BY <1>13, <1>14, <1>15, <1>16

ArenaRecord ==
  [id : Nat, size : Nat, completion : Nat, payload : Nat, count : Nat,
   retains : SUBSET Destinations]
LeftRecord == [free : Int, wanted : Nat, kept : Seq(ArenaRecord)]

LEMMA EvictOneIs ==
  ASSUME NEW left \in LeftRecord, NEW arena \in ArenaRecord, NEW then, then = EvictOne(left, arena)
  PROVE  /\ then \in LeftRecord /\ then.wanted = left.wanted
         /\ left.free < left.wanted /\ IsIdle(arena) =>
              then.free = left.free + arena.size /\ then.kept = left.kept
         /\ ~ (left.free < left.wanted /\ IsIdle(arena)) =>
              then.free = left.free /\ then.kept = Append(left.kept, arena)
<1>1. left.free \in Int /\ left.wanted \in Nat /\ left.kept \in Seq(ArenaRecord)
      /\ arena.size \in Nat
  BY DEF LeftRecord, ArenaRecord
<1> DEFINE longer == Append(left.kept, arena)
<1>2. longer \in Seq(ArenaRecord) /\ left.free + arena.size \in Int
  BY <1>1
<1> HIDE DEF longer
<1>3. CASE left.free < left.wanted /\ IsIdle(arena)
  <2>1. then = [left EXCEPT !.free = left.free + arena.size]
    BY <1>3 DEF EvictOne
  <2>. QED
    BY <1>2, <1>3, <2>1 DEF LeftRecord
<1>4. CASE ~ (left.free < left.wanted /\ IsIdle(arena))
  <2>1. then = [left EXCEPT !.kept = longer]
    BY <1>4 DEF EvictOne, longer
  <2>2. /\ then \in LeftRecord /\ then.wanted = left.wanted
        /\ then.free = left.free /\ then.kept = longer
    BY <1>2, <2>1 DEF LeftRecord
  <2>. QED
    BY <1>4, <2>2 DEF longer
<1>. QED
  BY <1>3, <1>4

EvictAll(base, all) == FoldLeft(EvictOne, base, all)

LEMMA EvictRuns ==
  ASSUME NEW n \in Nat, NEW all \in Inputs(n, ArenaRecord), NEW base \in LeftRecord
  PROVE  \E p \in [0 .. n -> LeftRecord] :
           /\ p[0] = base /\ p[n] = EvictAll(base, all)
           /\ \A k \in 1 .. n : p[k] = EvictOne(p[k - 1], all[k])
<1> DEFINE Next2(f) == [s \in SUBSET DOMAIN all |->
             IF s = {} THEN base ELSE EvictOne(f[s \ {Max(s)}], all[Max(s)])]
           F == CHOOSE f : f = Next2(f)
           step == [x \in LeftRecord |-> [y \in ArenaRecord |-> EvictOne(x, y)]]
<1>0. \A x \in LeftRecord, y \in ArenaRecord : EvictOne(x, y) \in LeftRecord
  BY EvictOneIs
<1>1. EvictAll(base, all) = F[DOMAIN all]
  BY DEF EvictAll, FoldLeft, MapThenFoldSet
<1>2. /\ step \in Steps(LeftRecord, ArenaRecord) /\ DOMAIN all = 1 .. n
      /\ \A k \in 1 .. n : all[k] \in ArenaRecord
      /\ \A x \in LeftRecord, y \in ArenaRecord : step[x][y] = EvictOne(x, y)
  <2>1. \A x \in LeftRecord : [y \in ArenaRecord |-> EvictOne(x, y)] \in [ArenaRecord -> LeftRecord]
    BY <1>0
  <2>2. step \in Steps(LeftRecord, ArenaRecord)
    BY <2>1 DEF Steps
  <2>. QED
    BY <2>2 DEF Inputs
<1> HIDE DEF step
<1>4. PICK h \in [SUBSET (1 .. n) -> LeftRecord] : FoldsTo(n, all, base, step, h)
  BY <1>2, FoldRuns
<1>5. ASSUME NEW s \in SUBSET (1 .. n), s # {}
      PROVE  Max(s) \in 1 .. n /\ s \ {Max(s)} \in SUBSET (1 .. n)
  BY <1>5, LargestNumber
<1>6. ASSUME NEW s \in SUBSET (1 .. n)
      PROVE  h[s] = IF s = {} THEN base ELSE EvictOne(h[s \ {Max(s)}], all[Max(s)])
  <2>1. CASE s = {}
    BY <1>4, <2>1 DEF FoldsTo
  <2>2. CASE s # {}
    <3>1. h[s \ {Max(s)}] \in LeftRecord /\ all[Max(s)] \in ArenaRecord
      BY <1>2, <1>4, <1>5, <2>2
    <3>2. h[s] = step[h[s \ {Max(s)}]][all[Max(s)]]
      BY <1>4, <2>2 DEF FoldsTo
    <3>. QED
      BY <1>2, <2>2, <3>1, <3>2
  <2>. QED
    BY <2>1, <2>2
<1>7. h = Next2(h)
  <2>1. h = [s \in SUBSET (1 .. n) |-> h[s]]
    BY <1>4
  <2>. QED
    BY <1>2, <1>6, <2>1
<1>8. F = Next2(F)
  <2> HIDE DEF Next2
  <2>. QED
    BY <1>7
<1> HIDE DEF F
<1>9. \A s \in SUBSET (1 .. n) :
        F[s] = IF s = {} THEN base ELSE EvictOne(F[s \ {Max(s)}], all[Max(s)])
  BY <1>2, <1>8
<1> HIDE DEF Next2
<1>10. F[{}] = base
  BY <1>9
<1>11. ASSUME NEW k \in 1 .. n
       PROVE  F[1 .. k] = EvictOne(F[1 .. k - 1], all[k])
  <2>1. Max(1 .. k) = k /\ (1 .. k) \ {k} = 1 .. k - 1
    BY LargestOfPrefix
  <2>2. 1 .. k \in SUBSET (1 .. n) /\ 1 .. k # {}
    OBVIOUS
  <2>. QED
    BY <1>9, <2>1, <2>2
<1> DEFINE S == {k \in 0 .. n : F[1 .. k] \in LeftRecord}
           p == [k \in 0 .. n |-> F[1 .. k]]
<1>12. 0 .. n \subseteq S
  <2>1. 1 .. 0 = {}
    OBVIOUS
  <2>2. 0 \in S
    BY <1>10, <2>1
  <2>3. ASSUME NEW k \in 0 .. n - 1, k \in S
        PROVE  k + 1 \in S
    <3>1. k + 1 \in 1 .. n /\ (k + 1) - 1 = k
      OBVIOUS
    <3>2. F[1 .. k + 1] = EvictOne(F[1 .. k], all[k + 1])
      BY <1>11, <3>1
    <3>. QED
      BY <1>0, <1>2, <2>3, <3>1, <3>2
  <2> HIDE DEF S
  <2>4. \A k \in 0 .. n - 1 : k \in S => k + 1 \in S
    BY <2>3
  <2>. QED
    BY <2>2, <2>4, PrefixInduction
<1>13. p \in [0 .. n -> LeftRecord]
  BY <1>12
<1>14. p[0] = base
  <2>1. 1 .. 0 = {} /\ 0 \in 0 .. n
    OBVIOUS
  <2>. QED
    BY <1>10, <2>1
<1>15. p[n] = EvictAll(base, all)
  BY <1>1, <1>2
<1>16. \A k \in 1 .. n : p[k] = EvictOne(p[k - 1], all[k])
  <2>1. \A k \in 1 .. n : k \in 0 .. n /\ k - 1 \in 0 .. n
    OBVIOUS
  <2>. QED
    BY <1>11, <2>1
<1> HIDE DEF p
<1>. QED
  BY <1>13, <1>14, <1>15, <1>16

(* The bytes of a sequence of arenas. *)
IsTotal(p, n, items) ==
  /\ p \in [0 .. n -> Nat] /\ p[0] = 0
  /\ \A k \in 1 .. n : p[k] = p[k - 1] + items[k].size

LEMMA TotalIs ==
  ASSUME NEW all \in Seq(ArenaRecord)
  PROVE  /\ \E p : IsTotal(p, Len(all), all) /\ p[Len(all)] = TotalSize(all)
         /\ TotalSize(all) \in Nat
<1>1. /\ Len(all) \in Nat /\ DOMAIN all = 1 .. Len(all)
      /\ \A k \in 1 .. Len(all) : all[k].size \in Nat
  <2>1. \A k \in 1 .. Len(all) : all[k] \in ArenaRecord
    OBVIOUS
  <2>2. \A k \in 1 .. Len(all) : all[k].size \in Nat
    BY <2>1 DEF ArenaRecord
  <2>. QED
    BY <2>2
<1>2. \E p \in [0 .. Len(all) -> Nat] :
           /\ p[0] = 0 /\ p[Len(all)] = TotalSize(all)
           /\ \A k \in 1 .. Len(all) : p[k] = p[k - 1] + all[k].size
  BY <1>1, TotalRuns
<1>3. PICK p : IsTotal(p, Len(all), all) /\ p[Len(all)] = TotalSize(all)
  BY <1>2 DEF IsTotal
<1>4. Len(all) \in 0 .. Len(all)
  BY <1>1
<1>. QED
  BY <1>3, <1>4 DEF IsTotal

LEMMA TotalsAgree ==
  ASSUME NEW n \in Nat, NEW m \in Nat, n <= m, NEW items, NEW others, NEW p, NEW q,
         IsTotal(p, n, items), IsTotal(q, m, others),
         \A k \in 1 .. n : items[k].size = others[k].size
  PROVE  p[n] = q[n]
<1> DEFINE S == {k \in 0 .. n : p[k] = q[k]}
<1>1. 0 \in S
  BY DEF IsTotal
<1>2. ASSUME NEW k \in 0 .. n - 1, k \in S
      PROVE  k + 1 \in S
  <2>1. k + 1 \in 1 .. n /\ k + 1 \in 1 .. m /\ (k + 1) - 1 = k
    OBVIOUS
  <2>2. p[k + 1] = p[k] + items[k + 1].size /\ q[k + 1] = q[k] + others[k + 1].size
    BY <2>1 DEF IsTotal
  <2>. QED
    BY <1>2, <2>1, <2>2
<1>3. \A k \in 0 .. n - 1 : k \in S => k + 1 \in S
  BY <1>2
<1>4. 0 .. n \subseteq S
  <2> HIDE DEF S
  <2>. QED
    BY <1>1, <1>3, PrefixInduction
<1>. QED
  BY <1>4

LEMMA SameTotal ==
  ASSUME NEW all \in Seq(ArenaRecord), NEW others \in Seq(ArenaRecord), Len(all) = Len(others),
         \A k \in 1 .. Len(all) : all[k].size = others[k].size
  PROVE  TotalSize(all) = TotalSize(others)
<1>1. PICK p : IsTotal(p, Len(all), all) /\ p[Len(all)] = TotalSize(all)
  BY TotalIs
<1>2. PICK q : IsTotal(q, Len(others), others) /\ q[Len(others)] = TotalSize(others)
  BY TotalIs
<1>3. Len(all) \in Nat /\ Len(others) \in Nat /\ Len(all) <= Len(others)
  OBVIOUS
<1>4. p[Len(all)] = q[Len(all)]
  BY <1>1, <1>2, <1>3, TotalsAgree
<1>. QED
  BY <1>1, <1>2, <1>4

LEMMA LongerTotal ==
  ASSUME NEW all \in Seq(ArenaRecord), NEW arena \in ArenaRecord
  PROVE  /\ Append(all, arena) \in Seq(ArenaRecord)
         /\ TotalSize(Append(all, arena)) = TotalSize(all) + arena.size
<1> DEFINE longer == Append(all, arena)
           n == Len(all)
<1>1. /\ longer \in Seq(ArenaRecord) /\ Len(longer) = n + 1 /\ n \in Nat
      /\ \A k \in 1 .. n : longer[k] = all[k]
      /\ longer[n + 1] = arena
  OBVIOUS
<1> HIDE DEF longer
<1>2. PICK p : IsTotal(p, n, all) /\ p[n] = TotalSize(all)
  BY TotalIs
<1>3. PICK q : IsTotal(q, n + 1, longer) /\ q[n + 1] = TotalSize(longer)
  BY <1>1, TotalIs
<1>4. p[n] = q[n]
  <2>1. n + 1 \in Nat /\ n <= n + 1 /\ \A k \in 1 .. n : all[k].size = longer[k].size
    BY <1>1
  <2> HIDE DEF n
  <2>. QED
    BY <1>1, <1>2, <1>3, <2>1, TotalsAgree
<1>5. q[n + 1] = q[n] + arena.size
  <2>1. n + 1 \in 1 .. n + 1 /\ (n + 1) - 1 = n
    BY <1>1
  <2>. QED
    BY <1>1, <1>3, <2>1 DEF IsTotal
<1>6. longer \in Seq(ArenaRecord) /\ TotalSize(longer) = TotalSize(all) + arena.size
  BY <1>1, <1>2, <1>3, <1>4, <1>5
<1>. QED
  BY <1>6 DEF longer

LEMMA NoTotal == TotalSize(<<>>) = 0
<1>1. <<>> \in Seq(ArenaRecord) /\ Len(<<>>) = 0
  OBVIOUS
<1>2. PICK p : IsTotal(p, 0, <<>>) /\ p[0] = TotalSize(<<>>)
  BY <1>1, TotalIs
<1>. QED
  BY <1>2 DEF IsTotal

LEMMA UploadNumbers ==
  /\ ArenaSize \in Nat /\ MaxStaging \in Nat /\ ArenaSize <= MaxStaging
  /\ Batches \subseteq Seq([to : Destinations, size : Nat])
BY UploadsAssumption

(* An eviction keeps every arena in use, and counts the bytes it frees. *)
LEMMA EvictedAre ==
  ASSUME NEW all \in Seq(ArenaRecord), NEW size \in Nat, staging = TotalSize(all),
         staging <= MaxStaging
  PROVE  LET evicted == Evicted(all, size)
         IN  /\ evicted \in LeftRecord /\ evicted.wanted = Capacity(size)
             /\ evicted.free >= 0 /\ TotalSize(evicted.kept) = MaxStaging - evicted.free
             /\ \A k \in 1 .. Len(all) : ~ IsIdle(all[k]) =>
                  \E m \in 1 .. Len(evicted.kept) : evicted.kept[m] = all[k]
<1> DEFINE n == Len(all)
           base == [free |-> MaxStaging - staging, wanted |-> Capacity(size), kept |-> <<>>]
<1>1. n \in Nat /\ all \in Inputs(n, ArenaRecord) /\ staging \in Nat /\ MaxStaging \in Nat
  BY TotalIs, UploadNumbers DEF Inputs
<1>2. base \in LeftRecord /\ base.free = MaxStaging - staging /\ base.wanted = Capacity(size)
      /\ base.kept = <<>>
  BY <1>1, UploadNumbers DEF Capacity, LeftRecord
<1>3. Evicted(all, size) = EvictAll(base, all)
  BY DEF Evicted, EvictAll
<1> HIDE DEF base
<1>4. PICK p \in [0 .. n -> LeftRecord] :
           /\ p[0] = base /\ p[n] = EvictAll(base, all)
           /\ \A k \in 1 .. n : p[k] = EvictOne(p[k - 1], all[k])
  <2> HIDE DEF n
  <2>1. n \in Nat /\ all \in Inputs(n, ArenaRecord) /\ base \in LeftRecord
    BY <1>1, <1>2
  <2>. QED
    BY <2>1, EvictRuns, Zenon
<1>5. PICK t : IsTotal(t, n, all) /\ t[n] = staging
  BY TotalIs
<1> DEFINE Good(k) ==
             /\ p[k].wanted = Capacity(size) /\ p[k].free >= 0
             /\ TotalSize(p[k].kept) + p[k].free = (MaxStaging - staging) + t[k]
             /\ \A j \in 1 .. k : ~ IsIdle(all[j]) =>
                  \E m \in 1 .. Len(p[k].kept) : p[k].kept[m] = all[j]
           S == {k \in 0 .. n : Good(k)}
<1>6. 0 \in S
  <2>1. p[0] = base /\ t[0] = 0 /\ 0 \in 0 .. n
    BY <1>1, <1>4, <1>5 DEF IsTotal
  <2>2. TotalSize(p[0].kept) = 0
    BY <1>2, <2>1, NoTotal
  <2>. QED
    BY <1>1, <1>2, <2>1, <2>2
<1>7. ASSUME NEW k \in 0 .. n - 1, Good(k)
      PROVE  Good(k + 1)
  <2>1. k + 1 \in 1 .. n /\ (k + 1) - 1 = k /\ k \in 0 .. n /\ k + 1 \in 0 .. n /\ k \in Nat
    BY <1>1
  <2> DEFINE left == p[k]
             after2 == p[k + 1]
             arena == all[k + 1]
  <2>2. left \in LeftRecord /\ arena \in ArenaRecord /\ after2 = EvictOne(left, arena)
    BY <1>1, <1>4, <2>1 DEF Inputs
  <2>3. left.free \in Int /\ left.kept \in Seq(ArenaRecord) /\ arena.size \in Nat
        /\ TotalSize(left.kept) \in Nat /\ left.free >= 0
    BY <1>7, <2>2, TotalIs DEF LeftRecord, ArenaRecord
  <2>4. t[k + 1] = t[k] + arena.size /\ t[k] \in Nat
    BY <1>5, <2>1 DEF IsTotal
  <2>5. /\ left.wanted = Capacity(size)
        /\ TotalSize(left.kept) + left.free = (MaxStaging - staging) + t[k]
        /\ \A j \in 1 .. k : ~ IsIdle(all[j]) => \E m \in 1 .. Len(left.kept) : left.kept[m] = all[j]
    BY <1>7
  <2>10. \A j \in 1 .. k + 1 : j \in 1 .. k \/ j = k + 1
    BY <2>1
  <2>11. /\ TotalSize(left.kept) + (left.free + arena.size)
               = (MaxStaging - staging) + (t[k] + arena.size)
         /\ (TotalSize(left.kept) + arena.size) + left.free
               = (MaxStaging - staging) + (t[k] + arena.size)
    <3> HIDE DEF left, arena
    <3>1. PICK x \in Int : x = TotalSize(left.kept)
      BY <2>3
    <3>2. PICK f \in Int : f = left.free
      BY <2>3
    <3>3. PICK a \in Int : a = arena.size
      BY <2>3
    <3>4. PICK c \in Int : c = MaxStaging - staging
      BY <1>1
    <3>5. PICK y \in Int : y = t[k]
      BY <2>4
    <3>6. x + f = c + y
      BY <2>5, <3>1, <3>2, <3>4, <3>5
    <3>7. x + (f + a) = c + (y + a) /\ (x + a) + f = c + (y + a)
      BY <3>6
    <3>. QED
      BY <3>1, <3>2, <3>3, <3>4, <3>5, <3>7
  <2>6. CASE left.free < left.wanted /\ IsIdle(arena)
    <3>1. after2.free = left.free + arena.size /\ after2.kept = left.kept
          /\ after2.wanted = left.wanted
      <4> HIDE DEF left, after2, arena
      <4>. QED
        BY <2>2, <2>6, EvictOneIs
    <3>2. \A j \in 1 .. k + 1 : ~ IsIdle(all[j]) =>
                  \E m \in 1 .. Len(after2.kept) : after2.kept[m] = all[j]
      BY <2>5, <2>6, <2>10, <3>1
    <3> HIDE DEF left, after2, arena
    <3>3. after2.free >= 0 /\ TotalSize(after2.kept) + after2.free = (MaxStaging - staging) + t[k + 1]
      BY <2>3, <2>4, <2>11, <3>1
    <3>. QED
      BY <2>5, <3>1, <3>2, <3>3 DEF after2
  <2>7. CASE ~ (left.free < left.wanted /\ IsIdle(arena))
    <3>1. after2.free = left.free /\ after2.kept = Append(left.kept, arena)
          /\ after2.wanted = left.wanted
      <4> HIDE DEF left, after2, arena
      <4>. QED
        BY <2>2, <2>7, EvictOneIs
    <3>2. TotalSize(after2.kept) = TotalSize(left.kept) + arena.size
      BY <2>2, <2>3, <3>1, LongerTotal
    <3> HIDE DEF left, after2, arena
    <3>3. /\ Len(after2.kept) = Len(left.kept) + 1 /\ Len(left.kept) \in Nat
          /\ \A m \in 1 .. Len(left.kept) : after2.kept[m] = left.kept[m]
          /\ after2.kept[Len(left.kept) + 1] = arena
      BY <2>2, <2>3, <3>1
    <3>4. \A j \in 1 .. k + 1 : ~ IsIdle(all[j]) =>
                  \E m \in 1 .. Len(after2.kept) : after2.kept[m] = all[j]
      <4> SUFFICES ASSUME NEW j \in 1 .. k + 1, ~ IsIdle(all[j])
                   PROVE  \E m \in 1 .. Len(after2.kept) : after2.kept[m] = all[j]
        OBVIOUS
      <4>1. CASE j \in 1 .. k
        <5>1. PICK m \in 1 .. Len(left.kept) : left.kept[m] = all[j]
          BY <2>5, <4>1
        <5>2. m \in 1 .. Len(after2.kept)
          BY <3>3
        <5>. QED
          BY <3>3, <5>1, <5>2
      <4>2. CASE j = k + 1
        <5>1. Len(left.kept) + 1 \in 1 .. Len(after2.kept)
          BY <3>3
        <5>2. all[j] = arena
          BY <4>2 DEF arena
        <5>. QED
          BY <3>3, <5>1, <5>2
      <4>. QED
        BY <2>10, <4>1, <4>2
    <3>5. after2.free >= 0 /\ TotalSize(after2.kept) + after2.free = (MaxStaging - staging) + t[k + 1]
      BY <2>3, <2>4, <2>11, <3>1, <3>2
    <3>. QED
      BY <2>5, <3>1, <3>4, <3>5 DEF after2
  <2>. QED
    BY <2>6, <2>7
<1>8. Good(n)
  <2> HIDE DEF Good
  <2>1. \A k \in 0 .. n - 1 : k \in S => k + 1 \in S
    <3>1. \A k \in 0 .. n - 1 : k + 1 \in 0 .. n
      BY <1>1
    <3>. QED
      BY <1>7, <3>1
  <2>2. 0 .. n \subseteq S
    <3> HIDE DEF S, n
    <3>. QED
      BY <1>1, <1>6, <2>1, PrefixInduction
  <2>3. n \in 0 .. n
    BY <1>1
  <2>. QED
    BY <2>2, <2>3
<1>9. p[n] = Evicted(all, size) /\ p[n] \in LeftRecord
  <2>1. n \in 0 .. n
    BY <1>1
  <2>. QED
    BY <1>3, <1>4, <2>1
<1> DEFINE final == p[n]
<1>10. /\ final.wanted = Capacity(size) /\ final.free >= 0
       /\ TotalSize(final.kept) + final.free = (MaxStaging - staging) + staging
       /\ \A j \in 1 .. n : ~ IsIdle(all[j]) =>
                  \E m \in 1 .. Len(final.kept) : final.kept[m] = all[j]
  BY <1>5, <1>8
<1>11. final.free \in Int /\ TotalSize(final.kept) \in Nat
  BY <1>9, TotalIs DEF LeftRecord
<1> HIDE DEF final
<1>12. TotalSize(final.kept) = MaxStaging - final.free
  BY <1>1, <1>10, <1>11
<1>. QED
  BY <1>9, <1>10, <1>12 DEF final

CopyRecord == [value : Nat, arena : Nat, end : Nat, to : SUBSET Destinations]

UploadsTyped ==
  /\ arenas \in Seq(ArenaRecord) /\ staging \in Nat /\ owned \subseteq Destinations
  /\ totals \in [uploads : Nat, submissions : Nat, allocations : Nat]
  /\ gpu \in [next : Nat, done : Nat, copies : SUBSET CopyRecord] /\ gpu.done < gpu.next
  /\ \A c \in gpu.copies : gpu.done < c.value /\ c.value < gpu.next

(* An arena that serves a copy is in use, which is what keeps it. *)
Serves(arena, c) ==
  /\ arena.id = c.arena /\ arena.completion = c.value /\ arena.size >= c.end
  /\ c.to \subseteq arena.retains
AllServed(all) == \A c \in gpu.copies : \E k \in 1 .. Len(all) : Serves(all[k], c)

UploadsInv == UploadsTyped /\ AllServed(arenas) /\ BudgetHolds

LEMMA BatchIs ==
  ASSUME NEW batch \in Batches
  PROVE  /\ SizeOf(batch) \in Nat /\ PayloadOf(batch) \in Nat /\ Len(batch) \in Nat
         /\ DestinationsOf(batch) \in SUBSET Destinations
<1>1. batch \in Seq([to : Destinations, size : Nat])
  BY UploadNumbers
<1>2. /\ Len(batch) \in Nat /\ DOMAIN batch = 1 .. Len(batch)
      /\ \A k \in 1 .. Len(batch) : batch[k].to \in Destinations /\ batch[k].size \in Nat
  <2> DEFINE Upload == [to : Destinations, size : Nat]
  <2>1. batch \in Seq(Upload)
    BY <1>1
  <2>2. \A upload \in Upload : upload.to \in Destinations /\ upload.size \in Nat
    OBVIOUS
  <2> HIDE DEF Upload
  <2>3. /\ Len(batch) \in Nat /\ DOMAIN batch = 1 .. Len(batch)
        /\ \A k \in 1 .. Len(batch) : batch[k] \in Upload
    BY <2>1
  <2>. QED
    BY <2>2, <2>3
<1>3. \E p \in [0 .. Len(batch) -> Nat] : p[Len(batch)] = SizeOf(batch)
  BY <1>2, LayoutRuns
<1>4. \E p \in [0 .. Len(batch) -> Nat] : p[Len(batch)] = TotalSize(batch)
  BY <1>2, TotalRuns
<1>5. Len(batch) \in 0 .. Len(batch)
  BY <1>2
<1>. QED
  BY <1>2, <1>3, <1>4, <1>5 DEF PayloadOf, DestinationsOf

LEMMA EmptiedIs ==
  ASSUME NEW arena \in ArenaRecord
  PROVE  /\ ArenaEmptied(arena) \in ArenaRecord
         /\ ArenaEmptied(arena).size = arena.size
BY DEF ArenaEmptied, ArenaRecord

(* The arenas whose copies are done become idle, the others stay. *)
LEMMA ReleasedAre ==
  ASSUME UploadsTyped, AllServed(arenas)
  PROVE  /\ Released \in Seq(ArenaRecord) /\ AllServed(Released)
         /\ TotalSize(Released) = TotalSize(arenas)
<1> DEFINE n == Len(arenas)
           One(k) == IF ~IsIdle(arenas[k]) /\ IsDone(arenas[k].completion)
                     THEN ArenaEmptied(arenas[k]) ELSE arenas[k]
<1>1. /\ arenas \in Seq(ArenaRecord) /\ n \in Nat
      /\ \A k \in 1 .. n : arenas[k] \in ArenaRecord
  BY DEF UploadsTyped
<1>2. \A k \in 1 .. n : One(k) \in ArenaRecord /\ One(k).size = arenas[k].size
  BY <1>1, EmptiedIs
<1>3. Released = [k \in 1 .. n |-> One(k)]
  BY DEF Released
<1> HIDE DEF One
<1>4. /\ Released \in Seq(ArenaRecord) /\ Len(Released) = n
      /\ \A k \in 1 .. n : Released[k] = One(k)
  BY <1>1, <1>2, <1>3
<1>5. TotalSize(Released) = TotalSize(arenas)
  BY <1>1, <1>2, <1>4, SameTotal
<1>6. AllServed(Released)
  <2> SUFFICES ASSUME NEW c \in gpu.copies
               PROVE  \E k \in 1 .. Len(Released) : Serves(Released[k], c)
    BY DEF AllServed
  <2>1. PICK k \in 1 .. n : Serves(arenas[k], c)
    BY DEF AllServed
  <2>2. gpu.done < c.value /\ gpu.done \in Nat /\ c.value \in Nat
    BY DEF UploadsTyped, CopyRecord
  <2>3. ~ IsDone(arenas[k].completion)
    BY <2>1, <2>2 DEF IsDone, Serves
  <2>4. One(k) = arenas[k]
    BY <2>3 DEF One
  <2>. QED
    BY <1>4, <2>1, <2>4
<1>. QED
  BY <1>4, <1>5, <1>6

(* A batch goes to an idle arena that is large enough. *)
LEMMA RecordsKeepUploads ==
  ASSUME UploadsTyped, NEW all \in Seq(ArenaRecord), AllServed(all),
         NEW k \in 1 .. Len(all), IsIdle(all[k]), NEW batch \in Batches,
         all[k].size >= SizeOf(batch), Records(all, k, batch)
  PROVE  /\ arenas' \in Seq(ArenaRecord) /\ TotalSize(arenas') = TotalSize(all)
         /\ gpu' \in [next : Nat, done : Nat, copies : SUBSET CopyRecord]
         /\ gpu'.done < gpu'.next
         /\ \A c \in gpu'.copies : /\ gpu'.done < c.value /\ c.value < gpu'.next
                                   /\ \E m \in 1 .. Len(arenas') : Serves(arenas'[m], c)
<1>1. /\ gpu \in [next : Nat, done : Nat, copies : SUBSET CopyRecord] /\ gpu.done < gpu.next
      /\ \A c \in gpu.copies : gpu.done < c.value /\ c.value < gpu.next /\ c \in CopyRecord
  BY DEF UploadsTyped
<1>2. all[k] \in ArenaRecord /\ Len(all) \in Nat
  OBVIOUS
<1>3. ASSUME NEW arena \in ArenaRecord, arena.size = all[k].size,
             arenas' = [all EXCEPT ![k] = arena]
      PROVE  /\ arenas' \in Seq(ArenaRecord) /\ Len(arenas') = Len(all) /\ arenas'[k] = arena
             /\ \A m \in 1 .. Len(all) : m # k => arenas'[m] = all[m]
             /\ TotalSize(arenas') = TotalSize(all)
             /\ \A c \in gpu.copies : \E m \in 1 .. Len(arenas') : Serves(arenas'[m], c)
  <2>1. /\ arenas' \in Seq(ArenaRecord) /\ Len(arenas') = Len(all) /\ arenas'[k] = arena
        /\ \A m \in 1 .. Len(all) : m # k => arenas'[m] = all[m]
    BY <1>3
  <2>2. \A m \in 1 .. Len(all) : arenas'[m].size = all[m].size
    BY <1>3, <2>1
  <2>3. TotalSize(arenas') = TotalSize(all)
    BY <2>1, <2>2, SameTotal
  <2>4. ASSUME NEW c \in gpu.copies
        PROVE  \E m \in 1 .. Len(arenas') : Serves(arenas'[m], c)
    <3>1. PICK m \in 1 .. Len(all) : Serves(all[m], c)
      BY DEF AllServed
    <3>2. m # k
      <4>1. c.value # 0
        BY <1>1 DEF CopyRecord
      <4>. QED
        BY <3>1, <4>1 DEF Serves, IsIdle
    <3>. QED
      BY <2>1, <3>1, <3>2
  <2>. QED
    BY <2>1, <2>3, <2>4
<1>4. CASE Submits(all, k, batch)
  <2> DEFINE arena == [all[k] EXCEPT !.completion = gpu.next, !.payload = PayloadOf(batch),
                                     !.count = Len(batch), !.retains = DestinationsOf(batch)]
             copy == [value |-> gpu.next, arena |-> all[k].id, end |-> SizeOf(batch),
                      to |-> DestinationsOf(batch)]
  <2>1. arenas' = [all EXCEPT ![k] = arena]
    BY <1>2, <1>4 DEF Submits, ArenaRecord
  <2>2. gpu' = [gpu EXCEPT !.next = gpu.next + 1, !.copies = gpu.copies \cup {copy}]
    BY <1>4 DEF Submits
  <2>3. gpu.next \in Nat /\ SizeOf(batch) \in Nat /\ PayloadOf(batch) \in Nat
        /\ Len(batch) \in Nat /\ DestinationsOf(batch) \in SUBSET Destinations
        /\ all[k].id \in Nat /\ all[k].size \in Nat
    BY <1>1, <1>2, BatchIs DEF ArenaRecord
  <2>4. /\ arena \in ArenaRecord /\ arena.size = all[k].size /\ arena.id = all[k].id
        /\ arena.completion = gpu.next /\ arena.retains = DestinationsOf(batch)
    BY <1>2, <2>3 DEF ArenaRecord
  <2>5. /\ copy \in CopyRecord /\ copy.value = gpu.next /\ copy.arena = all[k].id
        /\ copy.end = SizeOf(batch) /\ copy.to = DestinationsOf(batch)
    BY <2>3 DEF CopyRecord
  <2> HIDE DEF arena, copy
  <2>6. Serves(arena, copy)
    BY <2>4, <2>5 DEF Serves
  <2>7. /\ gpu' \in [next : Nat, done : Nat, copies : SUBSET CopyRecord]
        /\ gpu'.next = gpu.next + 1 /\ gpu'.done = gpu.done /\ gpu'.copies = gpu.copies \cup {copy}
    <3> DEFINE more == gpu.copies \cup {copy}
    <3>1. more \in SUBSET CopyRecord /\ gpu.next + 1 \in Nat
      BY <1>1, <2>3, <2>5
    <3>2. gpu' = [gpu EXCEPT !.next = gpu.next + 1, !.copies = more]
      BY <2>2
    <3> HIDE DEF more
    <3>3. /\ gpu' \in [next : Nat, done : Nat, copies : SUBSET CopyRecord]
          /\ gpu'.next = gpu.next + 1 /\ gpu'.done = gpu.done /\ gpu'.copies = more
      BY <1>1, <3>1, <3>2
    <3>. QED
      BY <3>3 DEF more
  <2>8. gpu'.done < gpu'.next
        /\ \A c \in gpu'.copies : gpu'.done < c.value /\ c.value < gpu'.next
    <3>1. \A c \in gpu.copies : c.value \in Nat
      BY <1>1 DEF CopyRecord
    <3>2. gpu.done \in Nat /\ gpu.next \in Nat
      BY <1>1
    <3>. QED
      BY <1>1, <2>5, <2>7, <3>1, <3>2
  <2>9. /\ arenas' \in Seq(ArenaRecord) /\ Len(arenas') = Len(all) /\ arenas'[k] = arena
        /\ TotalSize(arenas') = TotalSize(all)
        /\ \A c \in gpu.copies : \E m \in 1 .. Len(arenas') : Serves(arenas'[m], c)
    BY <1>3, <2>1, <2>4
  <2>10. \A c \in gpu'.copies : \E m \in 1 .. Len(arenas') : Serves(arenas'[m], c)
    BY <2>6, <2>7, <2>9
  <2>. QED
    BY <2>7, <2>8, <2>9, <2>10
<1>5. CASE arenas' = [all EXCEPT ![k].retains = {}] /\ gpu' = gpu
  <2> DEFINE arena == [all[k] EXCEPT !.retains = {}]
  <2>1. arenas' = [all EXCEPT ![k] = arena]
    BY <1>2, <1>5 DEF ArenaRecord
  <2>2. arena \in ArenaRecord /\ arena.size = all[k].size
    BY <1>2 DEF ArenaRecord
  <2> HIDE DEF arena
  <2>3. /\ arenas' \in Seq(ArenaRecord) /\ TotalSize(arenas') = TotalSize(all)
        /\ \A c \in gpu.copies : \E m \in 1 .. Len(arenas') : Serves(arenas'[m], c)
    BY <1>3, <2>1, <2>2
  <2>. QED
    BY <1>1, <1>5, <2>3
<1>. QED
  BY <1>4, <1>5 DEF Records

LEMMA UploadsStart == UploadInit => UploadsInv
<1> SUFFICES ASSUME UploadInit PROVE UploadsInv
  OBVIOUS
<1>1. UploadsTyped /\ AllServed(arenas)
  BY DEF UploadInit, UploadsTyped, AllServed
<1>2. BudgetHolds
  BY NoTotal, UploadNumbers DEF UploadInit, BudgetHolds
<1>. QED
  BY <1>1, <1>2 DEF UploadsInv

(* Counting the submissions keeps the counters numbers. *)
LEMMA CountedIs ==
  ASSUME UploadsTyped, NEW batch \in Batches, NEW allocated \in Nat, Counted(batch, allocated)
  PROVE  totals' \in [uploads : Nat, submissions : Nat, allocations : Nat]
<1>1. /\ totals.uploads \in Nat /\ totals.submissions \in Nat /\ totals.allocations \in Nat
      /\ Len(batch) \in Nat
  BY BatchIs DEF UploadsTyped
<1>. QED
  BY <1>1 DEF Counted

LEMMA UploadBatchKeeps ==
  ASSUME UploadsInv, NEW batch \in Batches, UploadBatch(batch)
  PROVE  UploadsInv'
<1> DEFINE size == SizeOf(batch)
           fitting == Fitting(Released, size)
           evicted == Evicted(Released, size)
<1>1. /\ UploadsTyped /\ AllServed(arenas) /\ staging = TotalSize(arenas) /\ staging <= MaxStaging
      /\ ~ destroyed /\ owned' = owned /\ destroyed' = destroyed /\ size <= MaxStaging
      /\ size \in Nat /\ staging \in Nat /\ MaxStaging \in Nat /\ owned \subseteq Destinations
  BY BatchIs, UploadNumbers DEF UploadsInv, UploadsTyped, BudgetHolds, UploadBatch
<1>2. /\ Released \in Seq(ArenaRecord) /\ AllServed(Released) /\ TotalSize(Released) = staging
  BY <1>1, ReleasedAre
<1>3. /\ evicted.free \in Int /\ evicted.wanted \in Nat /\ evicted.kept \in Seq(ArenaRecord)
      /\ evicted.wanted = Capacity(size) /\ evicted.free >= 0
      /\ TotalSize(evicted.kept) = MaxStaging - evicted.free
      /\ \A k \in 1 .. Len(Released) : ~ IsIdle(Released[k]) =>
           \E m \in 1 .. Len(evicted.kept) : evicted.kept[m] = Released[k]
  <2> HIDE DEF size
  <2>1. /\ evicted \in LeftRecord /\ evicted.wanted = Capacity(size)
        /\ evicted.free >= 0 /\ TotalSize(evicted.kept) = MaxStaging - evicted.free
        /\ \A k \in 1 .. Len(Released) : ~ IsIdle(Released[k]) =>
             \E m \in 1 .. Len(evicted.kept) : evicted.kept[m] = Released[k]
    BY <1>1, <1>2, EvictedAre
  <2> HIDE DEF evicted
  <2>. QED
    BY <2>1 DEF LeftRecord
<1>4. AllServed(evicted.kept)
  <2> HIDE DEF evicted
  <2> SUFFICES ASSUME NEW c \in gpu.copies
               PROVE  \E m \in 1 .. Len(evicted.kept) : Serves(evicted.kept[m], c)
    BY DEF AllServed
  <2>1. PICK k \in 1 .. Len(Released) : Serves(Released[k], c)
    BY <1>2 DEF AllServed
  <2>2. c.value # 0
    BY <1>1 DEF UploadsTyped, CopyRecord
  <2>3. ~ IsIdle(Released[k])
    BY <2>1, <2>2 DEF Serves, IsIdle
  <2>. QED
    BY <1>3, <2>1, <2>3
<1>5. UploadsTyped /\ totals \in [uploads : Nat, submissions : Nat, allocations : Nat]
      /\ gpu \in [next : Nat, done : Nat, copies : SUBSET CopyRecord]
      /\ totals.allocations \in Nat
  BY <1>1 DEF UploadsTyped
<1>6. ASSUME NEW all \in Seq(ArenaRecord), AllServed(all), NEW k \in 1 .. Len(all), IsIdle(all[k]),
             all[k].size >= size, Records(all, k, batch), NEW allocated \in Nat,
             Counted(batch, allocated), staging' = TotalSize(all), TotalSize(all) <= MaxStaging
      PROVE  UploadsInv'
  <2>1. /\ arenas' \in Seq(ArenaRecord) /\ TotalSize(arenas') = TotalSize(all)
        /\ gpu' \in [next : Nat, done : Nat, copies : SUBSET CopyRecord]
        /\ gpu'.done < gpu'.next
        /\ \A c \in gpu'.copies : /\ gpu'.done < c.value /\ c.value < gpu'.next
                                  /\ \E m \in 1 .. Len(arenas') : Serves(arenas'[m], c)
    BY <1>1, <1>6, RecordsKeepUploads
  <2>2. totals' \in [uploads : Nat, submissions : Nat, allocations : Nat]
    BY <1>1, <1>6, CountedIs
  <2>3. staging' \in Nat
    BY <1>6, TotalIs
  <2>4. UploadsTyped'
    BY <1>1, <2>1, <2>2, <2>3 DEF UploadsTyped
  <2>5. AllServed(arenas)'
    BY <2>1 DEF AllServed, Serves
  <2>6. BudgetHolds'
    <3>1. staging' = TotalSize(arenas') /\ staging' <= MaxStaging
      BY <1>6, <2>1
    <3>2. TotalSize(arenas)' = TotalSize(arenas')
      OBVIOUS
    <3>. QED
      BY <3>1, <3>2 DEF BudgetHolds
  <2>. QED
    BY <2>4, <2>5, <2>6 DEF UploadsInv
<1>7. CASE /\ fitting # {}
           /\ Records(Released, CHOOSE k \in fitting : \A m \in fitting : k <= m, batch)
           /\ Counted(batch, 0) /\ staging' = staging
  <2> DEFINE first == CHOOSE k \in fitting : \A m \in fitting : k <= m
  <2>1. fitting \in SUBSET Nat /\ fitting # {}
    BY <1>2, <1>7 DEF Fitting
  <2>2. \E k \in fitting : \A m \in fitting : k <= m
    <3> HIDE DEF fitting
    <3>. QED
      BY <2>1, SmallestNumber
  <2>3. first \in fitting
    <3> HIDE DEF fitting
    <3>. QED
      BY <2>2
  <2>4. Records(Released, first, batch)
    BY <1>7
  <2> HIDE DEF first
  <2>5. first \in 1 .. Len(Released) /\ IsIdle(Released[first]) /\ Released[first].size >= size
    BY <2>3 DEF Fitting
  <2> HIDE DEF size, fitting, evicted
  <2>. QED
    BY <1>1, <1>2, <1>6, <1>7, <2>4, <2>5
<1>8. CASE /\ fitting = {} /\ evicted.free >= evicted.wanted
           /\ Records(Append(evicted.kept, NewArena(size)), Len(evicted.kept) + 1, batch)
           /\ staging' = MaxStaging - evicted.free + evicted.wanted
           /\ Counted(batch, 1)
  <2> DEFINE fresh == NewArena(size)
             all == Append(evicted.kept, fresh)
             k == Len(evicted.kept) + 1
  <2>1. /\ fresh \in ArenaRecord /\ fresh.size = evicted.wanted /\ IsIdle(fresh)
        /\ fresh.size >= size
    <3>1. Capacity(size) \in Nat /\ Capacity(size) >= size
      BY <1>1, UploadNumbers DEF Capacity
    <3> HIDE DEF evicted, size
    <3>2. fresh = [id |-> totals.allocations + 1, size |-> Capacity(size), completion |-> 0,
                   payload |-> 0, count |-> 0, retains |-> {}]
      BY DEF NewArena
    <3>. QED
      BY <1>3, <1>5, <3>1, <3>2 DEF ArenaRecord, IsIdle
  <2> HIDE DEF fresh, evicted, size
  <2>2. all \in Seq(ArenaRecord) /\ TotalSize(all) = TotalSize(evicted.kept) + fresh.size
    BY <1>3, <2>1, LongerTotal
  <2>3. k \in 1 .. Len(all) /\ all[k] = fresh
        /\ \A m \in 1 .. Len(evicted.kept) : m \in 1 .. Len(all) /\ all[m] = evicted.kept[m]
    BY <1>3, <2>1
  <2>4. Records(all, k, batch)
    BY <1>8 DEF fresh
  <2> HIDE DEF all, k
  <2>5. AllServed(all)
    BY <1>4, <2>3 DEF AllServed
  <2>6. staging' = TotalSize(all) /\ TotalSize(all) <= MaxStaging
    <3>1. PICK f \in Int : f = evicted.free
      BY <1>3
    <3>2. PICK w \in Int : w = evicted.wanted
      BY <1>3
    <3>3. TotalSize(all) = (MaxStaging - f) + w /\ staging' = (MaxStaging - f) + w /\ f >= w
      BY <1>3, <1>8, <2>1, <2>2, <3>1, <3>2
    <3>. QED
      BY <1>1, <3>3
  <2>. QED
    BY <1>6, <1>8, <2>1, <2>2, <2>3, <2>4, <2>5, <2>6
<1>9. CASE /\ arenas' = evicted.kept /\ staging' = MaxStaging - evicted.free
           /\ totals' = totals /\ gpu' = gpu
  <2> HIDE DEF evicted
  <2>1. staging' = TotalSize(arenas') /\ staging' <= MaxStaging /\ staging' \in Nat
    <3>1. TotalSize(arenas') \in Nat
      BY <1>3, <1>9, TotalIs
    <3>. QED
      BY <1>1, <1>3, <1>9, <3>1
  <2>2. UploadsTyped'
    BY <1>1, <1>3, <1>9, <2>1 DEF UploadsTyped
  <2>3. AllServed(arenas)'
    BY <1>4, <1>9 DEF AllServed, Serves
  <2>4. BudgetHolds'
    <3>1. TotalSize(arenas)' = TotalSize(arenas')
      OBVIOUS
    <3>. QED
      BY <2>1, <3>1 DEF BudgetHolds
  <2>. QED
    BY <2>2, <2>3, <2>4 DEF UploadsInv
<1>10. \/ /\ fitting # {}
          /\ Records(Released, CHOOSE k \in fitting : \A m \in fitting : k <= m, batch)
          /\ Counted(batch, 0) /\ staging' = staging
       \/ /\ fitting = {} /\ evicted.free >= evicted.wanted
          /\ Records(Append(evicted.kept, NewArena(size)), Len(evicted.kept) + 1, batch)
          /\ staging' = MaxStaging - evicted.free + evicted.wanted
          /\ Counted(batch, 1)
       \/ /\ arenas' = evicted.kept /\ staging' = MaxStaging - evicted.free
          /\ totals' = totals /\ gpu' = gpu
  BY DEF UploadBatch
<1>. QED
  BY <1>7, <1>8, <1>9, <1>10

LEMMA ReleaseCompletedKeeps ==
  ASSUME UploadsInv, ReleaseCompleted
  PROVE  UploadsInv'
<1>1. /\ UploadsTyped /\ AllServed(arenas) /\ ~ destroyed
      /\ staging = TotalSize(arenas) /\ staging <= MaxStaging
      /\ arenas' = Released /\ UNCHANGED <<staging, totals, owned, gpu, destroyed>>
  BY DEF UploadsInv, BudgetHolds, ReleaseCompleted
<1>2. /\ Released \in Seq(ArenaRecord) /\ AllServed(Released)
      /\ TotalSize(Released) = TotalSize(arenas)
  BY <1>1, ReleasedAre
<1>3. UploadsTyped'
  BY <1>1, <1>2 DEF UploadsTyped
<1>4. AllServed(arenas)'
  BY <1>1, <1>2 DEF AllServed, Serves
<1>5. BudgetHolds'
  <2>1. TotalSize(arenas)' = TotalSize(arenas')
    OBVIOUS
  <2>. QED
    BY <1>1, <1>2, <2>1 DEF BudgetHolds
<1>. QED
  BY <1>3, <1>4, <1>5 DEF UploadsInv

(* Every arena is done when the manager goes, so no copy is left. *)
LEMMA DestroyUploadsKeeps ==
  ASSUME UploadsInv, DestroyUploads
  PROVE  UploadsInv'
<1>1. /\ UploadsTyped /\ AllServed(arenas)
      /\ \A k \in 1 .. Len(arenas) : IsDone(arenas[k].completion)
      /\ destroyed' = TRUE /\ arenas' = <<>> /\ UNCHANGED <<staging, totals, owned, gpu>>
  BY DEF UploadsInv, DestroyUploads
<1>2. gpu.copies = {}
  <2> SUFFICES ASSUME NEW c \in gpu.copies PROVE FALSE
    OBVIOUS
  <2>1. PICK k \in 1 .. Len(arenas) : Serves(arenas[k], c)
    BY <1>1 DEF AllServed
  <2>2. gpu.done < c.value /\ gpu.done \in Nat /\ c.value \in Nat
    BY <1>1 DEF UploadsTyped, CopyRecord
  <2>3. gpu.done >= c.value
    BY <1>1, <2>1 DEF Serves, IsDone
  <2>. QED
    BY <2>2, <2>3
<1>3. UploadsTyped'
  BY <1>1 DEF UploadsTyped
<1>4. AllServed(arenas)' /\ BudgetHolds'
  BY <1>1, <1>2 DEF AllServed, BudgetHolds
<1>. QED
  BY <1>3, <1>4 DEF UploadsInv

(* The owners of the destinations never touch what the manager retains. *)
LEMMA OwnersKeepUploads ==
  ASSUME UploadsInv, NEW d \in Destinations, Reset(d) \/ CreateVulkanBuffer(d)
  PROVE  UploadsInv'
<1>1. /\ UploadsTyped /\ AllServed(arenas) /\ BudgetHolds
      /\ UNCHANGED <<arenas, staging, totals, gpu, destroyed>>
      /\ owned' = owned \ {d} \/ owned' = owned \cup {d}
  BY DEF UploadsInv, Reset, CreateVulkanBuffer
<1>2. UploadsTyped'
  BY <1>1 DEF UploadsTyped
<1>3. AllServed(arenas)'
  BY <1>1 DEF AllServed, Serves
<1>4. BudgetHolds'
  <2>1. TotalSize(arenas)' = TotalSize(arenas')
    OBVIOUS
  <2>. QED
    BY <1>1, <2>1 DEF BudgetHolds
<1>. QED
  BY <1>2, <1>3, <1>4 DEF UploadsInv

LEMMA GpuAdvancesKeeps ==
  ASSUME UploadsInv, GpuAdvances
  PROVE  UploadsInv'
<1>1. /\ UploadsTyped /\ AllServed(arenas) /\ BudgetHolds
      /\ gpu \in [next : Nat, done : Nat, copies : SUBSET CopyRecord]
      /\ UNCHANGED <<arenas, staging, totals, owned, destroyed>>
      /\ gpu.done < gpu.next - 1
      /\ \A c \in gpu.copies : gpu.done < c.value /\ c.value < gpu.next /\ c \in CopyRecord
  BY DEF UploadsInv, UploadsTyped, GpuAdvances
<1> DEFINE open == {c \in gpu.copies : c.value # gpu.done + 1}
<1>2. open \subseteq gpu.copies /\ open \in SUBSET CopyRecord
      /\ \A c \in open : c.value # gpu.done + 1
  BY <1>1
<1>3. gpu' = [gpu EXCEPT !.done = gpu.done + 1, !.copies = open]
  BY DEF GpuAdvances
<1> HIDE DEF open
<1>4. /\ gpu' \in [next : Nat, done : Nat, copies : SUBSET CopyRecord]
      /\ gpu'.next = gpu.next /\ gpu'.done = gpu.done + 1 /\ gpu'.copies = open
  <2>1. gpu.done + 1 \in Nat /\ open \in SUBSET CopyRecord
    BY <1>1, <1>2
  <2>. QED
    BY <1>1, <1>3, <2>1
<1>5. gpu'.done < gpu'.next
      /\ \A c \in gpu'.copies : gpu'.done < c.value /\ c.value < gpu'.next
  <2>1. \A c \in open : c.value \in Nat /\ gpu.done < c.value /\ c.value < gpu.next
    BY <1>1, <1>2 DEF CopyRecord
  <2>2. gpu.done \in Nat /\ gpu.next \in Nat
    BY <1>1
  <2>. QED
    BY <1>1, <1>2, <1>4, <2>1, <2>2
<1>6. UploadsTyped'
  BY <1>1, <1>4, <1>5 DEF UploadsTyped
<1>7. AllServed(arenas)'
  BY <1>1, <1>2, <1>4 DEF AllServed, Serves
<1>8. BudgetHolds'
  <2>1. TotalSize(arenas)' = TotalSize(arenas')
    OBVIOUS
  <2>. QED
    BY <1>1, <2>1 DEF BudgetHolds
<1>. QED
  BY <1>6, <1>7, <1>8 DEF UploadsInv

LEMMA UploadsStep == UploadsInv /\ [UploadNext]_uploadVars => UploadsInv'
<1> SUFFICES ASSUME UploadsInv, [UploadNext]_uploadVars PROVE UploadsInv'
  OBVIOUS
<1>1. ASSUME NEW batch \in Batches, UploadBatch(batch) PROVE UploadsInv'
  BY <1>1, UploadBatchKeeps
<1>2. CASE ReleaseCompleted
  BY <1>2, ReleaseCompletedKeeps
<1>3. CASE DestroyUploads
  BY <1>3, DestroyUploadsKeeps
<1>4. CASE GpuAdvances
  BY <1>4, GpuAdvancesKeeps
<1>5. ASSUME NEW d \in Destinations, Reset(d) \/ CreateVulkanBuffer(d) PROVE UploadsInv'
  BY <1>5, OwnersKeepUploads
<1>6. CASE UNCHANGED uploadVars
  <2>1. UploadsTyped' /\ AllServed(arenas)'
    BY <1>6 DEF UploadsInv, UploadsTyped, AllServed, Serves, uploadVars
  <2>2. TotalSize(arenas)' = TotalSize(arenas')
    OBVIOUS
  <2>3. BudgetHolds'
    BY <1>6, <2>2 DEF UploadsInv, BudgetHolds, uploadVars
  <2>. QED
    BY <2>1, <2>3 DEF UploadsInv
<1>. QED
  BY <1>1, <1>2, <1>3, <1>4, <1>5, <1>6 DEF UploadNext

LEMMA UploadsHold == UploadsInv => UploadsAreSafe
<1> SUFFICES ASSUME UploadsInv, NEW c \in gpu.copies
             PROVE  /\ c.to \subseteq Alive
                    /\ \E k \in 1 .. Len(arenas) :
                         /\ arenas[k].id = c.arena /\ arenas[k].completion = c.value
                         /\ arenas[k].size >= c.end
  BY DEF UploadsAreSafe, CopiesHaveTheirMemory, UploadsInv
<1>1. PICK k \in 1 .. Len(arenas) : Serves(arenas[k], c)
  BY DEF UploadsInv, AllServed
<1>2. c.to \subseteq Alive
  BY <1>1 DEF Serves, Alive, Retained
<1>. QED
  BY <1>1, <1>2 DEF Serves

(* A copy in flight finds its staging arena and its destinations, whatever *)
(* their owners reset and whatever arenas an upload evicts, and the        *)
(* staging bytes are those of the arenas, within the budget                *)
(* (upload_manager.cpp, AcquireArena and ReleaseCompleted).                *)
THEOREM UploadsSafe == UploadSpec => []UploadsAreSafe
<1>. QED
  BY UploadsStart, UploadsStep, UploadsHold, PTL DEF UploadSpec

(***************************************************************************)
(* The render graph.  A compiled graph is what Compile made of it: the      *)
(* theorem is about the order and the contents it computes.                 *)
(***************************************************************************)

(* Smallest and largest members of sets of numbers. *)
LEMMA LeastIs ==
  ASSUME NEW T \in SUBSET Nat, T # {}
  PROVE  Least(T) \in T /\ \A y \in T : Least(T) <= y
<1>1. \E x \in T : \A y \in T : x <= y
  BY SmallestNumber
<1>. QED
  BY <1>1 DEF Least

LEMMA LargestIs ==
  ASSUME NEW n \in Nat, NEW T \in SUBSET (0 .. n), T # {}
  PROVE  Largest(T) \in T /\ \A y \in T : y <= Largest(T)
<1> DEFINE bounds == {z \in Nat : \A y \in T : y <= z}
<1>1. bounds \in SUBSET Nat /\ n \in bounds
  OBVIOUS
<1>2. PICK z \in bounds : \A b \in bounds : z <= b
  BY <1>1, SmallestNumber
<1>3. z \in T
  <2> SUFFICES ASSUME z \notin T PROVE FALSE
    OBVIOUS
  <2>1. \A y \in T : y <= z - 1 /\ y >= 0
    BY <1>2
  <2>2. z - 1 \in Nat
    <3>1. PICK y \in T : TRUE
      OBVIOUS
    <3>2. y <= z - 1 /\ y >= 0 /\ y \in Nat /\ z \in Nat
      BY <1>2, <2>1
    <3>. QED
      BY <3>2
  <2>3. z - 1 \in bounds
    BY <2>1, <2>2
  <2>. QED
    BY <1>2, <2>2, <2>3
<1>4. \E x \in T : \A y \in T : y <= x
  BY <1>2, <1>3
<1>. QED
  BY <1>4 DEF Largest

(* A function that is defined by what it was before exists. *)
RunsTo(n, base, step, h) ==
  h[0] = base /\ \A k \in 1 .. n : h[k] = step[k][h[k - 1]]

LEMMA RunExists ==
  ASSUME NEW A, NEW n \in Nat, NEW base \in A, NEW step \in [1 .. n -> [A -> A]]
  PROVE  \E h \in [0 .. n -> A] : RunsTo(n, base, step, h)
<1> DEFINE S == {k \in 0 .. n : \E h \in [0 .. k -> A] : RunsTo(k, base, step, h)}
<1>1. 0 \in S
  <2> DEFINE h == [k \in 0 .. 0 |-> base]
  <2>1. h \in [0 .. 0 -> A] /\ h[0] = base /\ 1 .. 0 = {} /\ 0 \in 0 .. n
    OBVIOUS
  <2> HIDE DEF h
  <2>. QED
    BY <2>1 DEF RunsTo
<1>2. ASSUME NEW k \in 0 .. n - 1, k \in S
      PROVE  k + 1 \in S
  <2>1. PICK h \in [0 .. k -> A] : RunsTo(k, base, step, h)
    BY <1>2
  <2> DEFINE g == [i \in 0 .. k + 1 |-> IF i = k + 1 THEN step[k + 1][h[k]] ELSE h[i]]
  <2>2. k \in Nat /\ k \in 0 .. k /\ k + 1 \in 1 .. n /\ step[k + 1][h[k]] \in A /\ k # k + 1
    BY <2>1
  <2>3. \A i \in 0 .. k + 1 : i # k + 1 => i \in 0 .. k
    BY <2>2
  <2>4. g \in [0 .. k + 1 -> A]
    <3>1. \A i \in 0 .. k + 1 : (IF i = k + 1 THEN step[k + 1][h[k]] ELSE h[i]) \in A
      BY <2>1, <2>2, <2>3
    <3>. QED
      BY <3>1
  <2>5. g[k + 1] = step[k + 1][h[k]] /\ \A i \in 0 .. k : g[i] = h[i]
    BY <2>2
  <2> HIDE DEF g
  <2>6. g[0] = base
    BY <2>1, <2>2, <2>5 DEF RunsTo
  <2>7. ASSUME NEW i \in 1 .. k + 1
        PROVE  g[i] = step[i][g[i - 1]]
    <3>1. CASE i = k + 1
      <4>1. i - 1 = k
        BY <2>2, <3>1
      <4>. QED
        BY <2>2, <2>5, <3>1, <4>1
    <3>2. CASE i # k + 1
      <4>1. i \in 1 .. k /\ i - 1 \in 0 .. k /\ i \in 0 .. k
        BY <2>2, <3>2
      <4>. QED
        BY <2>1, <2>5, <4>1 DEF RunsTo
    <3>. QED
      BY <3>1, <3>2
  <2>8. RunsTo(k + 1, base, step, g)
    BY <2>6, <2>7 DEF RunsTo
  <2>. QED
    BY <2>2, <2>4, <2>8
<1>3. \A k \in 0 .. n - 1 : k \in S => k + 1 \in S
  BY <1>2
<1> HIDE DEF S
<1>4. 0 .. n \subseteq S
  BY <1>1, <1>3, PrefixInduction
<1>5. n \in S
  BY <1>4
<1>. QED
  BY <1>5 DEF S

(* Sorted is greedy: at every position stands the smallest pass whose        *)
(* predecessors all stand before it. *)
Free(n, edges, s, p) ==
  {i \in 1 .. n : /\ \A k \in 1 .. p - 1 : s[k] # i
                  /\ \A e \in edges : e[2] = i => \E k \in 1 .. p - 1 : s[k] = e[1]}

IsGreedy(n, edges, s) ==
  /\ s \in Seq(1 .. n)
  /\ \A p \in 1 .. Len(s) :
       s[p] \in Free(n, edges, s, p) /\ \A i \in Free(n, edges, s, p) : s[p] <= i

GoesOnFor(n, edges, s, steps) ==
  Len(s) = steps \/ (Len(s) <= steps /\ Free(n, edges, s, Len(s) + 1) = {})

LEMMA GreedyGoesOn ==
  ASSUME NEW n \in Nat, NEW edges, NEW s, IsGreedy(n, edges, s),
         NEW i \in Free(n, edges, s, Len(s) + 1),
         \A m \in Free(n, edges, s, Len(s) + 1) : i <= m
  PROVE  IsGreedy(n, edges, Append(s, i))
<1> DEFINE t == Append(s, i)
<1>1. s \in Seq(1 .. n) /\ i \in 1 .. n /\ Len(s) \in Nat
  BY DEF IsGreedy, Free
<1>2. t \in Seq(1 .. n) /\ Len(t) = Len(s) + 1 /\ t[Len(s) + 1] = i
      /\ \A p \in 1 .. Len(s) : t[p] = s[p]
  BY <1>1
<1> HIDE DEF t
<1>3. ASSUME NEW p \in 1 .. Len(s) + 1
      PROVE  Free(n, edges, t, p) = Free(n, edges, s, p)
  <2>1. \A k \in 1 .. p - 1 : t[k] = s[k]
    BY <1>1, <1>2
  <2>. QED
    BY <2>1 DEF Free
<1>4. ASSUME NEW p \in 1 .. Len(t)
      PROVE  t[p] \in Free(n, edges, t, p) /\ \A m \in Free(n, edges, t, p) : t[p] <= m
  <2>1. p \in 1 .. Len(s) \/ p = Len(s) + 1
    BY <1>1, <1>2
  <2>2. p \in 1 .. Len(s) + 1
    BY <1>2
  <2>3. Free(n, edges, t, p) = Free(n, edges, s, p)
    BY <1>3, <2>2
  <2>4. CASE p \in 1 .. Len(s)
    BY <1>2, <2>3, <2>4 DEF IsGreedy
  <2>5. CASE p = Len(s) + 1
    BY <1>2, <2>3, <2>5
  <2>. QED
    BY <2>1, <2>4, <2>5
<1>. QED
  BY <1>2, <1>4 DEF IsGreedy, t

LEMMA SortedIs ==
  ASSUME NEW n \in Nat, NEW edges
  PROVE  /\ IsGreedy(n, edges, Sorted(n, edges))
         /\ GoesOnFor(n, edges, Sorted(n, edges), n)
<1> DEFINE A == Seq(1 .. n)
           Rest(s) == {i \in 1 .. n : /\ \A k \in DOMAIN s : s[k] # i
                                      /\ \A e \in edges : e[2] = i => \E k \in DOMAIN s : s[k] = e[1]}
           More(s) == IF Rest(s) = {} THEN s ELSE Append(s, Least(Rest(s)))
           step == [k \in 1 .. n |-> [s \in A |-> More(s)]]
           body(f) == [k \in 0 .. n |-> IF k = 0 THEN <<>>
                                        ELSE IF Rest(f[k - 1]) = {} THEN f[k - 1]
                                        ELSE Append(f[k - 1], Least(Rest(f[k - 1])))]
           F == CHOOSE f : f = body(f)
<1>1. Sorted(n, edges) = F[n]
  BY DEF Sorted
<1>2. \A s \in A : Rest(s) \in SUBSET Nat /\ Rest(s) \subseteq 1 .. n
  OBVIOUS
<1>3. \A s \in A : Rest(s) # {} => Least(Rest(s)) \in Rest(s) /\ \A m \in Rest(s) : Least(Rest(s)) <= m
  <2> HIDE DEF Rest, A
  <2>. QED
    BY <1>2, LeastIs
<1>4. \A s \in A : More(s) \in A
  <2>1. ASSUME NEW s \in A, Rest(s) # {}
        PROVE  Append(s, Least(Rest(s))) \in A
    <3>1. Least(Rest(s)) \in 1 .. n
      <4> HIDE DEF Rest, A
      <4>. QED
        BY <1>2, <1>3, <2>1
    <3> HIDE DEF Rest
    <3>. QED
      BY <3>1
  <2> HIDE DEF Rest, A
  <2>. QED
    BY <2>1
<1>5. step \in [1 .. n -> [A -> A]] /\ <<>> \in A
  <2>1. <<>> \in A
    OBVIOUS
  <2> HIDE DEF More, A
  <2>. QED
    BY <1>4, <2>1
<1>6. \A k \in 1 .. n, s \in A : step[k][s] = More(s)
  <2> HIDE DEF More, A
  <2>. QED
    OBVIOUS
<1> HIDE DEF step
<1>7. PICK h \in [0 .. n -> A] : RunsTo(n, <<>>, step, h)
  <2> HIDE DEF A
  <2>. QED
    BY <1>5, RunExists
<1>8. h = body(h)
  <2> HIDE DEF A
  <2>1. \A k \in 1 .. n : k # 0 /\ k \in 0 .. n /\ k - 1 \in 0 .. n /\ h[k - 1] \in A
    BY <1>7
  <2>2. \A k \in 1 .. n : h[k] = More(h[k - 1])
    <3> HIDE DEF More
    <3>. QED
      BY <1>6, <1>7, <2>1 DEF RunsTo
  <2> HIDE DEF Rest
  <2>3. \A k \in 0 .. n : h[k] = IF k = 0 THEN <<>>
                                 ELSE IF Rest(h[k - 1]) = {} THEN h[k - 1]
                                 ELSE Append(h[k - 1], Least(Rest(h[k - 1])))
    <3>1. h[0] = <<>>
      BY <1>7 DEF RunsTo
    <3>2. \A k \in 0 .. n : k = 0 \/ k \in 1 .. n
      OBVIOUS
    <3>. QED
      BY <2>2, <3>1, <3>2
  <2>. QED
    BY <1>7, <2>3
<1>9. F = body(F)
  <2> HIDE DEF body
  <2>. QED
    BY <1>8
<1>10. F[0] = <<>> /\ \A k \in 1 .. n : F[k] = More(F[k - 1])
  <2> HIDE DEF F, Rest
  <2>1. \A k \in 1 .. n : k # 0 /\ k \in 0 .. n
    OBVIOUS
  <2>2. 0 \in 0 .. n
    OBVIOUS
  <2>. QED
    BY <1>9, <2>1, <2>2
<1>11. \A s \in A : Rest(s) = Free(n, edges, s, Len(s) + 1)
  <2>1. \A s \in A : DOMAIN s = 1 .. (Len(s) + 1) - 1
    OBVIOUS
  <2> HIDE DEF A
  <2>. QED
    BY <2>1 DEF Free
<1> HIDE DEF F
<1> DEFINE S == {k \in 0 .. n : IsGreedy(n, edges, F[k]) /\ GoesOnFor(n, edges, F[k], k)}
<1>12. 0 \in S
  <2>1. Len(<<>>) = 0 /\ <<>> \in Seq(1 .. n) /\ 1 .. 0 = {} /\ 0 \in 0 .. n
    OBVIOUS
  <2>. QED
    BY <1>10, <2>1 DEF IsGreedy, GoesOnFor
<1>13. ASSUME NEW k \in 0 .. n - 1, k \in S
       PROVE  k + 1 \in S
  <2>1. k + 1 \in 1 .. n /\ (k + 1) - 1 = k /\ k + 1 \in 0 .. n /\ k \in Nat
    OBVIOUS
  <2>2. IsGreedy(n, edges, F[k]) /\ GoesOnFor(n, edges, F[k], k)
    BY <1>13
  <2>3. F[k] \in A /\ Len(F[k]) \in Nat
    BY <2>2 DEF IsGreedy
  <2>4. F[k + 1] = More(F[k])
    <3> HIDE DEF More
    <3>. QED
      BY <1>10, <2>1
  <2>5. Rest(F[k]) = Free(n, edges, F[k], Len(F[k]) + 1)
    <3> HIDE DEF Rest, A
    <3>. QED
      BY <1>11, <2>3
  <2>6. CASE Rest(F[k]) = {}
    <3>1. F[k + 1] = F[k]
      <4> HIDE DEF Rest
      <4>. QED
        BY <2>4, <2>6
    <3>2. GoesOnFor(n, edges, F[k + 1], k + 1)
      <4>1. Len(F[k]) <= k
        BY <2>1, <2>2, <2>3 DEF GoesOnFor
      <4>2. Len(F[k]) <= k + 1
        BY <2>1, <2>3, <4>1
      <4> HIDE DEF Rest
      <4>. QED
        BY <2>5, <2>6, <3>1, <4>2 DEF GoesOnFor
    <3>. QED
      BY <2>1, <2>2, <3>1, <3>2
  <2>7. CASE Rest(F[k]) # {}
    <3> DEFINE i == Least(Rest(F[k]))
    <3>1. F[k + 1] = Append(F[k], i)
      <4> HIDE DEF Rest
      <4>. QED
        BY <2>4, <2>7
    <3>2. i \in Free(n, edges, F[k], Len(F[k]) + 1)
          /\ \A m \in Free(n, edges, F[k], Len(F[k]) + 1) : i <= m
      <4> HIDE DEF Rest, A
      <4>. QED
        BY <1>3, <2>3, <2>5, <2>7
    <3> HIDE DEF i
    <3>3. IsGreedy(n, edges, F[k + 1])
      BY <2>2, <3>1, <3>2, GreedyGoesOn
    <3>4. Len(F[k]) = k
      BY <2>2, <2>5, <2>7 DEF GoesOnFor
    <3>5. Len(F[k + 1]) = k + 1
      <4>1. Len(F[k + 1]) = Len(F[k]) + 1
        BY <2>3, <3>1
      <4>. QED
        BY <3>4, <4>1
    <3>. QED
      BY <2>1, <3>3, <3>5 DEF GoesOnFor
  <2>. QED
    BY <2>6, <2>7
<1>14. \A k \in 0 .. n - 1 : k \in S => k + 1 \in S
  BY <1>13
<1> HIDE DEF S
<1>15. 0 .. n \subseteq S
  BY <1>12, <1>14, PrefixInduction
<1>16. n \in S
  BY <1>15
<1>. QED
  BY <1>1, <1>16 DEF S

(* An order of all passes in which every edge leads forward. *)
IsOrder(n, edges, order) ==
  /\ order \in [1 .. n -> 1 .. n]
  /\ \A p, q \in 1 .. n : order[p] = order[q] => p = q
  /\ \A i \in 1 .. n : \E p \in 1 .. n : order[p] = i
  /\ \A p \in 1 .. n, e \in edges : e[2] = order[p] => \E k \in 1 .. p - 1 : order[k] = e[1]

LEMMA OneToOneIsOnto ==
  ASSUME NEW n \in Nat, NEW f \in [1 .. n -> 1 .. n],
         \A p, q \in 1 .. n : f[p] = f[q] => p = q
  PROVE  \A i \in 1 .. n : \E p \in 1 .. n : f[p] = i
<1>1. IsFiniteSet(1 .. n)
  BY FS_Interval
<1>2. f \in Injection(1 .. n, 1 .. n)
  BY DEF Injection, IsInjective
<1>3. f \in Surjection(1 .. n, 1 .. n)
  BY <1>1, <1>2, FS_Injection
<1>. QED
  BY <1>3 DEF Surjection

LEMMA GreedyIsOrder ==
  ASSUME NEW n \in Nat, NEW edges, NEW order, IsGreedy(n, edges, order), Len(order) = n
  PROVE  IsOrder(n, edges, order)
<1>1. order \in [1 .. n -> 1 .. n]
  BY DEF IsGreedy
<1>2. \A p \in 1 .. n : order[p] \in Free(n, edges, order, p)
  BY DEF IsGreedy
<1>3. ASSUME NEW p \in 1 .. n, NEW q \in 1 .. n, order[p] = order[q], p < q
      PROVE  FALSE
  <2>1. p \in 1 .. q - 1
    BY <1>3
  <2>. QED
    BY <1>2, <1>3, <2>1 DEF Free
<1>4. \A p, q \in 1 .. n : order[p] = order[q] => p = q
  <2> SUFFICES ASSUME NEW p \in 1 .. n, NEW q \in 1 .. n, order[p] = order[q], p # q
               PROVE  FALSE
    OBVIOUS
  <2>1. p < q \/ q < p
    OBVIOUS
  <2>. QED
    BY <1>3, <2>1
<1>5. \A i \in 1 .. n : \E p \in 1 .. n : order[p] = i
  BY <1>1, <1>4, OneToOneIsOnto
<1>6. \A p \in 1 .. n, e \in edges : e[2] = order[p] => \E k \in 1 .. p - 1 : order[k] = e[1]
  BY <1>2 DEF Free
<1>. QED
  BY <1>1, <1>4, <1>5, <1>6 DEF IsOrder

(* The last writer before a pass. *)
LEMMA WriterIs ==
  ASSUME NEW passes, NEW r, NEW b \in Nat \ {0}
  PROVE  /\ Writer(passes, r, b) \in 0 .. b - 1
         /\ Writer(passes, r, b) # 0 => r \in WritesOf(passes[Writer(passes, r, b)])
         /\ \A a \in 1 .. b - 1 : r \in WritesOf(passes[a]) => a <= Writer(passes, r, b)
<1> DEFINE T == {0} \cup {j \in 1 .. b - 1 : r \in WritesOf(passes[j])}
<1>1. b - 1 \in Nat /\ T \in SUBSET (0 .. b - 1) /\ T # {}
  OBVIOUS
<1>2. Largest(T) \in T /\ \A y \in T : y <= Largest(T)
  <2> HIDE DEF T
  <2>. QED
    BY <1>1, LargestIs
<1>3. Writer(passes, r, b) = Largest(T)
  BY DEF Writer
<1> DEFINE w == Largest(T)
<1>4. w \in T /\ \A y \in T : y <= w
  BY <1>2
<1> HIDE DEF w
<1>5. w \in 0 .. b - 1
  BY <1>4
<1>6. w # 0 => r \in WritesOf(passes[w])
  BY <1>4
<1>7. \A a \in 1 .. b - 1 : r \in WritesOf(passes[a]) => a <= w
  BY <1>4
<1>. QED
  BY <1>3, <1>5, <1>6, <1>7 DEF w

(* Which pairs of passes have an edge. *)
LEMMA HazardsAre ==
  ASSUME NEW n \in Nat, NEW passes, DOMAIN passes = 1 .. n
  PROVE  /\ \A a, b \in 1 .. n : \A r \in ReadsOf(passes[b]) \cup WritesOf(passes[b]) :
              a = Writer(passes, r, b) => <<a, b>> \in HazardEdges(passes)
         /\ \A a, b \in 1 .. n : \A r \in ReadsOf(passes[a]) \cap WritesOf(passes[b]) :
              a < b /\ Writer(passes, r, b) < a => <<a, b>> \in HazardEdges(passes)
         /\ \A e \in HazardEdges(passes) :
              /\ e[1] \in 1 .. n /\ e[2] \in 1 .. n /\ e[1] < e[2]
              /\ Conflict(passes[e[1]], passes[e[2]])
<1>1. ASSUME NEW a \in 1 .. n, NEW b \in 1 .. n, NEW r \in ReadsOf(passes[b]) \cup WritesOf(passes[b]),
             a = Writer(passes, r, b)
      PROVE  <<a, b>> \in HazardEdges(passes)
  <2>1. a \in HazardsBefore(passes, b)
    BY <1>1 DEF HazardsBefore
  <2>. QED
    BY <2>1 DEF HazardEdges
<1>2. ASSUME NEW a \in 1 .. n, NEW b \in 1 .. n, NEW r \in ReadsOf(passes[a]) \cap WritesOf(passes[b]),
             a < b, Writer(passes, r, b) < a
      PROVE  <<a, b>> \in HazardEdges(passes)
  <2>1. a \in Readers(passes, r, b)
    BY <1>2 DEF Readers
  <2>0. Readers(passes, r, b) \in {Readers(passes, x, b) : x \in WritesOf(passes[b])}
    BY Zenon
  <2>2. a \in UNION {Readers(passes, x, b) : x \in WritesOf(passes[b])}
    BY <2>0, <2>1, Zenon
  <2>3. a \in HazardsBefore(passes, b)
    BY <2>2, Zenon DEF HazardsBefore
  <2>. QED
    BY <2>3 DEF HazardEdges
<1>3. ASSUME NEW e \in HazardEdges(passes)
      PROVE  /\ e[1] \in 1 .. n /\ e[2] \in 1 .. n /\ e[1] < e[2]
             /\ Conflict(passes[e[1]], passes[e[2]])
  <2> DEFINE a == e[1]
             b == e[2]
  <2>1. a \in 1 .. n /\ b \in 1 .. n /\ a \in HazardsBefore(passes, b)
    BY DEF HazardEdges
  <2> HIDE DEF a, b
  <2>2. b \in Nat \ {0}
    BY <2>1
  <2>3. CASE \E r \in ReadsOf(passes[b]) \cup WritesOf(passes[b]) : a = Writer(passes, r, b)
    <3>1. PICK r \in ReadsOf(passes[b]) \cup WritesOf(passes[b]) : a = Writer(passes, r, b)
      BY <2>3
    <3>2. a \in 0 .. b - 1 /\ (a # 0 => r \in WritesOf(passes[a]))
      BY <2>2, <3>1, WriterIs
    <3>3. a < b /\ r \in WritesOf(passes[a])
      BY <2>1, <3>2
    <3>. QED
      BY <2>1, <3>1, <3>3 DEF Conflict, a, b
  <2>4. CASE \E r \in WritesOf(passes[b]) : a \in Readers(passes, r, b)
    <3>1. PICK r \in WritesOf(passes[b]) : a \in Readers(passes, r, b)
      BY <2>4
    <3>2. a < b /\ r \in ReadsOf(passes[a])
      BY <2>1, <3>1 DEF Readers
    <3>. QED
      BY <2>1, <3>1, <3>2 DEF Conflict, a, b
  <2>5. \/ a \in UNION {{Writer(passes, x, b)} : x \in ReadsOf(passes[b]) \cup WritesOf(passes[b])}
        \/ a \in UNION {Readers(passes, x, b) : x \in WritesOf(passes[b])}
    BY <2>1, Zenon DEF HazardsBefore
  <2>6. \/ \E r \in ReadsOf(passes[b]) \cup WritesOf(passes[b]) : a = Writer(passes, r, b)
        \/ \E r \in WritesOf(passes[b]) : a \in Readers(passes, r, b)
    BY <2>5, Zenon
  <2>. QED
    BY <2>3, <2>4, <2>6
<1>. QED
  BY <1>1, <1>2, <1>3

(* Conflicting passes keep the order in which they were declared, although   *)
(* edges lead from the last writer only. *)
Follows(n, order, a, b) == \A p, q \in 1 .. n : order[p] = a /\ order[q] = b => p < q

LEMMA EdgesAreFollowed ==
  ASSUME NEW n \in Nat, NEW edges, NEW order, IsOrder(n, edges, order),
         NEW a, NEW b, <<a, b>> \in edges
  PROVE  Follows(n, order, a, b)
<1> SUFFICES ASSUME NEW p \in 1 .. n, NEW q \in 1 .. n, order[p] = a, order[q] = b
             PROVE  p < q
  BY DEF Follows
<1> DEFINE e == <<a, b>>
<1>0. e \in edges /\ e[1] = a /\ e[2] = order[q]
  OBVIOUS
<1> HIDE DEF e
<1>00. \A x \in edges : x[2] = order[q] => \E k \in 1 .. q - 1 : order[k] = x[1]
  BY DEF IsOrder
<1>01. \E k \in 1 .. q - 1 : order[k] = e[1]
  BY <1>0, <1>00
<1>1. PICK k \in 1 .. q - 1 : order[k] = a
  BY <1>0, <1>01
<1>2. k \in 1 .. n
  OBVIOUS
<1>3. k = p
  BY <1>1, <1>2 DEF IsOrder
<1>. QED
  BY <1>3

LEMMA FollowsThrough ==
  ASSUME NEW n \in Nat, NEW edges, NEW order, IsOrder(n, edges, order),
         NEW a, NEW b, NEW c \in 1 .. n, Follows(n, order, a, c), Follows(n, order, c, b)
  PROVE  Follows(n, order, a, b)
<1>1. PICK m \in 1 .. n : order[m] = c
  BY DEF IsOrder
<1>2. ASSUME NEW p \in 1 .. n, NEW q \in 1 .. n, order[p] = a, order[q] = b
      PROVE  p < q
  <2>1. p < m /\ m < q
    BY <1>1, <1>2 DEF Follows
  <2>. QED
    BY <2>1
<1>. QED
  BY <1>2 DEF Follows

LEMMA ConflictsFollow ==
  ASSUME NEW n \in Nat, NEW passes, DOMAIN passes = 1 .. n, NEW edges, NEW order,
         IsOrder(n, edges, order), HazardEdges(passes) \subseteq edges
  PROVE  \A a, b \in 1 .. n : a < b /\ Conflict(passes[a], passes[b]) => Follows(n, order, a, b)
<1> DEFINE Bad == {b \in 1 .. n : \E a \in 1 .. n : /\ a < b /\ Conflict(passes[a], passes[b])
                                                   /\ ~ Follows(n, order, a, b)}
<1> SUFFICES ASSUME Bad # {} PROVE FALSE
  OBVIOUS
<1>1. Bad \in SUBSET Nat
  OBVIOUS
<1>2. PICK b \in Bad : \A c \in Bad : b <= c
  <2> HIDE DEF Bad
  <2>. QED
    BY <1>1, SmallestNumber
<1>3. b \in 1 .. n /\ b \in Nat \ {0}
  BY <1>2
<1>4. \A c, a \in 1 .. n : c < b /\ a < c /\ Conflict(passes[a], passes[c]) => Follows(n, order, a, c)
  BY <1>2, <1>3
<1>5. PICK a \in 1 .. n : /\ a < b /\ Conflict(passes[a], passes[b])
                          /\ ~ Follows(n, order, a, b)
  BY <1>2
<1> HIDE DEF Bad
<1>6. PICK r : \/ r \in WritesOf(passes[a]) /\ r \in ReadsOf(passes[b]) \cup WritesOf(passes[b])
               \/ r \in ReadsOf(passes[a]) /\ r \in WritesOf(passes[b])
  BY <1>5 DEF Conflict
<1> DEFINE w == Writer(passes, r, b)
<1>7. /\ w \in 0 .. b - 1
      /\ w # 0 => r \in WritesOf(passes[w])
      /\ \A i \in 1 .. b - 1 : r \in WritesOf(passes[i]) => i <= w
  BY <1>3, WriterIs
<1>8. \A i \in 1 .. n : i = w => Follows(n, order, i, b)
  <2>1. \A i \in 1 .. n : i = w => <<i, b>> \in HazardEdges(passes)
    BY <1>3, <1>6, HazardsAre
  <2>. QED
    BY <2>1, EdgesAreFollowed
<1>9. Writer(passes, r, b) = w
  OBVIOUS
<1> HIDE DEF w
<1>10. CASE w \in 1 .. n /\ a < w
  <2>1. Conflict(passes[a], passes[w])
    BY <1>6, <1>7, <1>10 DEF Conflict
  <2>2. w < b
    BY <1>3, <1>7
  <2>3. Follows(n, order, a, w)
    BY <1>4, <1>10, <2>1, <2>2
  <2>. QED
    BY <1>5, <1>8, <1>10, <2>3, FollowsThrough
<1>11. CASE a = w
  BY <1>5, <1>8, <1>11
<1>12. CASE w < a
  <2>1. r \notin WritesOf(passes[a])
    <3>1. a \in 1 .. b - 1
      BY <1>3, <1>5
    <3>2. r \in WritesOf(passes[a]) => a <= w
      BY <1>7, <3>1
    <3>. QED
      BY <1>7, <1>12, <3>2
  <2>2. r \in ReadsOf(passes[a]) \cap WritesOf(passes[b])
    BY <1>6, <2>1
  <2>3. <<a, b>> \in HazardEdges(passes)
    BY <1>3, <1>5, <1>9, <1>12, <2>2, HazardsAre
  <2>4. Follows(n, order, a, b)
    BY <2>3, EdgesAreFollowed
  <2>. QED
    BY <1>5, <2>4
<1>13. (w \in 1 .. n /\ a < w) \/ a = w \/ w < a
  BY <1>3, <1>7
<1>. QED
  BY <1>10, <1>11, <1>12, <1>13

(* What Compile has checked of the passes it orders. *)
AreChecked(n) ==
  /\ n \in Nat /\ compiled.passes \in [1 .. n -> PassForms]
  /\ \A i \in 1 .. n : PassIsValid(compiled.imports, compiled.passes[i])
  /\ compiled.dependencies \subseteq (1 .. n) \X (1 .. n)
  /\ \A d \in compiled.dependencies : d[1] # d[2]

(* A pass writes through attachments, one for each resource. *)
LEMMA WritesAre ==
  ASSUME NEW n, AreChecked(n), NEW i \in 1 .. n, NEW p, p = compiled.passes[i]
  PROVE  /\ \A r : r \in WritesOf(p) <=> \E a \in p.attachments : a.resource = r
         /\ \A a \in p.attachments : Writing(i, a.resource) = a
         /\ \A r \in WritesOf(p) : Writing(i, r) \in p.attachments /\ Writing(i, r).resource = r
         /\ \A a \in p.attachments : a.load \in Loads /\ a.store \in Stores
         /\ ReadsOf(p) \cup WritesOf(p) \subseteq DOMAIN compiled.imports
<1>1. p \in PassForms /\ PassIsValid(compiled.imports, p)
  BY DEF AreChecked
<1>2. ASSUME NEW a \in p.attachments
      PROVE  a.resource \in WritesOf(p)
  <2>1. WriteOf(a) \in p.writes
    BY <1>1 DEF PassIsValid, AttachmentIsValid
  <2>2. WriteOf(a).resource = a.resource
    BY DEF WriteOf
  <2>. QED
    BY <2>1, <2>2 DEF WritesOf
<1>3. \A r \in WritesOf(p) : \E a \in p.attachments : a.resource = r
  BY <1>1 DEF PassIsValid, WritesOf
<1>4. \A r : r \in WritesOf(p) <=> \E a \in p.attachments : a.resource = r
  BY <1>2, <1>3
<1>5. \A a, b \in p.attachments : a.resource = b.resource => a = b
  BY <1>1 DEF PassIsValid, OncePerResource
<1>6. \A r \in WritesOf(p) : Writing(i, r) \in p.attachments /\ Writing(i, r).resource = r
  BY <1>3 DEF Writing
<1>7. \A a \in p.attachments : Writing(i, a.resource) = a
  BY <1>2, <1>5, <1>6
<1>8. \A a \in p.attachments : a.load \in Loads /\ a.store \in Stores
  BY <1>1, RenderGraphAssumption DEF Attachments
<1>9. ReadsOf(p) \cup WritesOf(p) \subseteq DOMAIN compiled.imports
  BY <1>1 DEF PassIsValid, UseIsValid, ResourceResolves, ReadsOf, WritesOf
<1>. QED
  BY <1>4, <1>6, <1>7, <1>8, <1>9

(* Contents are traced from pass to pass. *)
LEMMA TracedStart ==
  ASSUME NEW r
  PROVE  Traced(r, 1) <=> compiled.imports[r].initial # "UNDEFINED"
<1>1. 0 .. 1 - 1 = {0} /\ 0 + 1 .. 1 - 1 = {}
  OBVIOUS
<1>. QED
  BY <1>1 DEF Traced

LEMMA TracedBetween ==
  ASSUME NEW i \in Nat, NEW w \in 0 .. i - 1, NEW r,
         \A j \in w + 1 .. i - 1 : r \notin WritesOf(compiled.passes[j])
  PROVE  Traced(r, i) <=> Traced(r, w + 1)
<1> DEFINE Source(s) == \/ s = 0 /\ compiled.imports[r].initial # "UNDEFINED"
                        \/ /\ s > 0 /\ r \in WritesOf(compiled.passes[s])
                           /\ Writing(s, r).load = "CLEAR" /\ Writing(s, r).store = "STORE"
           Loaded(j) == r \in WritesOf(compiled.passes[j]) =>
                          Writing(j, r).load = "LOAD" /\ Writing(j, r).store = "STORE"
<1>1. Traced(r, i) <=> \E s \in 0 .. i - 1 : Source(s) /\ \A j \in s + 1 .. i - 1 : Loaded(j)
  BY DEF Traced
<1>2. Traced(r, w + 1) <=> \E s \in 0 .. w : Source(s) /\ \A j \in s + 1 .. w : Loaded(j)
  <2>1. (w + 1) - 1 = w
    OBVIOUS
  <2>. QED
    BY <2>1 DEF Traced
<1>3. \A s \in w + 1 .. i - 1 : ~ Source(s)
  BY DEF Source
<1>4. \A j \in w + 1 .. i - 1 : Loaded(j)
  OBVIOUS
<1> HIDE DEF Source, Loaded
<1>5. ASSUME NEW s \in 0 .. i - 1, Source(s), \A j \in s + 1 .. i - 1 : Loaded(j)
      PROVE  s \in 0 .. w /\ \A j \in s + 1 .. w : Loaded(j)
  <2>1. s \in 0 .. w
    BY <1>3, <1>5
  <2>2. \A j \in s + 1 .. w : j \in s + 1 .. i - 1
    BY <2>1
  <2>. QED
    BY <1>5, <2>1, <2>2
<1>6. ASSUME NEW s \in 0 .. w, Source(s), \A j \in s + 1 .. w : Loaded(j)
      PROVE  s \in 0 .. i - 1 /\ \A j \in s + 1 .. i - 1 : Loaded(j)
  <2>1. \A j \in s + 1 .. i - 1 : j \in s + 1 .. w \/ j \in w + 1 .. i - 1
    OBVIOUS
  <2>. QED
    BY <1>4, <1>6, <2>1
<1>. QED
  BY <1>1, <1>2, <1>5, <1>6

LEMMA TracedNext ==
  ASSUME NEW i \in Nat \ {0}, NEW r, r \in WritesOf(compiled.passes[i]),
         NEW a, a = Writing(i, r)
  PROVE  Traced(r, i + 1) <=>
           a.store = "STORE" /\ (a.load = "CLEAR" \/ (a.load = "LOAD" /\ Traced(r, i)))
<1> DEFINE Source(s) == \/ s = 0 /\ compiled.imports[r].initial # "UNDEFINED"
                        \/ /\ s > 0 /\ r \in WritesOf(compiled.passes[s])
                           /\ Writing(s, r).load = "CLEAR" /\ Writing(s, r).store = "STORE"
           Loaded(j) == r \in WritesOf(compiled.passes[j]) =>
                          Writing(j, r).load = "LOAD" /\ Writing(j, r).store = "STORE"
<1>1. Traced(r, i) <=> \E s \in 0 .. i - 1 : Source(s) /\ \A j \in s + 1 .. i - 1 : Loaded(j)
  BY DEF Traced
<1>2. Traced(r, i + 1) <=> \E s \in 0 .. i : Source(s) /\ \A j \in s + 1 .. i : Loaded(j)
  <2>1. (i + 1) - 1 = i
    OBVIOUS
  <2>. QED
    BY <2>1 DEF Traced
<1>3. Source(i) <=> a.load = "CLEAR" /\ a.store = "STORE"
  OBVIOUS
<1>4. Loaded(i) <=> a.load = "LOAD" /\ a.store = "STORE"
  OBVIOUS
<1> HIDE DEF Source, Loaded
<1>5. \A s \in 0 .. i : s = i \/ s \in 0 .. i - 1
  OBVIOUS
<1>6. i \in 0 .. i /\ i + 1 .. i = {} /\ \A s \in 0 .. i - 1 : s \in 0 .. i
  OBVIOUS
<1>7. \A s \in 0 .. i - 1 : i \in s + 1 .. i /\ \A j \in s + 1 .. i : j = i \/ j \in s + 1 .. i - 1
  OBVIOUS
<1>8. \A s \in 0 .. i - 1 : \A j \in s + 1 .. i - 1 : j \in s + 1 .. i
  OBVIOUS
<1>9. ASSUME NEW s \in 0 .. i - 1
      PROVE  (\A j \in s + 1 .. i : Loaded(j)) <=> Loaded(i) /\ \A j \in s + 1 .. i - 1 : Loaded(j)
  BY <1>7, <1>8
<1>10. (\E s \in 0 .. i : Source(s) /\ \A j \in s + 1 .. i : Loaded(j)) <=>
         Source(i) \/ \E s \in 0 .. i - 1 : Source(s) /\ \A j \in s + 1 .. i : Loaded(j)
  BY <1>5, <1>6
<1>11. Traced(r, i + 1) <=> Source(i) \/ (Loaded(i) /\ Traced(r, i))
  BY <1>1, <1>2, <1>9, <1>10
<1>. QED
  BY <1>3, <1>4, <1>11

(* What the validation of contents computes, pass by pass. *)
LEMMA AfterIs ==
  ASSUME NEW n, AreChecked(n), NEW order \in Seq(1 .. n), Len(order) = n,
         NEW after, after = DefinedAfter(compiled.imports, compiled.passes, order)
  PROVE  /\ after \in [0 .. n -> [DOMAIN compiled.imports -> BOOLEAN]]
         /\ after[0] = Initialized(compiled.imports)
         /\ \A k \in 1 .. n : after[k] = ApplyStores(after[k - 1], compiled.passes[order[k]])
<1> DEFINE A == [DOMAIN compiled.imports -> BOOLEAN]
           passes == compiled.passes
           base == Initialized(compiled.imports)
           step == [k \in 1 .. n |-> [d \in A |-> ApplyStores(d, passes[order[k]])]]
           body(f) == [k \in 0 .. n |-> IF k = 0 THEN base
                                        ELSE ApplyStores(f[k - 1], passes[order[k]])]
           F == CHOOSE f : f = body(f)
<1>1. after = F
  BY DEF DefinedAfter
<1>2. base \in A /\ n \in Nat
  BY DEF Initialized, AreChecked
<1>3. ASSUME NEW d \in A, NEW p
      PROVE  ApplyStores(d, p) \in A
  BY DEF ApplyStores, Stored
<1>4. step \in [1 .. n -> [A -> A]]
  <2> HIDE DEF A
  <2>. QED
    BY <1>3
<1>5. \A k \in 1 .. n, d \in A : step[k][d] = ApplyStores(d, passes[order[k]])
  <2> HIDE DEF A
  <2>. QED
    OBVIOUS
<1> HIDE DEF A, step, base, passes
<1>6. PICK h \in [0 .. n -> A] : RunsTo(n, base, step, h)
  BY <1>2, <1>4, RunExists
<1>7. h = body(h)
  <2>1. \A k \in 1 .. n : k # 0 /\ k \in 0 .. n /\ k - 1 \in 0 .. n /\ h[k - 1] \in A
    BY <1>2, <1>6
  <2>2. \A k \in 1 .. n : h[k] = ApplyStores(h[k - 1], passes[order[k]])
    BY <1>5, <1>6, <2>1 DEF RunsTo
  <2>3. h[0] = base /\ \A k \in 0 .. n : k = 0 \/ k \in 1 .. n
    BY <1>2, <1>6 DEF RunsTo
  <2>. QED
    BY <1>6, <2>2, <2>3
<1>8. F = body(F)
  <2> HIDE DEF body
  <2>. QED
    BY <1>7
<1>9. F[0] = base /\ \A k \in 1 .. n : F[k] = ApplyStores(F[k - 1], passes[order[k]])
  <2> HIDE DEF F
  <2>1. 0 \in 0 .. n /\ \A k \in 1 .. n : k # 0 /\ k \in 0 .. n
    BY <1>2
  <2>. QED
    BY <1>8, <2>1
<1>10. F = [k \in 0 .. n |-> F[k]]
  <2> HIDE DEF F
  <2>. QED
    BY <1>8
<1> DEFINE S == {k \in 0 .. n : F[k] \in A}
<1> HIDE DEF F
<1>11. 0 \in S
  BY <1>2, <1>9
<1>12. \A k \in 0 .. n - 1 : k \in S => k + 1 \in S
  <2>1. \A k \in 0 .. n - 1 : k + 1 \in 1 .. n /\ (k + 1) - 1 = k /\ k + 1 \in 0 .. n
    BY <1>2
  <2>. QED
    BY <1>3, <1>9, <2>1
<1>13. 0 .. n \subseteq S
  <2> HIDE DEF S
  <2>. QED
    BY <1>2, <1>11, <1>12, PrefixInduction
<1>14. F \in [0 .. n -> A]
  BY <1>10, <1>13
<1>. QED
  BY <1>1, <1>9, <1>14 DEF A, base, passes

(* An order that means what was declared. *)
KeepsOrder(n, order) ==
  /\ order \in [1 .. n -> 1 .. n]
  /\ \A p, q \in 1 .. n : order[p] = order[q] => p = q
  /\ \A i \in 1 .. n : \E p \in 1 .. n : order[p] = i
  /\ \A p, q \in 1 .. n : /\ order[p] < order[q]
                          /\ Conflict(compiled.passes[order[p]], compiled.passes[order[q]])
                          => p < q

LEMMA OrderIsKept ==
  ASSUME NEW n, AreChecked(n), NEW edges, NEW order, IsOrder(n, edges, order),
         HazardEdges(compiled.passes) \subseteq edges
  PROVE  KeepsOrder(n, order)
<1>1. n \in Nat /\ DOMAIN compiled.passes = 1 .. n
  BY DEF AreChecked
<1>2. \A a, b \in 1 .. n : a < b /\ Conflict(compiled.passes[a], compiled.passes[b]) => Follows(n, order, a, b)
  BY <1>1, ConflictsFollow
<1>3. order \in [1 .. n -> 1 .. n]
  BY DEF IsOrder
<1>4. ASSUME NEW p \in 1 .. n, NEW q \in 1 .. n, order[p] < order[q],
             Conflict(compiled.passes[order[p]], compiled.passes[order[q]])
      PROVE  p < q
  <2>1. Follows(n, order, order[p], order[q])
    BY <1>2, <1>3, <1>4
  <2>. QED
    BY <2>1 DEF Follows
<1>. QED
  BY <1>3, <1>4 DEF KeepsOrder, IsOrder

(* The writers that a user of a resource comes after are those declared      *)
(* before it. *)
LEMMA UsersSeeWriters ==
  ASSUME NEW n, AreChecked(n), NEW order, KeepsOrder(n, order), NEW k \in 1 .. n,
         NEW i, i = order[k],
         NEW r, r \in ReadsOf(compiled.passes[i]) \cup WritesOf(compiled.passes[i])
  PROVE  /\ \A p \in 1 .. k - 1 : r \in WritesOf(compiled.passes[order[p]]) => order[p] < i
         /\ \A c \in 1 .. i - 1 : r \in WritesOf(compiled.passes[c]) => \E p \in 1 .. k - 1 : order[p] = c
<1>1. n \in Nat /\ i \in 1 .. n
  BY DEF AreChecked, KeepsOrder
<1>2. ASSUME NEW p \in 1 .. k - 1, r \in WritesOf(compiled.passes[order[p]])
      PROVE  order[p] < i
  <2>1. p \in 1 .. n /\ p # k /\ ~ (k < p) /\ order[p] \in 1 .. n
    BY <1>1 DEF KeepsOrder
  <2>2. order[p] # i
    BY <2>1 DEF KeepsOrder
  <2>3. Conflict(compiled.passes[i], compiled.passes[order[p]])
    BY <1>2 DEF Conflict
  <2>4. ~ (i < order[p])
    BY <2>1, <2>3 DEF KeepsOrder
  <2>. QED
    BY <1>1, <2>1, <2>2, <2>4
<1>3. ASSUME NEW c \in 1 .. i - 1, r \in WritesOf(compiled.passes[c])
      PROVE  \E p \in 1 .. k - 1 : order[p] = c
  <2>1. c \in 1 .. n /\ c < i
    BY <1>1
  <2>2. PICK p \in 1 .. n : order[p] = c
    BY <2>1 DEF KeepsOrder
  <2>3. Conflict(compiled.passes[c], compiled.passes[i])
    BY <1>3 DEF Conflict
  <2>4. p < k
    BY <2>1, <2>2, <2>3 DEF KeepsOrder
  <2>5. p \in 1 .. k - 1
    BY <2>4
  <2>. QED
    BY <2>2, <2>5
<1>. QED
  BY <1>2, <1>3

(* The last writer, as declared, of what runs first. *)
LastIn(order, k, r, w) ==
  /\ w = 0 \/ (r \in WritesOf(compiled.passes[w]) /\ \E p \in 1 .. k : order[p] = w)
  /\ \A p \in 1 .. k : r \in WritesOf(compiled.passes[order[p]]) => order[p] <= w

(* Contents are defined as far as they are traced. *)
LEMMA ContentsFollow ==
  ASSUME NEW n, AreChecked(n), NEW order \in Seq(1 .. n), Len(order) = n, KeepsOrder(n, order),
         NEW after, after = DefinedAfter(compiled.imports, compiled.passes, order),
         NEW r \in DOMAIN compiled.imports
  PROVE  \A k \in 0 .. n : \E w \in 0 .. n :
           LastIn(order, k, r, w) /\ (after[k][r] <=> Traced(r, w + 1))
<1>1. /\ n \in Nat
      /\ after \in [0 .. n -> [DOMAIN compiled.imports -> BOOLEAN]]
      /\ after[0] = Initialized(compiled.imports)
      /\ \A k \in 1 .. n : after[k] = ApplyStores(after[k - 1], compiled.passes[order[k]])
  BY AfterIs DEF AreChecked
<1> DEFINE Holds(k, w) == LastIn(order, k, r, w) /\ (after[k][r] <=> Traced(r, w + 1))
           S == {k \in 0 .. n : \E w \in 0 .. n : Holds(k, w)}
<1>2. 0 \in S
  <2>1. 0 \in 0 .. n /\ 1 .. 0 = {} /\ 0 + 1 = 1
    BY <1>1
  <2>2. after[0][r] <=> Traced(r, 1)
    BY <1>1, TracedStart DEF Initialized
  <2>3. LastIn(order, 0, r, 0)
    BY <2>1 DEF LastIn
  <2>4. Holds(0, 0)
    BY <2>1, <2>2, <2>3
  <2> HIDE DEF Holds
  <2>. QED
    BY <2>1, <2>4
<1>3. ASSUME NEW k \in 0 .. n - 1, k \in S
      PROVE  k + 1 \in S
  <2>1. PICK w \in 0 .. n : Holds(k, w)
    BY <1>3
  <2> DEFINE i == order[k + 1]
  <2>2. k + 1 \in 1 .. n /\ (k + 1) - 1 = k /\ k \in Nat /\ k + 1 \in 0 .. n
    BY <1>1
  <2>3. i \in 1 .. n
    BY <1>1, <2>2 DEF KeepsOrder
  <2>4. after[k + 1] = ApplyStores(after[k], compiled.passes[i])
    BY <1>1, <2>2
  <2>5. after[k] \in [DOMAIN compiled.imports -> BOOLEAN]
    BY <1>1, <2>2
  <2>6. order[k + 1] = i
    OBVIOUS
  <2> HIDE DEF i
  <2>7. \A p \in 1 .. k + 1 : p = k + 1 \/ p \in 1 .. k
    BY <2>2
  <2>8. \A p \in 1 .. k : p \in 1 .. k + 1
    BY <2>2
  <2>9. r \in WritesOf(compiled.passes[i]) <=> \E a \in compiled.passes[i].attachments : a.resource = r
    BY <2>3, WritesAre
  <2>10. CASE r \notin WritesOf(compiled.passes[i])
    <3>1. after[k + 1][r] = after[k][r]
      BY <2>4, <2>5, <2>9, <2>10 DEF ApplyStores
    <3>2. LastIn(order, k + 1, r, w)
      BY <2>1, <2>6, <2>7, <2>8, <2>10 DEF LastIn
    <3>3. Holds(k + 1, w)
      BY <2>1, <3>1, <3>2
    <3> HIDE DEF Holds
    <3>. QED
      BY <2>2, <3>3
  <2>11. CASE r \in WritesOf(compiled.passes[i])
    <3>1. /\ \A p \in 1 .. k : r \in WritesOf(compiled.passes[order[p]]) => order[p] < i
          /\ \A c \in 1 .. i - 1 : r \in WritesOf(compiled.passes[c]) => \E p \in 1 .. k : order[p] = c
      <4>1. r \in ReadsOf(compiled.passes[i]) \cup WritesOf(compiled.passes[i]) /\ i = order[k + 1]
        BY <2>6, <2>11
      <4>2. /\ \A p \in 1 .. (k + 1) - 1 : r \in WritesOf(compiled.passes[order[p]]) => order[p] < i
            /\ \A c \in 1 .. i - 1 : r \in WritesOf(compiled.passes[c]) => \E p \in 1 .. (k + 1) - 1 : order[p] = c
        BY <2>2, <4>1, UsersSeeWriters
      <4>. QED
        BY <2>2, <4>2
    <3>2. w \in 0 .. i - 1
      <4>1. LastIn(order, k, r, w)
        BY <2>1
      <4>2. w = 0 \/ w < i
        BY <3>1, <4>1 DEF LastIn
      <4>. QED
        BY <2>3, <4>2
    <3>3. \A c \in w + 1 .. i - 1 : r \notin WritesOf(compiled.passes[c])
      <4> SUFFICES ASSUME NEW c \in w + 1 .. i - 1, r \in WritesOf(compiled.passes[c])
                   PROVE  FALSE
        OBVIOUS
      <4>1. c \in 1 .. i - 1
        BY <2>3, <3>2
      <4>2. PICK p \in 1 .. k : order[p] = c
        BY <3>1, <4>1
      <4>3. c <= w
        BY <2>1, <4>2 DEF LastIn
      <4>. QED
        BY <2>3, <3>2, <4>3
    <3>4. Traced(r, i) <=> after[k][r]
      <4>1. i \in Nat
        BY <2>3
      <4>2. Traced(r, i) <=> Traced(r, w + 1)
        BY <3>2, <3>3, <4>1, TracedBetween
      <4>. QED
        BY <2>1, <4>2
    <3> DEFINE a == Writing(i, r)
    <3>5. after[k + 1][r] <=> Stored(after[k], a)
      <4>1. a = CHOOSE x \in compiled.passes[i].attachments : x.resource = r
        BY DEF Writing
      <4> HIDE DEF a
      <4>. QED
        BY <2>4, <2>5, <2>9, <2>11, <4>1 DEF ApplyStores
    <3>6. a.resource = r
      BY <2>3, <2>11, WritesAre
    <3>7. a = Writing(i, r)
      OBVIOUS
    <3> HIDE DEF a
    <3>8. Traced(r, i + 1) <=> Stored(after[k], a)
      <4>1. i \in Nat \ {0}
        BY <2>3
      <4>2. Traced(r, i + 1) <=>
              a.store = "STORE" /\ (a.load = "CLEAR" \/ (a.load = "LOAD" /\ Traced(r, i)))
        BY <2>11, <3>7, <4>1, TracedNext
      <4>. QED
        BY <3>4, <3>6, <4>2 DEF Stored
    <3>9. LastIn(order, k + 1, r, i)
      <4>1. \A p \in 1 .. k + 1 : r \in WritesOf(compiled.passes[order[p]]) => order[p] <= i
        <5>1. \A p \in 1 .. k : order[p] \in Int
          BY <1>1 DEF KeepsOrder
        <5>2. \A p \in 1 .. k : order[p] < i => order[p] <= i
          BY <2>3, <5>1
        <5>3. i <= i
          BY <2>3
        <5>. QED
          BY <2>6, <2>7, <3>1, <5>2, <5>3
      <4>2. k + 1 \in 1 .. k + 1
        BY <2>2
      <4>. QED
        BY <2>6, <2>11, <4>1, <4>2 DEF LastIn
    <3>10. Holds(k + 1, i) /\ i \in 0 .. n
      BY <2>3, <3>5, <3>8, <3>9
    <3> HIDE DEF Holds
    <3>. QED
      BY <2>2, <3>10
  <2>. QED
    BY <2>10, <2>11
<1>4. \A k \in 0 .. n - 1 : k \in S => k + 1 \in S
  BY <1>3
<1>5. 0 .. n \subseteq S
  <2> HIDE DEF S
  <2>. QED
    BY <1>1, <1>2, <1>4, PrefixInduction
<1>. QED
  BY <1>5

(* A pass finds what it would find if the passes ran as declared. *)
LEMMA UsersFind ==
  ASSUME NEW n, AreChecked(n), NEW order \in Seq(1 .. n), Len(order) = n, KeepsOrder(n, order),
         NEW k \in 1 .. n, NEW i, i = order[k],
         NEW r, r \in ReadsOf(compiled.passes[i]) \cup WritesOf(compiled.passes[i]),
         NEW w \in 0 .. n, LastIn(order, k - 1, r, w)
  PROVE  /\ w \in 0 .. i - 1 /\ \A c \in w + 1 .. i - 1 : r \notin WritesOf(compiled.passes[c])
         /\ FoundContents(order, k, r) = w
         /\ FoundContents(Declared, i, r) = w
<1>1. n \in Nat /\ i \in 1 .. n
  BY DEF AreChecked, KeepsOrder
<1>2. /\ \A p \in 1 .. k - 1 : r \in WritesOf(compiled.passes[order[p]]) => order[p] < i
      /\ \A c \in 1 .. i - 1 : r \in WritesOf(compiled.passes[c]) => \E p \in 1 .. k - 1 : order[p] = c
  BY UsersSeeWriters
<1>3. w \in 0 .. i - 1
  BY <1>1, <1>2 DEF LastIn
<1>4. \A c \in 1 .. i - 1 : r \in WritesOf(compiled.passes[c]) => c <= w
  BY <1>2 DEF LastIn
<1>5. \A c \in w + 1 .. i - 1 : r \notin WritesOf(compiled.passes[c])
  <2> SUFFICES ASSUME NEW c \in w + 1 .. i - 1, r \in WritesOf(compiled.passes[c])
               PROVE  FALSE
    OBVIOUS
  <2>1. c \in 1 .. i - 1 /\ ~ (c <= w)
    BY <1>1, <1>3
  <2>. QED
    BY <1>4, <2>1
<1>6. FoundContents(order, k, r) = w
  <2> DEFINE T == {p \in 1 .. k - 1 : r \in WritesOf(compiled.passes[order[p]])}
  <2>1. FoundContents(order, k, r) = IF T = {} THEN 0 ELSE order[Largest(T)]
    BY DEF FoundContents
  <2>2. CASE T = {}
    <3>1. w = 0
      BY <2>2 DEF LastIn
    <3>. QED
      BY <2>1, <2>2, <3>1
  <2>3. CASE T # {}
    <3>0. k - 1 \in Nat /\ T \in SUBSET (0 .. k - 1)
      BY <1>1
    <3> DEFINE m == Largest(T)
    <3>1. m \in T /\ \A y \in T : y <= m
      <4> HIDE DEF T
      <4>. QED
        BY <2>3, <3>0, LargestIs
    <3>2. FoundContents(order, k, r) = order[m]
      <4> HIDE DEF T
      <4>. QED
        BY <2>1, <2>3
    <3> HIDE DEF m
    <3>3. m \in 1 .. k - 1 /\ r \in WritesOf(compiled.passes[order[m]]) /\ m \in 1 .. n
          /\ order[m] \in 1 .. n
      <4>1. m \in 1 .. k - 1 /\ r \in WritesOf(compiled.passes[order[m]])
        BY <3>1
      <4>2. m \in 1 .. n
        BY <1>1, <4>1
      <4>. QED
        BY <4>1, <4>2 DEF KeepsOrder
    <3>4. order[m] <= w /\ w # 0
      BY <3>3 DEF LastIn
    <3>5. PICK p \in 1 .. k - 1 : order[p] = w
      BY <3>4 DEF LastIn
    <3>6. p <= m /\ p \in 1 .. n
      BY <1>1, <3>1, <3>4, <3>5 DEF LastIn
    <3>7. CASE order[m] # w
      <4>1. order[m] < order[p]
        BY <3>3, <3>4, <3>5, <3>7
      <4>2. Conflict(compiled.passes[order[m]], compiled.passes[order[p]])
        BY <3>3, <3>4, <3>5 DEF Conflict, LastIn
      <4>3. m < p
        BY <3>3, <3>6, <4>1, <4>2 DEF KeepsOrder
      <4>. QED
        BY <3>3, <3>6, <4>3
    <3>. QED
      BY <3>2, <3>7
  <2>. QED
    BY <2>2, <2>3
<1>7. FoundContents(Declared, i, r) = w
  <2> DEFINE T == {p \in 1 .. i - 1 : r \in WritesOf(compiled.passes[Declared[p]])}
  <2>1. FoundContents(Declared, i, r) = IF T = {} THEN 0 ELSE Declared[Largest(T)]
    BY DEF FoundContents
  <2>2. Len(compiled.passes) = n /\ \A p \in 1 .. n : Declared[p] = p
    <3>1. Len(compiled.passes) = n
      <4>1. compiled.passes \in Seq(PassForms) /\ DOMAIN compiled.passes = 1 .. n
        BY DEF AreChecked
      <4>. QED
        BY <1>1, <4>1
    <3>. QED
      BY <3>1 DEF Declared
  <2>3. T = {c \in 1 .. i - 1 : r \in WritesOf(compiled.passes[c])}
    BY <1>1, <2>2
  <2>4. i - 1 \in Nat /\ T \in SUBSET (0 .. i - 1)
    BY <1>1
  <2> DEFINE m == Largest(T)
  <2>5. T # {} => m \in T /\ \A y \in T : y <= m
    <3> HIDE DEF T
    <3>. QED
      BY <2>4, LargestIs
  <2>6. FoundContents(Declared, i, r) = IF T = {} THEN 0 ELSE Declared[m]
    BY <2>1
  <2>7. w # 0 => w \in T
    BY <1>3, <2>3 DEF LastIn
  <2>8. \A c \in T : c <= w /\ c >= 1 /\ c \in 1 .. n
    <3>1. \A c \in T : c \in 1 .. i - 1 /\ r \in WritesOf(compiled.passes[c])
      <4> HIDE DEF T
      <4>. QED
        BY <2>3
    <3> HIDE DEF T
    <3>2. \A c \in T : c <= w
      BY <1>4, <3>1
    <3>3. \A c \in 1 .. i - 1 : c >= 1 /\ c \in 1 .. n
      BY <1>1
    <3>. QED
      BY <3>1, <3>2, <3>3
  <2> HIDE DEF T, m
  <2>9. CASE T = {}
    BY <2>6, <2>7, <2>9
  <2>10. CASE T # {}
    <3>1. m \in T /\ m <= w /\ m >= 1 /\ m \in 1 .. n /\ w # 0
      BY <2>5, <2>8, <2>10
    <3>2. w <= m
      BY <2>5, <2>7, <3>1
    <3>. QED
      BY <2>2, <2>6, <2>10, <3>1, <3>2
  <2>. QED
    BY <2>9, <2>10
<1>. QED
  BY <1>3, <1>5, <1>6, <1>7

LEMMA ContentsAreTraced ==
  ASSUME NEW n, AreChecked(n), NEW order \in Seq(1 .. n), Len(order) = n, KeepsOrder(n, order)
  PROVE  /\ ContentsAreDefined(compiled.imports, compiled.passes, order) <=> AllTraced
         /\ \A k \in 1 .. n : LET i == order[k] IN
              \A r \in ReadsOf(compiled.passes[i]) \cup WritesOf(compiled.passes[i]) :
                FoundContents(order, k, r) = FoundContents(Declared, i, r)
<1> DEFINE after == DefinedAfter(compiled.imports, compiled.passes, order)
<1>1. n \in Nat /\ DOMAIN compiled.passes = 1 .. n /\ DOMAIN order = 1 .. n
      /\ Len(compiled.passes) = n
  <2>1. n \in Nat /\ compiled.passes \in Seq(PassForms) /\ DOMAIN compiled.passes = 1 .. n
    BY DEF AreChecked
  <2>. QED
    BY <2>1
<1>2. \A k \in 1 .. n : order[k] \in 1 .. n
  BY DEF KeepsOrder
<1>3. \A r \in DOMAIN compiled.imports : \A k \in 0 .. n : \E w \in 0 .. n :
        LastIn(order, k, r, w) /\ (after[k][r] <=> Traced(r, w + 1))
  BY ContentsFollow
<1>a. after = DefinedAfter(compiled.imports, compiled.passes, order)
  OBVIOUS
<1> HIDE DEF after
<1>4. ASSUME NEW k \in 1 .. n, NEW i, i = order[k],
             NEW r \in ReadsOf(compiled.passes[i]) \cup WritesOf(compiled.passes[i])
      PROVE  /\ FoundContents(order, k, r) = FoundContents(Declared, i, r)
             /\ after[k - 1][r] <=> Traced(r, i)
  <2>1. i \in 1 .. n /\ i \in Nat /\ k - 1 \in 0 .. n
    BY <1>1, <1>2, <1>4
  <2>2. r \in DOMAIN compiled.imports
    BY <2>1, WritesAre
  <2>3. PICK w \in 0 .. n : LastIn(order, k - 1, r, w) /\ (after[k - 1][r] <=> Traced(r, w + 1))
    BY <1>3, <2>1, <2>2
  <2>4. /\ w \in 0 .. i - 1 /\ \A c \in w + 1 .. i - 1 : r \notin WritesOf(compiled.passes[c])
        /\ FoundContents(order, k, r) = w
        /\ FoundContents(Declared, i, r) = w
    BY <1>4, <2>3, UsersFind
  <2>5. Traced(r, i) <=> Traced(r, w + 1)
    BY <2>1, <2>4, TracedBetween
  <2>. QED
    BY <2>3, <2>4, <2>5
<1>5. ASSUME NEW r \in DOMAIN compiled.imports
      PROVE  after[n][r] <=> Traced(r, n + 1)
  <2>1. n \in 0 .. n /\ n + 1 \in Nat /\ (n + 1) - 1 = n
    BY <1>1
  <2>2. PICK w \in 0 .. n : LastIn(order, n, r, w) /\ (after[n][r] <=> Traced(r, w + 1))
    BY <1>3, <2>1
  <2>3. \A c \in w + 1 .. n : r \notin WritesOf(compiled.passes[c])
    <3> SUFFICES ASSUME NEW c \in w + 1 .. n, r \in WritesOf(compiled.passes[c])
                 PROVE  FALSE
      OBVIOUS
    <3>1. c \in 1 .. n /\ ~ (c <= w)
      BY <1>1
    <3>2. PICK p \in 1 .. n : order[p] = c
      BY <3>1 DEF KeepsOrder
    <3>. QED
      BY <2>2, <3>1, <3>2 DEF LastIn
  <2>4. Traced(r, n + 1) <=> Traced(r, w + 1)
    BY <2>1, <2>3, TracedBetween
  <2>. QED
    BY <2>2, <2>4
<1>6. ASSUME NEW k \in 1 .. n, NEW i, i = order[k]
      PROVE  MayStart(after[k - 1], compiled.passes[i]) <=>
               /\ \A r \in ReadsOf(compiled.passes[i]) : Traced(r, i)
               /\ \A a \in compiled.passes[i].attachments : a.load = "LOAD" => Traced(a.resource, i)
  <2>1. \A a \in compiled.passes[i].attachments : a.resource \in WritesOf(compiled.passes[i])
    BY <1>2, <1>6, WritesAre
  <2>2. \A r \in ReadsOf(compiled.passes[i]) \cup WritesOf(compiled.passes[i]) :
          after[k - 1][r] <=> Traced(r, i)
    BY <1>4, <1>6
  <2>. QED
    BY <2>1, <2>2 DEF MayStart
<1> DEFINE Enters(i) ==
             /\ \A r \in ReadsOf(compiled.passes[i]) : Traced(r, i)
             /\ \A a \in compiled.passes[i].attachments : a.load = "LOAD" => Traced(a.resource, i)
<1>7. AllTraced <=> /\ \A i \in 1 .. n : Enters(i)
                    /\ \A r \in DOMAIN compiled.imports : Traced(r, n + 1)
  BY <1>1 DEF AllTraced
<1>8. ContentsAreDefined(compiled.imports, compiled.passes, order) <=>
        /\ \A k \in 1 .. n : MayStart(after[k - 1], compiled.passes[order[k]])
        /\ \A r \in DOMAIN compiled.imports : after[n][r]
  BY <1>1 DEF ContentsAreDefined, after
<1>9. \A k \in 1 .. n : MayStart(after[k - 1], compiled.passes[order[k]]) <=> Enters(order[k])
  BY <1>6
<1> HIDE DEF Enters
<1>10. (\A k \in 1 .. n : Enters(order[k])) <=> \A i \in 1 .. n : Enters(i)
  <2>1. /\ \A k \in 1 .. n : order[k] \in 1 .. n
        /\ \A i \in 1 .. n : \E k \in 1 .. n : order[k] = i
    BY <1>2 DEF KeepsOrder
  <2>. QED
    BY <2>1, Zenon
<1>11. ContentsAreDefined(compiled.imports, compiled.passes, order) <=> AllTraced
  <2>1. (\A k \in 1 .. n : MayStart(after[k - 1], compiled.passes[order[k]]))
        <=> \A k \in 1 .. n : Enters(order[k])
    BY <1>9, Zenon
  <2>2. (\A r \in DOMAIN compiled.imports : after[n][r])
        <=> \A r \in DOMAIN compiled.imports : Traced(r, n + 1)
    BY <1>5, Zenon
  <2>. QED
    BY <2>1, <2>2, <1>7, <1>8, <1>10, Zenon
<1>. QED
  BY <1>4, <1>11

(* The orders that do are those in which every edge leads forward. *)
LEMMA OrdersAre ==
  ASSUME NEW n, AreChecked(n), NEW edges,
         edges = compiled.dependencies \cup HazardEdges(compiled.passes), NEW order
  PROVE  order \in Orders <=> IsOrder(n, edges, order)
<1>1. n \in Nat /\ DOMAIN compiled.passes = 1 .. n /\ Len(compiled.passes) = n
  <2>1. n \in Nat /\ compiled.passes \in Seq(PassForms) /\ DOMAIN compiled.passes = 1 .. n
    BY DEF AreChecked
  <2>. QED
    BY <2>1
<1> DEFINE Allowed(f) ==
             /\ \A i, j \in 1 .. n : f[i] = f[j] => i = j
             /\ \A i, j \in 1 .. n : i < j =>
                   /\ <<f[j], f[i]>> \notin compiled.dependencies
                   /\ Conflict(compiled.passes[f[i]], compiled.passes[f[j]]) => f[i] < f[j]
<1>2. order \in Orders <=> order \in [1 .. n -> 1 .. n] /\ Allowed(order)
  BY <1>1 DEF Orders
<1>3. ASSUME order \in [1 .. n -> 1 .. n], Allowed(order)
      PROVE  IsOrder(n, edges, order)
  <2>0. /\ n \in Nat /\ order \in [1 .. n -> 1 .. n]
        /\ \A p, q \in 1 .. n : order[p] = order[q] => p = q
    BY <1>1, <1>3
  <2>1. \A i \in 1 .. n : \E p \in 1 .. n : order[p] = i
    <3> HIDE DEF Allowed
    <3>. QED
      BY <2>0, OneToOneIsOnto
  <2>2. ASSUME NEW p \in 1 .. n, NEW e \in edges, e[2] = order[p]
        PROVE  \E k \in 1 .. p - 1 : order[k] = e[1]
    <3>1. e[1] \in 1 .. n /\ e[1] # e[2]
      <4>1. CASE e \in compiled.dependencies
        BY <4>1 DEF AreChecked
      <4>2. CASE e \in HazardEdges(compiled.passes)
        <5>1. e[1] \in 1 .. n /\ e[2] \in 1 .. n /\ e[1] < e[2]
          BY <1>1, <4>2, HazardsAre
        <5>. QED
          BY <5>1
      <4>. QED
        BY <4>1, <4>2
    <3>2. PICK k \in 1 .. n : order[k] = e[1]
      BY <2>1, <3>1
    <3>3. k # p
      BY <2>2, <3>1, <3>2
    <3>4. ~ (p < k)
      <4> SUFFICES ASSUME p < k PROVE FALSE
        OBVIOUS
      <4>1. CASE e \in compiled.dependencies
        <5>1. e = <<order[k], order[p]>>
          BY <2>2, <3>2, <4>1 DEF AreChecked
        <5>. QED
          BY <1>3, <4>1, <5>1
      <4>2. CASE e \in HazardEdges(compiled.passes)
        <5>1. e[1] \in 1 .. n /\ e[2] \in 1 .. n /\ e[1] < e[2]
              /\ Conflict(compiled.passes[e[1]], compiled.passes[e[2]])
          BY <1>1, <4>2, HazardsAre
        <5>2. Conflict(compiled.passes[order[p]], compiled.passes[order[k]])
          BY <2>2, <3>2, <5>1 DEF Conflict
        <5>3. order[p] < order[k]
          BY <1>3, <5>2
        <5>. QED
          BY <2>2, <3>2, <5>1, <5>3
      <4>. QED
        BY <4>1, <4>2
    <3>5. k \in 1 .. p - 1
      BY <3>3, <3>4
    <3>. QED
      BY <3>2, <3>5
  <2>. QED
    BY <1>3, <2>0, <2>1, <2>2 DEF IsOrder
<1>4. ASSUME IsOrder(n, edges, order)
      PROVE  order \in [1 .. n -> 1 .. n] /\ Allowed(order)
  <2>1. order \in [1 .. n -> 1 .. n] /\ \A i, j \in 1 .. n : order[i] = order[j] => i = j
    BY <1>4 DEF IsOrder
  <2>2. KeepsOrder(n, order)
    BY <1>4, OrderIsKept
  <2>3. ASSUME NEW i \in 1 .. n, NEW j \in 1 .. n, i < j
        PROVE  /\ <<order[j], order[i]>> \notin compiled.dependencies
               /\ Conflict(compiled.passes[order[i]], compiled.passes[order[j]]) => order[i] < order[j]
    <3>1. order[i] \in 1 .. n /\ order[j] \in 1 .. n /\ order[i] # order[j] /\ ~ (j < i)
      BY <2>1, <2>3
    <3>2. <<order[j], order[i]>> \notin edges
      <4> SUFFICES ASSUME <<order[j], order[i]>> \in edges PROVE FALSE
        OBVIOUS
      <4>1. Follows(n, order, order[j], order[i])
        BY <1>1, <1>4, EdgesAreFollowed
      <4>. QED
        BY <3>1, <4>1 DEF Follows
    <3>3. ASSUME Conflict(compiled.passes[order[i]], compiled.passes[order[j]]), order[j] < order[i]
          PROVE  FALSE
      <4>1. Conflict(compiled.passes[order[j]], compiled.passes[order[i]])
        BY <3>3 DEF Conflict
      <4>2. j < i
        BY <2>2, <3>3, <4>1 DEF KeepsOrder
      <4>. QED
        BY <3>1, <4>2
    <3>. QED
      BY <3>1, <3>2, <3>3
  <2>. QED
    BY <2>1, <2>3
<1>. QED
  BY <1>2, <1>3, <1>4

(* The greedy order is the first of those. *)
FirstDifference(f, g) == Least({k \in DOMAIN f : f[k] # g[k]})

LEMMA GreedyIsFirst ==
  ASSUME NEW n \in Nat, NEW edges, NEW order, IsGreedy(n, edges, order), Len(order) = n,
         NEW other, IsOrder(n, edges, other), other # order
  PROVE  order[FirstDifference(other, order)] < other[FirstDifference(other, order)]
<1> DEFINE T == {p \in DOMAIN other : other[p] # order[p]}
           k == Least(T)
<1>1. order \in [1 .. n -> 1 .. n] /\ other \in [1 .. n -> 1 .. n]
  <2>1. order \in [1 .. n -> 1 .. n]
    BY DEF IsGreedy
  <2>. QED
    BY <2>1 DEF IsOrder
<1>2. T \in SUBSET Nat /\ T # {}
  <2>1. DOMAIN other = 1 .. n
    BY <1>1
  <2>2. \E p \in 1 .. n : other[p] # order[p]
    BY <1>1
  <2>. QED
    BY <2>1, <2>2
<1>3. k \in T /\ \A p \in T : k <= p
  <2> HIDE DEF T
  <2>. QED
    BY <1>2, LeastIs
<1> HIDE DEF k
<1>4. k \in 1 .. n /\ other[k] # order[k] /\ \A p \in 1 .. n : other[p] # order[p] => k <= p
  BY <1>1, <1>3
<1>5. \A p \in 1 .. k - 1 : p \in 1 .. n /\ other[p] = order[p]
  BY <1>4
<1>6. other[k] \in Free(n, edges, order, k)
  <2>1. other[k] \in 1 .. n /\ \A p \in 1 .. k - 1 : order[p] # other[k]
    <3>1. other[k] \in 1 .. n
      BY <1>1, <1>4
    <3>2. \A p \in 1 .. k - 1 : other[p] # other[k]
      <4>1. \A p \in 1 .. k - 1 : p \in 1 .. n /\ p # k
        BY <1>4
      <4>. QED
        BY <1>4, <4>1 DEF IsOrder
    <3>. QED
      BY <1>5, <3>1, <3>2
  <2>2. \A e \in edges : e[2] = other[k] => \E p \in 1 .. k - 1 : other[p] = e[1]
    BY <1>4 DEF IsOrder
  <2>3. \A e \in edges : e[2] = other[k] => \E p \in 1 .. k - 1 : order[p] = e[1]
    BY <1>5, <2>2
  <2>. QED
    BY <2>1, <2>3 DEF Free
<1>7. order[k] <= other[k]
  BY <1>4, <1>6 DEF IsGreedy
<1>8. order[k] < other[k]
  BY <1>1, <1>4, <1>7
<1>. QED
  BY <1>8 DEF k, FirstDifference

(* Where the greedy order gets stuck there is none. *)
LEMMA StuckMeansNone ==
  ASSUME NEW n \in Nat, NEW edges, NEW order, IsGreedy(n, edges, order), Len(order) < n,
         Free(n, edges, order, Len(order) + 1) = {}, NEW other
  PROVE  ~ IsOrder(n, edges, other)
<1> SUFFICES ASSUME IsOrder(n, edges, other) PROVE FALSE
  OBVIOUS
<1> DEFINE m == Len(order)
           T == {p \in 1 .. n : \A q \in 1 .. m : order[q] # other[p]}
<1>1. m \in Nat /\ m < n /\ order \in [1 .. m -> 1 .. n] /\ other \in [1 .. n -> 1 .. n]
  <2>1. order \in Seq(1 .. n)
    BY DEF IsGreedy
  <2>2. m \in Nat /\ m < n /\ order \in [1 .. m -> 1 .. n]
    BY <2>1
  <2>. QED
    BY <2>2 DEF IsOrder
<1>a. m = Len(order)
  OBVIOUS
<1> HIDE DEF m
<1>2. T # {}
  <2> SUFFICES ASSUME T = {} PROVE FALSE
    OBVIOUS
  <2> DEFINE where == [p \in 1 .. n |-> CHOOSE q \in 1 .. m : order[q] = other[p]]
  <2>1. \A p \in 1 .. n : \E q \in 1 .. m : order[q] = other[p]
    OBVIOUS
  <2>2. \A p \in 1 .. n : where[p] \in 1 .. m /\ order[where[p]] = other[p]
    BY <2>1
  <2>3. where \in [1 .. n -> 1 .. m]
    BY <2>2
  <2>4. IsFiniteSet(1 .. n) /\ Cardinality(1 .. n) = n /\ IsFiniteSet(1 .. m) /\ Cardinality(1 .. m) = m
    <3>1. 1 \in Int /\ n \in Int /\ m \in Int
      BY <1>1
    <3>2. /\ IsFiniteSet(1 .. n) /\ Cardinality(1 .. n) = (IF 1 > n THEN 0 ELSE n - 1 + 1)
          /\ IsFiniteSet(1 .. m) /\ Cardinality(1 .. m) = (IF 1 > m THEN 0 ELSE m - 1 + 1)
      BY <3>1, FS_Interval
    <3>. QED
      BY <1>1, <3>2
  <2>5. Cardinality(1 .. m) < Cardinality(1 .. n)
    BY <1>1, <2>4
  <2> HIDE DEF where
  <2>6. PICK p, q \in 1 .. n : p # q /\ where[p] = where[q]
    <3> DEFINE Holes == 1 .. m
               Birds == 1 .. n
    <3>0. /\ IsFiniteSet(Birds) /\ IsFiniteSet(Holes) /\ Cardinality(Holes) < Cardinality(Birds)
          /\ where \in [Birds -> Holes]
      BY <2>3, <2>4, <2>5
    <3> HIDE DEF Holes, Birds
    <3>1. \E x, y \in Birds : x # y /\ where[x] = where[y]
      BY <3>0, FS_PigeonHole
    <3> USE DEF Birds
    <3>. QED
      BY <3>1
  <2>7. other[p] = other[q]
    BY <2>2, <2>6
  <2>. QED
    BY <2>6, <2>7 DEF IsOrder
<1>3. T \in SUBSET Nat
  OBVIOUS
<1>4. PICK p \in T : \A q \in T : p <= q
  <2> HIDE DEF T
  <2>. QED
    BY <1>2, <1>3, SmallestNumber
<1>5. p \in 1 .. n /\ (\A q \in 1 .. m : order[q] # other[p]) /\ other[p] \in 1 .. n
  BY <1>1, <1>4
<1>6. \A q \in 1 .. p - 1 : \E k \in 1 .. m : order[k] = other[q]
  <2>1. \A q \in 1 .. p - 1 : q \in 1 .. n /\ ~ (p <= q)
    BY <1>5
  <2>. QED
    BY <1>4, <2>1
<1>7. \A e \in edges : e[2] = other[p] => \E k \in 1 .. p - 1 : other[k] = e[1]
  BY <1>5 DEF IsOrder
<1>8. \A e \in edges : e[2] = other[p] => \E k \in 1 .. m : order[k] = e[1]
  BY <1>6, <1>7
<1>9. (m + 1) - 1 = m
  BY <1>1
<1>10. other[p] \in Free(n, edges, order, m + 1)
  BY <1>5, <1>8, <1>9 DEF Free
<1>. QED
  BY <1>10, <1>a

(* What Compile left: it read the builder once, so nothing but the checked   *)
(* declarations stands behind a compiled graph. *)
CompiledEdges == compiled.dependencies \cup HazardEdges(compiled.passes)
CompiledOrder == Sorted(Len(compiled.passes), CompiledEdges)

CompiledIsTrue ==
  compiled.status \in {"ACCEPTED", "REFUSED"} =>
    /\ AreChecked(Len(compiled.passes))
    /\ compiled.status = "ACCEPTED" <=>
         /\ Len(CompiledOrder) = Len(compiled.passes)
         /\ ContentsAreDefined(compiled.imports, compiled.passes, CompiledOrder)
    /\ compiled.status = "ACCEPTED" => compiled.order = CompiledOrder

GraphTyped ==
  /\ graph \in [frame : Frames, imports : Seq(Imports), passes : Seq(PassForms),
                dependencies : SUBSET (Nat \X Nat)]
  /\ \A d \in graph.dependencies : {d[1], d[2]} \subseteq DOMAIN graph.passes /\ d[1] # d[2]
  /\ recorded \in [{i.object : i \in Imports} -> Nat]

\* A target that was recorded is gone, so it is not recorded again.
RecordedIsGone ==
  \A o \in DOMAIN recorded : recorded[o] <= 1 /\ (recorded[o] > 0 => o \in gone)

GraphInv == GraphTyped /\ CompiledIsTrue /\ RecordedIsGone

LEMMA CompiledFollows ==
  ASSUME CompiledIsTrue
  PROVE  CompiledMeansDeclared /\ CompileIsExact
<1> DEFINE n == Len(compiled.passes)
           edges == CompiledEdges
           order == CompiledOrder
<1> SUFFICES ASSUME compiled.status \in {"ACCEPTED", "REFUSED"}
             PROVE  CompiledMeansDeclared /\ CompileIsExact
  BY DEF CompiledMeansDeclared, CompileIsExact
<1>1. AreChecked(n)
  BY DEF CompiledIsTrue
<1>2. n \in Nat /\ edges = compiled.dependencies \cup HazardEdges(compiled.passes)
      /\ order = Sorted(n, edges)
  BY <1>1 DEF AreChecked, CompiledEdges, CompiledOrder
<1>3. compiled.status = "ACCEPTED" <=>
        Len(order) = n /\ ContentsAreDefined(compiled.imports, compiled.passes, order)
  BY DEF CompiledIsTrue
<1>4. compiled.status = "ACCEPTED" => compiled.order = order
  BY DEF CompiledIsTrue
<1> HIDE DEF n, edges, order
<1>5. IsGreedy(n, edges, order) /\ GoesOnFor(n, edges, order, n)
  BY <1>2, SortedIs
<1>6. order \in Seq(1 .. n)
  BY <1>5 DEF IsGreedy
<1>7. ASSUME Len(order) = n
      PROVE  /\ IsOrder(n, edges, order) /\ KeepsOrder(n, order) /\ order \in Orders
             /\ ContentsAreDefined(compiled.imports, compiled.passes, order) <=> AllTraced
             /\ \A k \in 1 .. n : LET i == order[k] IN
                  \A r \in ReadsOf(compiled.passes[i]) \cup WritesOf(compiled.passes[i]) :
                    FoundContents(order, k, r) = FoundContents(Declared, i, r)
  <2>1. IsOrder(n, edges, order)
    BY <1>2, <1>5, <1>7, GreedyIsOrder
  <2>2. KeepsOrder(n, order)
    BY <1>1, <1>2, <2>1, OrderIsKept
  <2>3. order \in Orders
    BY <1>1, <1>2, <2>1, OrdersAre
  <2>. QED
    BY <1>1, <1>6, <1>7, <2>1, <2>2, <2>3, ContentsAreTraced
<1>8. CASE compiled.status = "ACCEPTED"
  <2>1. compiled.order = order /\ Len(order) = n /\ DOMAIN order = 1 .. n
    BY <1>3, <1>4, <1>6, <1>8
  <2>2. CompiledMeansDeclared
    <3>1. AllTraced
      BY <1>3, <1>7, <1>8, <2>1
    <3>. QED
      BY <1>7, <2>1, <3>1 DEF CompiledMeansDeclared
  <2>3. \A other \in Orders : other # compiled.order =>
          compiled.order[FirstDifference(other, compiled.order)]
            < other[FirstDifference(other, compiled.order)]
    <3>1. \A other \in Orders : IsOrder(n, edges, other)
      BY <1>1, <1>2, OrdersAre
    <3>2. IsGreedy(n, edges, compiled.order) /\ Len(compiled.order) = n
      BY <1>5, <2>1
    <3>. QED
      BY <1>2, <3>1, <3>2, GreedyIsFirst
  <2>4. CompileIsExact
    <3>1. compiled.order \in Orders
      BY <1>7, <2>1
    <3>2. \A other \in Orders : other # compiled.order =>
            LET k == Least({p \in DOMAIN other : other[p] # compiled.order[p]})
            IN  compiled.order[k] < other[k]
      BY <2>3, Zenon DEF FirstDifference
    <3>. QED
      BY <1>8, <3>1, <3>2, Zenon DEF CompileIsExact
  <2>. QED
    BY <2>2, <2>4
<1>9. CASE compiled.status = "REFUSED"
  <2>1. Orders = {} \/ ~ AllTraced
    <3>1. CASE Len(order) = n
      BY <1>3, <1>7, <1>9, <3>1
    <3>2. CASE Len(order) # n
      <4>1. Len(order) < n /\ Free(n, edges, order, Len(order) + 1) = {}
        <5>1. Len(order) \in Nat
          BY <1>6
        <5>2. Len(order) <= n /\ Free(n, edges, order, Len(order) + 1) = {}
          BY <1>5, <3>2 DEF GoesOnFor
        <5>3. n \in Nat
          BY <1>2
        <5> DEFINE m == Len(order)
        <5>4. m \in Nat /\ m <= n /\ m # n
          BY <3>2, <5>1, <5>2
        <5> HIDE DEF m
        <5>5. m < n
          BY <5>3, <5>4
        <5>. QED
          BY <5>2, <5>5 DEF m
      <4>2. \A other : ~ IsOrder(n, edges, other)
        BY <1>2, <1>5, <4>1, StuckMeansNone
      <4>3. \A other : other \notin Orders
        BY <1>1, <1>2, <4>2, OrdersAre
      <4>. QED
        BY <4>3
    <3>. QED
      BY <3>1, <3>2
  <2>. QED
    BY <1>9, <2>1 DEF CompiledMeansDeclared, CompileIsExact
<1>. QED
  BY <1>8, <1>9

LEMMA GraphFollows == GraphInv => GraphsAreSound
<1> SUFFICES ASSUME GraphInv PROVE GraphsAreSound
  OBVIOUS
<1>1. CompiledMeansDeclared /\ CompileIsExact
  BY CompiledFollows DEF GraphInv
<1>2. TargetsAreRecordedOnce
  BY DEF GraphInv, RecordedIsGone, TargetsAreRecordedOnce
<1>. QED
  BY <1>1, <1>2 DEF GraphsAreSound

LEMMA GraphStart == GraphInit => GraphInv
<1> SUFFICES ASSUME GraphInit PROVE GraphInv
  OBVIOUS
<1>1. Least(Frames) \in Frames
  BY RenderGraphAssumption, LeastIs
<1>2. GraphTyped
  BY <1>1 DEF GraphInit, GraphTyped, Empty
<1>3. CompiledIsTrue
  BY DEF GraphInit, NotCompiled, CompiledIsTrue
<1>4. RecordedIsGone
  BY DEF GraphInit, RecordedIsGone
<1>. QED
  BY <1>2, <1>3, <1>4 DEF GraphInv

(* The builder checks nothing of a pass but the bound; Compile does. *)
LEMMA BuilderKeepsGraph ==
  ASSUME GraphInv, UNCHANGED <<compiled, gone, recorded>>,
         \/ \E import \in Imports : Import(import)
         \/ \E pass \in PassForms : AddGraphicsPass(pass)
         \/ \E before, after \in 1 .. MaxPasses : AddDependency(before, after)
         \/ \E number \in Frames : NextFrame(number)
  PROVE  GraphInv'
<1>1. GraphTyped
  BY DEF GraphInv
<1>2. CompiledIsTrue'
  BY DEF GraphInv, CompiledIsTrue, CompiledOrder, CompiledEdges, AreChecked
<1>3. RecordedIsGone'
  BY DEF GraphInv, RecordedIsGone
<1>4. ASSUME NEW import \in Imports, Import(import)
      PROVE  GraphTyped'
  <2>1. graph' = [graph EXCEPT !.imports = Append(graph.imports, import)]
    BY <1>4 DEF Import
  <2>2. Append(graph.imports, import) \in Seq(Imports)
    BY <1>1 DEF GraphTyped
  <2>. QED
    BY <1>1, <2>1, <2>2 DEF GraphTyped
<1>5. ASSUME NEW pass \in PassForms, AddGraphicsPass(pass)
      PROVE  GraphTyped'
  <2>1. graph' = [graph EXCEPT !.passes = Append(graph.passes, pass)]
    BY <1>5 DEF AddGraphicsPass
  <2>2. /\ Append(graph.passes, pass) \in Seq(PassForms)
        /\ DOMAIN graph.passes \subseteq DOMAIN Append(graph.passes, pass)
    BY <1>1 DEF GraphTyped
  <2>. QED
    BY <1>1, <2>1, <2>2 DEF GraphTyped
<1>6. ASSUME NEW before \in 1 .. MaxPasses, NEW after \in 1 .. MaxPasses, AddDependency(before, after)
      PROVE  GraphTyped'
  <2>1. /\ graph' = [graph EXCEPT !.dependencies = graph.dependencies \cup {<<before, after>>}]
        /\ {before, after} \subseteq DOMAIN graph.passes /\ before # after
    BY <1>6 DEF AddDependency
  <2>2. graph.dependencies \cup {<<before, after>>} \in SUBSET (Nat \X Nat)
    <3>1. before \in Nat /\ after \in Nat
      BY RenderGraphAssumption
    <3>. QED
      BY <1>1, <3>1 DEF GraphTyped
  <2>3. /\ graph' \in [frame : Frames, imports : Seq(Imports), passes : Seq(PassForms),
                       dependencies : SUBSET (Nat \X Nat)]
        /\ graph'.passes = graph.passes
        /\ graph'.dependencies = graph.dependencies \cup {<<before, after>>}
    BY <1>1, <2>1, <2>2 DEF GraphTyped
  <2>4. \A d \in graph'.dependencies :
          {d[1], d[2]} \subseteq DOMAIN graph'.passes /\ d[1] # d[2]
    BY <1>1, <2>1, <2>3 DEF GraphTyped
  <2>. QED
    BY <1>1, <2>3, <2>4 DEF GraphTyped
<1>7. ASSUME NEW number \in Frames, NextFrame(number)
      PROVE  GraphTyped'
  BY <1>1, <1>7 DEF GraphTyped, NextFrame, Empty
<1>. QED
  BY <1>2, <1>3, <1>4, <1>5, <1>6, <1>7 DEF GraphInv

LEMMA CompileKeepsGraph ==
  ASSUME GraphInv, Compile
  PROVE  GraphInv'
<1> DEFINE n == Len(graph.passes)
           edges == graph.dependencies \cup HazardEdges(graph.passes)
           order == Sorted(n, edges)
           declared == /\ \A i \in DOMAIN graph.imports : ImportIsValid(graph.imports[i])
                       /\ \A i \in DOMAIN graph.passes : PassIsValid(graph.imports, graph.passes[i])
           accepted == /\ declared /\ Len(order) = n
                       /\ ContentsAreDefined(graph.imports, graph.passes, order)
<1>1. /\ graph' = graph /\ gone' = gone /\ recorded' = recorded
      /\ compiled' = IF accepted THEN Result("ACCEPTED", order, edges)
                     ELSE IF declared THEN Result("REFUSED", <<>>, {})
                     ELSE Result("INVALID", <<>>, {})
  BY DEF Compile
<1>2. GraphTyped' /\ RecordedIsGone'
  BY <1>1 DEF GraphInv, GraphTyped, RecordedIsGone
<1>3. /\ compiled'.passes = graph.passes /\ compiled'.imports = graph.imports
      /\ compiled'.dependencies = graph.dependencies
      /\ compiled'.status = IF accepted THEN "ACCEPTED" ELSE IF declared THEN "REFUSED" ELSE "INVALID"
      /\ accepted => compiled'.order = order
  BY <1>1 DEF Result
<1>4. CompiledEdges' = edges
  BY <1>3 DEF CompiledEdges
<1>5. CompiledOrder' = order
  BY <1>3, <1>4 DEF CompiledOrder
<1>6. ASSUME declared
      PROVE  AreChecked(Len(compiled.passes))'
  <2>1. graph.passes \in Seq(PassForms) /\ graph.dependencies \subseteq Nat \X Nat
    BY DEF GraphInv, GraphTyped
  <2>2. n \in Nat /\ graph.passes \in [1 .. n -> PassForms] /\ DOMAIN graph.passes = 1 .. n
    BY <2>1
  <2>3. \A d \in graph.dependencies : d[1] \in 1 .. n /\ d[2] \in 1 .. n /\ d[1] # d[2]
    BY <2>2 DEF GraphInv, GraphTyped
  <2>4. \A i \in 1 .. n : PassIsValid(graph.imports, graph.passes[i])
    BY <1>6, <2>2
  <2>5. graph.dependencies \subseteq (1 .. n) \X (1 .. n)
    BY <2>1, <2>3
  <2> HIDE DEF n
  <2>6. Len(compiled'.passes) = n
    BY <1>3 DEF n
  <2>. QED
    BY <1>3, <2>2, <2>3, <2>4, <2>5, <2>6 DEF AreChecked
<1>7. accepted <=> declared /\ Len(order) = n /\ ContentsAreDefined(graph.imports, graph.passes, order)
  OBVIOUS
<1>8. CompiledIsTrue'
  <2> HIDE DEF edges, order, declared, accepted
  <2>1. compiled'.status = "ACCEPTED" <=> accepted
    BY <1>3
  <2>2. compiled'.status \in {"ACCEPTED", "REFUSED"} => declared
    BY <1>3, <1>7
  <2>3. declared => (compiled'.status = "ACCEPTED" <=>
           /\ Len(CompiledOrder') = Len(compiled'.passes)
           /\ ContentsAreDefined(compiled'.imports, compiled'.passes, CompiledOrder'))
    BY <1>3, <1>5, <1>7, <2>1
  <2>4. compiled'.status = "ACCEPTED" => compiled'.order = CompiledOrder'
    BY <1>3, <1>5, <2>1
  <2>. QED
    BY <1>6, <2>2, <2>3, <2>4 DEF CompiledIsTrue
<1>. QED
  BY <1>2, <1>8 DEF GraphInv

LEMMA GraphStep == GraphInv /\ [GraphNext]_graphVars => GraphInv'
<1> SUFFICES ASSUME GraphInv, [GraphNext]_graphVars PROVE GraphInv'
  OBVIOUS
<1>1. ASSUME NEW import \in Imports, Import(import)
      PROVE  GraphInv'
  BY <1>1, BuilderKeepsGraph DEF Import
<1>2. ASSUME NEW pass \in PassForms, AddGraphicsPass(pass)
      PROVE  GraphInv'
  BY <1>2, BuilderKeepsGraph DEF AddGraphicsPass
<1>3. ASSUME NEW before \in 1 .. MaxPasses, NEW after \in 1 .. MaxPasses, AddDependency(before, after)
      PROVE  GraphInv'
  BY <1>3, BuilderKeepsGraph DEF AddDependency
<1>4. ASSUME NEW number \in Frames, NextFrame(number)
      PROVE  GraphInv'
  BY <1>4, BuilderKeepsGraph DEF NextFrame
<1>5. CASE Compile
  BY <1>5, CompileKeepsGraph
<1>6. ASSUME UNCHANGED <<graph, compiled>>, GraphTyped', RecordedIsGone'
      PROVE  GraphInv'
  <2>1. CompiledIsTrue'
    BY <1>6 DEF GraphInv, CompiledIsTrue, CompiledOrder, CompiledEdges, AreChecked
  <2>. QED
    BY <1>6, <2>1 DEF GraphInv
<1>7. ASSUME NEW object, Invalidate(object)
      PROVE  GraphInv'
  <2>1. GraphTyped' /\ RecordedIsGone'
    BY <1>7 DEF GraphInv, GraphTyped, RecordedIsGone, Invalidate
  <2>. QED
    BY <1>6, <1>7, <2>1 DEF Invalidate
<1>8. ASSUME NEW target \in Targets, RecordGraph(target)
      PROVE  GraphInv'
  <2>1. target \notin gone /\ target \in gone' /\ gone \subseteq gone' /\ graph' = graph
        /\ compiled' = compiled
    BY <1>8 DEF RecordGraph, Retired
  <2>2. target \in {i.object : i \in Imports}
    BY DEF Targets
  <2>3. recorded \in [{i.object : i \in Imports} -> Nat]
    BY DEF GraphInv, GraphTyped
  <2>4. recorded[target] = 0
    BY <2>1, <2>2, <2>3 DEF GraphInv, RecordedIsGone
  <2>5. PICK m \in {0, 1} : recorded' = [recorded EXCEPT ![target] = m]
    <3>1. recorded' = [recorded EXCEPT ![target] =
            IF ValidateColorExecution(graph.frame, target) THEN recorded[target] + 1 ELSE recorded[target]]
      BY <1>8 DEF RecordGraph
    <3>2. CASE ValidateColorExecution(graph.frame, target)
      <4>1. recorded' = [recorded EXCEPT ![target] = 1]
        BY <2>4, <3>1, <3>2
      <4>. QED
        BY <4>1
    <3>3. CASE ~ ValidateColorExecution(graph.frame, target)
      <4>1. recorded' = [recorded EXCEPT ![target] = 0]
        BY <2>4, <3>1, <3>3
      <4>. QED
        BY <4>1
    <3>. QED
      BY <3>2, <3>3
  <2>6. GraphTyped'
    <3>1. recorded' \in [{i.object : i \in Imports} -> Nat]
      <4> DEFINE D == {i.object : i \in Imports}
      <4>1. recorded \in [D -> Nat] /\ m \in Nat
        BY <2>3
      <4> HIDE DEF D
      <4>2. recorded' \in [D -> Nat]
        BY <2>5, <4>1
      <4>. QED
        BY <4>2 DEF D
    <3>. QED
      BY <2>1, <3>1 DEF GraphInv, GraphTyped
  <2>7. RecordedIsGone'
    BY <2>1, <2>2, <2>3, <2>5 DEF GraphInv, RecordedIsGone
  <2>. QED
    BY <1>6, <2>1, <2>6, <2>7
<1>9. CASE UNCHANGED graphVars
  BY <1>6, <1>9 DEF graphVars, GraphInv, GraphTyped, RecordedIsGone
<1>. QED
  BY <1>1, <1>2, <1>3, <1>4, <1>5, <1>7, <1>8, <1>9 DEF GraphNext

(* Whatever passes a caller declares, a compiled graph means what was        *)
(* declared, is the first of the orders that do, is refused only when there   *)
(* is none or contents are missing, and is recorded into an image once        *)
(* (render_graph.cpp:338-505, presentation.cpp:175). *)
THEOREM GraphsSound == GraphSpec => []GraphsAreSound
<1>. QED
  BY GraphStart, GraphStep, GraphFollows, PTL DEF GraphSpec

(***************************************************************************)
(* Draws.                                                                  *)
(***************************************************************************)

(* Positions can be arranged by any relation that is total and transitive.  *)
Arranged(n, L, f) ==
  /\ \A i, j \in 1 .. n : i # j => f[i] # f[j]
  /\ \A i, j \in 1 .. n : i < j => <<f[i], f[j]>> \in L

IsTotalOrder(n, L) ==
  /\ \A i, j \in 1 .. n : <<i, j>> \in L \/ <<j, i>> \in L
  /\ \A i, j, k \in 1 .. n : <<i, j>> \in L /\ <<j, k>> \in L => <<i, k>> \in L

LEMMA ArrangedOnce ==
  ASSUME NEW n \in Nat, NEW L, IsTotalOrder(n + 1, L),
         NEW f \in [1 .. n -> 1 .. n], Arranged(n, L, f)
  PROVE  \E g \in [1 .. n + 1 -> 1 .. n + 1] : Arranged(n + 1, L, g)
<1> DEFINE T == {i \in 1 .. n : <<f[i], n + 1>> \notin L} \cup {n + 1}
<1>1. T \in SUBSET Nat /\ T # {}
  OBVIOUS
<1>2. PICK at \in T : \A y \in T : at <= y
  BY <1>1, SmallestNumber
<1>3. at \in 1 .. n + 1
  BY <1>2
<1>4. \A i \in 1 .. n : i < at => <<f[i], n + 1>> \in L
  <2>1. ASSUME NEW i \in 1 .. n, i < at, <<f[i], n + 1>> \notin L PROVE FALSE
    <3>1. i \in T
      BY <2>1
    <3>. QED
      BY <1>2, <1>3, <2>1, <3>1
  <2>. QED
    BY <2>1
<1>5. at <= n => <<n + 1, f[at]>> \in L
  <2>1. ASSUME at <= n PROVE <<n + 1, f[at]>> \in L
    <3>1. at \in 1 .. n /\ <<f[at], n + 1>> \notin L
      BY <1>2, <1>3, <2>1
    <3>2. f[at] \in 1 .. n + 1 /\ n + 1 \in 1 .. n + 1
      BY <3>1
    <3>. QED
      BY <3>1, <3>2 DEF IsTotalOrder
  <2>. QED
    BY <2>1
<1> HIDE DEF T
<1> DEFINE g == [i \in 1 .. n + 1 |-> IF i < at THEN f[i] ELSE IF i = at THEN n + 1 ELSE f[i - 1]]
<1>6. /\ \A i \in 1 .. n + 1 : i < at => i \in 1 .. n /\ g[i] = f[i]
      /\ g[at] = n + 1
      /\ \A i \in 1 .. n + 1 : i > at => i - 1 \in 1 .. n /\ g[i] = f[i - 1]
  BY <1>3
<1>7. g \in [1 .. n + 1 -> 1 .. n + 1]
  <2>1. \A i \in 1 .. n + 1 : (IF i < at THEN f[i] ELSE IF i = at THEN n + 1 ELSE f[i - 1]) \in 1 .. n + 1
    BY <1>3
  <2>. QED
    BY <2>1
<1> HIDE DEF g
<1>8. \A i, j \in 1 .. n + 1 : i # j => g[i] # g[j]
  <2>1. \A i \in 1 .. n : f[i] \in 1 .. n /\ f[i] # n + 1
    BY Zenon, SMT
  <2>2. ASSUME NEW i \in 1 .. n + 1, NEW j \in 1 .. n + 1, i < j
        PROVE  g[i] # g[j]
    <3>1. CASE j < at
      BY <1>3, <1>6, <2>2, <3>1 DEF Arranged
    <3>2. CASE j = at
      BY <1>3, <1>6, <2>1, <2>2, <3>2
    <3>3. CASE j > at /\ i < at
      <4>1. i \in 1 .. n /\ j - 1 \in 1 .. n /\ i # j - 1
        BY <1>3, <2>2, <3>3
      <4>. QED
        BY <1>6, <2>2, <3>3, <4>1 DEF Arranged
    <3>4. CASE j > at /\ i = at
      BY <1>3, <1>6, <2>1, <2>2, <3>4
    <3>5. CASE i > at
      <4>1. i - 1 \in 1 .. n /\ j - 1 \in 1 .. n /\ i - 1 # j - 1 /\ j > at
        BY <1>3, <2>2, <3>5
      <4>. QED
        BY <1>6, <2>2, <3>5, <4>1 DEF Arranged
    <3>. QED
      BY <1>3, <3>1, <3>2, <3>3, <3>4, <3>5
  <2>. QED
    BY <2>2
<1>9. ASSUME NEW i \in 1 .. n + 1, NEW j \in 1 .. n + 1, i < j
      PROVE  <<g[i], g[j]>> \in L
  <2>1. CASE j < at
    BY <1>3, <1>6, <1>9, <2>1 DEF Arranged
  <2>2. CASE j = at
    BY <1>3, <1>4, <1>6, <1>9, <2>2
  <2>3. CASE j > at /\ i < at
    <3>1. i \in 1 .. n /\ j - 1 \in 1 .. n /\ i < j - 1
      BY <1>3, <1>9, <2>3
    <3>. QED
      BY <1>6, <1>9, <2>3, <3>1 DEF Arranged
  <2>4. CASE j > at /\ i = at
    <3>1. j - 1 \in 1 .. n /\ at \in 1 .. n /\ at <= j - 1
      BY <1>3, <2>4
    <3>2. CASE j - 1 = at
      <4>1. g[j] = f[at] /\ g[i] = n + 1
        BY <1>6, <2>4, <3>2
      <4>2. <<n + 1, f[at]>> \in L
        BY <1>5, <3>1
      <4>. QED
        BY <4>1, <4>2
    <3>3. CASE at < j - 1
      <4>1. <<f[at], f[j - 1]>> \in L
        BY <3>1, <3>3 DEF Arranged
      <4>2. f[at] \in 1 .. n + 1 /\ f[j - 1] \in 1 .. n + 1 /\ n + 1 \in 1 .. n + 1
        BY <3>1
      <4>3. <<n + 1, f[j - 1]>> \in L
        BY <1>5, <3>1, <4>1, <4>2 DEF IsTotalOrder
      <4>. QED
        BY <1>6, <2>4, <4>3
    <3>. QED
      BY <3>1, <3>2, <3>3
  <2>5. CASE i > at
    <3>1. i - 1 \in 1 .. n /\ j - 1 \in 1 .. n /\ i - 1 < j - 1 /\ j > at
      BY <1>3, <1>9, <2>5
    <3>. QED
      BY <1>6, <1>9, <2>5, <3>1 DEF Arranged
  <2>. QED
    BY <1>3, <2>1, <2>2, <2>3, <2>4, <2>5
<1>. QED
  BY <1>7, <1>8, <1>9 DEF Arranged

LEMMA CanBeArranged ==
  ASSUME NEW n \in Nat, NEW L, IsTotalOrder(n, L)
  PROVE  \E f \in [1 .. n -> 1 .. n] : Arranged(n, L, f)
<1> DEFINE S == {m \in 0 .. n : \E f \in [1 .. m -> 1 .. m] : Arranged(m, L, f)}
<1>1. 0 \in S
  <2> DEFINE f == [i \in 1 .. 0 |-> i]
  <2>1. 1 .. 0 = {} /\ f \in [1 .. 0 -> 1 .. 0] /\ 0 \in 0 .. n
    OBVIOUS
  <2>. QED
    BY <2>1 DEF Arranged
<1>2. ASSUME NEW m \in 0 .. n - 1, m \in S
      PROVE  m + 1 \in S
  <2>1. PICK f \in [1 .. m -> 1 .. m] : Arranged(m, L, f)
    BY <1>2
  <2>2. m \in Nat /\ m + 1 \in 0 .. n /\ 1 .. m + 1 \subseteq 1 .. n
    OBVIOUS
  <2>3. IsTotalOrder(m + 1, L)
    <3>1. \A i \in 1 .. m + 1 : i \in 1 .. n
      BY <2>2
    <3>. QED
      BY <3>1, Zenon DEF IsTotalOrder
  <2>. QED
    BY <2>1, <2>2, <2>3, ArrangedOnce
<1>3. \A m \in 0 .. n - 1 : m \in S => m + 1 \in S
  BY <1>2
<1> HIDE DEF S
<1>4. 0 .. n \subseteq S
  BY <1>1, <1>3, PrefixInduction
<1>5. n \in S
  BY <1>4
<1>. QED
  BY <1>5 DEF S

(* Sequences of numbers of one length are ordered by their first difference. *)
LEMMA FirstDiffers ==
  ASSUME NEW n \in Nat, NEW a \in [1 .. n -> Int], NEW b \in [1 .. n -> Int], a # b
  PROVE  \E i \in 1 .. n : a[i] # b[i] /\ \A j \in 1 .. i - 1 : a[j] = b[j]
<1> DEFINE T == {i \in 1 .. n : a[i] # b[i]}
<1>1. T \in SUBSET Nat /\ T # {}
  OBVIOUS
<1>2. PICK i \in T : \A y \in T : i <= y
  BY <1>1, SmallestNumber
<1>3. ASSUME NEW j \in 1 .. i - 1 PROVE a[j] = b[j]
  <2>1. j \in 1 .. n /\ j < i
    BY <1>2
  <2>. QED
    BY <1>2, <2>1
<1>. QED
  BY <1>2, <1>3

LEMMA PrecedesIsTotal ==
  ASSUME NEW n \in Nat, NEW a \in [1 .. n -> Int], NEW b \in [1 .. n -> Int]
  PROVE  /\ Precedes(a, b) \/ Precedes(b, a) \/ a = b
         /\ ~(Precedes(a, b) /\ Precedes(b, a))
         /\ ~Precedes(a, a)
<1>1. Precedes(a, b) \/ Precedes(b, a) \/ a = b
  <2>1. SUFFICES ASSUME a # b PROVE Precedes(a, b) \/ Precedes(b, a)
    OBVIOUS
  <2>2. PICK i \in 1 .. n : a[i] # b[i] /\ \A j \in 1 .. i - 1 : a[j] = b[j]
    BY <2>1, FirstDiffers
  <2>3. a[i] < b[i] \/ b[i] < a[i]
    BY <2>2
  <2>. QED
    BY <2>2, <2>3 DEF Precedes
<1>2. ASSUME Precedes(a, b), Precedes(b, a) PROVE FALSE
  <2>1. PICK i \in 1 .. n : a[i] < b[i] /\ \A j \in 1 .. i - 1 : a[j] = b[j]
    BY <1>2 DEF Precedes
  <2>2. PICK k \in 1 .. n : b[k] < a[k] /\ \A j \in 1 .. k - 1 : b[j] = a[j]
    BY <1>2 DEF Precedes
  <2>3. CASE i = k
    BY <2>1, <2>2, <2>3
  <2>4. CASE i < k
    <3>1. i \in 1 .. k - 1
      BY <2>4
    <3>. QED
      BY <2>1, <2>2, <3>1
  <2>5. CASE k < i
    <3>1. k \in 1 .. i - 1
      BY <2>5
    <3>. QED
      BY <2>1, <2>2, <3>1
  <2>. QED
    BY <2>3, <2>4, <2>5
<1>3. ~Precedes(a, a)
  BY DEF Precedes
<1>. QED
  BY <1>1, <1>2, <1>3

LEMMA PrecedesThrough ==
  ASSUME NEW n \in Nat, NEW a \in [1 .. n -> Int], NEW b \in [1 .. n -> Int],
         NEW c \in [1 .. n -> Int], Precedes(a, b), Precedes(b, c)
  PROVE  Precedes(a, c)
<1>1. PICK i \in 1 .. n : a[i] < b[i] /\ \A j \in 1 .. i - 1 : a[j] = b[j]
  BY DEF Precedes
<1>2. PICK k \in 1 .. n : b[k] < c[k] /\ \A j \in 1 .. k - 1 : b[j] = c[j]
  BY DEF Precedes
<1>3. CASE i = k
  <2>1. a[i] < c[i]
    BY <1>1, <1>2, <1>3
  <2>2. \A j \in 1 .. i - 1 : a[j] = c[j]
    BY <1>1, <1>2, <1>3
  <2>. QED
    BY <2>1, <2>2 DEF Precedes
<1>4. CASE i < k
  <2>1. i \in 1 .. k - 1 /\ \A j \in 1 .. i - 1 : j \in 1 .. k - 1
    BY <1>4
  <2>2. a[i] < c[i] /\ \A j \in 1 .. i - 1 : a[j] = c[j]
    BY <1>1, <1>2, <2>1
  <2>. QED
    BY <2>2 DEF Precedes
<1>5. CASE k < i
  <2>1. k \in 1 .. i - 1 /\ \A j \in 1 .. k - 1 : j \in 1 .. i - 1
    BY <1>5
  <2>2. a[k] < c[k] /\ \A j \in 1 .. k - 1 : a[j] = c[j]
    BY <1>1, <1>2, <2>1
  <2>. QED
    BY <2>2 DEF Precedes
<1>. QED
  BY <1>3, <1>4, <1>5

(* Commands are ordered by their batch, then by their object. *)
LeaseRecords == [resource : Handles, version : Nat]
Commands == [view : Int, object : Nat, mesh : LeaseRecords, material : LeaseRecords]
KeyOf(c) == Append(BatchKey(c), c.object)

LEMMA AppendNumber ==
  ASSUME NEW k \in Seq(Int), NEW e \in Int
  PROVE  /\ Append(k, e) \in Seq(Int) /\ Len(Append(k, e)) = Len(k) + 1
         /\ Append(k, e)[Len(k) + 1] = e
         /\ \A i \in 1 .. Len(k) : Append(k, e)[i] = k[i]
BY AppendProperties

LEMMA KeyIsTuple ==
  ASSUME NEW c \in Commands
  PROVE  /\ BatchKey(c) \in [1 .. 5 -> Int] /\ KeyOf(c) \in [1 .. 6 -> Int]
         /\ \A i \in 1 .. 5 : KeyOf(c)[i] = BatchKey(c)[i]
         /\ KeyOf(c)[6] = c.object
         /\ BatchKey(c)[1] = c.view
         /\ BatchKey(c)[2] = c.material.resource /\ BatchKey(c)[3] = c.material.version
         /\ BatchKey(c)[4] = c.mesh.resource /\ BatchKey(c)[5] = c.mesh.version
<1>1. /\ c.view \in Int /\ c.object \in Int
      /\ c.material.resource \in Int /\ c.material.version \in Int
      /\ c.mesh.resource \in Int /\ c.mesh.version \in Int
  <2>1. \A l \in LeaseRecords : l.resource \in Int /\ l.version \in Int
    <3>1. \A h \in Handles : h \in Int
      BY ExtractionAssumption
    <3>. QED
      BY <3>1 DEF LeaseRecords
  <2>2. c.view \in Int /\ c.object \in Int /\ c.mesh \in LeaseRecords /\ c.material \in LeaseRecords
    BY DEF Commands
  <2>. QED
    BY <2>1, <2>2
<1>2. BatchKey(c) \in Seq(Int) /\ Len(BatchKey(c)) = 5
  BY <1>1 DEF BatchKey
<1>3. /\ BatchKey(c)[1] = c.view
      /\ BatchKey(c)[2] = c.material.resource /\ BatchKey(c)[3] = c.material.version
      /\ BatchKey(c)[4] = c.mesh.resource /\ BatchKey(c)[5] = c.mesh.version
  BY DEF BatchKey
<1>4. /\ KeyOf(c) \in Seq(Int) /\ Len(KeyOf(c)) = 6 /\ KeyOf(c)[6] = c.object
      /\ \A i \in 1 .. 5 : KeyOf(c)[i] = BatchKey(c)[i]
  <2> DEFINE k == BatchKey(c)
             e == c.object
  <2>1. k \in Seq(Int) /\ e \in Int /\ Len(k) = 5
    BY <1>1, <1>2
  <2>2. KeyOf(c) = Append(k, e)
    BY DEF KeyOf
  <2> HIDE DEF k, e
  <2>3. /\ Append(k, e) \in Seq(Int) /\ Len(Append(k, e)) = Len(k) + 1
        /\ Append(k, e)[Len(k) + 1] = e
        /\ \A i \in 1 .. Len(k) : Append(k, e)[i] = k[i]
    BY <2>1, AppendNumber
  <2>4. Append(k, e) \in Seq(Int) /\ Len(Append(k, e)) = 6 /\ Append(k, e)[6] = e
    BY <2>1, <2>3
  <2>5. \A i \in 1 .. 5 : Append(k, e)[i] = k[i]
    BY <2>1, <2>3
  <2>. QED
    BY <2>2, <2>4, <2>5, Zenon DEF k, e
<1>5. \A q \in Seq(Int) : q \in [1 .. Len(q) -> Int]
  OBVIOUS
<1>6. BatchKey(c) \in [1 .. 5 -> Int] /\ KeyOf(c) \in [1 .. 6 -> Int]
  <2>1. BatchKey(c) \in [1 .. Len(BatchKey(c)) -> Int] /\ KeyOf(c) \in [1 .. Len(KeyOf(c)) -> Int]
    BY <1>2, <1>4, <1>5, Zenon
  <2>. QED
    BY <1>2, <1>4, <2>1, Zenon
<1>. QED
  BY <1>3, <1>4, <1>6, Zenon

LEMMA SameKey ==
  ASSUME NEW a \in Commands, NEW b \in Commands, KeyOf(a) = KeyOf(b)
  PROVE  a = b
<1>1. BatchKey(a)[1] = BatchKey(b)[1] /\ BatchKey(a)[2] = BatchKey(b)[2]
      /\ BatchKey(a)[3] = BatchKey(b)[3] /\ BatchKey(a)[4] = BatchKey(b)[4]
      /\ BatchKey(a)[5] = BatchKey(b)[5]
  <2>1. \A i \in 1 .. 5 : BatchKey(a)[i] = BatchKey(b)[i]
    BY KeyIsTuple
  <2>. QED
    BY <2>1
<1>2. a.view = b.view /\ a.object = b.object
      /\ a.material.resource = b.material.resource /\ a.material.version = b.material.version
      /\ a.mesh.resource = b.mesh.resource /\ a.mesh.version = b.mesh.version
  BY <1>1, KeyIsTuple
<1>3. a.mesh = b.mesh /\ a.material = b.material
  BY <1>2 DEF Commands, LeaseRecords
<1>. QED
  BY <1>2, <1>3 DEF Commands

LEMMA LessIsPrecedes ==
  ASSUME NEW a, NEW b
  PROVE  LessCommand(a, b) <=> Precedes(KeyOf(a), KeyOf(b))
BY DEF LessCommand, KeyOf

(* What does not belong before another comes after it or is the same. *)
LEMMA NotLess ==
  ASSUME NEW a \in Commands, NEW b \in Commands
  PROVE  ~LessCommand(b, a) <=> LessCommand(a, b) \/ a = b
<1>1. KeyOf(a) \in [1 .. 6 -> Int] /\ KeyOf(b) \in [1 .. 6 -> Int]
  BY KeyIsTuple
<1>2. /\ Precedes(KeyOf(a), KeyOf(b)) \/ Precedes(KeyOf(b), KeyOf(a)) \/ KeyOf(a) = KeyOf(b)
      /\ ~(Precedes(KeyOf(a), KeyOf(b)) /\ Precedes(KeyOf(b), KeyOf(a)))
      /\ ~Precedes(KeyOf(a), KeyOf(a))
  BY <1>1, PrecedesIsTotal
<1>. QED
  BY <1>2, SameKey, LessIsPrecedes

LEMMA NotLessThrough ==
  ASSUME NEW a \in Commands, NEW b \in Commands, NEW c \in Commands,
         ~LessCommand(b, a), ~LessCommand(c, b)
  PROVE  ~LessCommand(c, a)
<1>1. LessCommand(a, b) \/ a = b
  BY NotLess
<1>2. LessCommand(b, c) \/ b = c
  BY NotLess
<1>3. LessCommand(a, b) /\ LessCommand(b, c) => LessCommand(a, c)
  <2>1. KeyOf(a) \in [1 .. 6 -> Int] /\ KeyOf(b) \in [1 .. 6 -> Int] /\ KeyOf(c) \in [1 .. 6 -> Int]
    BY KeyIsTuple
  <2>. QED
    BY <2>1, PrecedesThrough, LessIsPrecedes
<1>4. LessCommand(a, c) \/ a = c
  BY <1>1, <1>2, <1>3
<1>. QED
  BY <1>4, NotLess

(* Between two commands of a batch there are only commands of it. *)
LEMMA KeyBetween ==
  ASSUME NEW a \in Commands, NEW b \in Commands, NEW c \in Commands,
         ~LessCommand(b, a), ~LessCommand(c, b), BatchKey(a) = BatchKey(c)
  PROVE  BatchKey(b) = BatchKey(a)
<1> SUFFICES ASSUME BatchKey(a) # BatchKey(b) PROVE FALSE
  OBVIOUS
<1>1. BatchKey(a) \in [1 .. 5 -> Int] /\ BatchKey(b) \in [1 .. 5 -> Int]
  BY KeyIsTuple
<1>2. PICK i \in 1 .. 5 : /\ BatchKey(a)[i] # BatchKey(b)[i]
                          /\ \A j \in 1 .. i - 1 : BatchKey(a)[j] = BatchKey(b)[j]
  BY <1>1, FirstDiffers
<1> DEFINE ka == KeyOf(a)
           kb == KeyOf(b)
           kc == KeyOf(c)
<1>3. ka \in [1 .. 6 -> Int] /\ kb \in [1 .. 6 -> Int] /\ kc \in [1 .. 6 -> Int]
  BY KeyIsTuple
<1>4. /\ \A j \in 1 .. 5 : ka[j] = BatchKey(a)[j]
      /\ \A j \in 1 .. 5 : kb[j] = BatchKey(b)[j]
      /\ \A j \in 1 .. 5 : kc[j] = BatchKey(a)[j]
  BY KeyIsTuple
<1>5. ~Precedes(kb, ka) /\ ~Precedes(kc, kb)
  BY LessIsPrecedes
<1> HIDE DEF ka, kb, kc
<1>6. ka[i] # kb[i] /\ kc[i] = ka[i] /\ i \in 1 .. 6
  BY <1>2, <1>4
<1>7. \A j \in 1 .. i - 1 : ka[j] = kb[j] /\ kc[j] = kb[j]
  BY <1>2, <1>4
<1>8. ~(kb[i] < ka[i])
  BY <1>3, <1>5, <1>6, <1>7 DEF Precedes
<1>9. ~(kc[i] < kb[i])
  BY <1>3, <1>5, <1>6, <1>7 DEF Precedes
<1>. QED
  BY <1>3, <1>6, <1>8, <1>9

(* Sorting keeps the commands and puts them in order. *)
InOrder(commands) ==
  \A i, j \in DOMAIN commands : i < j => ~LessCommand(commands[j], commands[i])

LEMMA SortCommandsSorts ==
  ASSUME NEW items \in Seq(Commands)
  PROVE  /\ SortCommands(items) \in Seq(Commands)
         /\ Len(SortCommands(items)) = Len(items)
         /\ InOrder(SortCommands(items))
<1> DEFINE n == Len(items)
           L == {p \in (1 .. n) \X (1 .. n) : ~LessCommand(items[p[2]], items[p[1]])}
<1>1. n \in Nat /\ DOMAIN items = 1 .. n /\ \A i \in 1 .. n : items[i] \in Commands
  OBVIOUS
<1>2. \A i, j \in 1 .. n : <<i, j>> \in L <=> ~LessCommand(items[j], items[i])
  OBVIOUS
<1> HIDE DEF n, L
<1>3. IsTotalOrder(n, L)
  <2>1. ASSUME NEW i \in 1 .. n, NEW j \in 1 .. n PROVE <<i, j>> \in L \/ <<j, i>> \in L
    <3>1. items[i] \in Commands /\ items[j] \in Commands
      BY <1>1
    <3>2. ~LessCommand(items[j], items[i]) \/ ~LessCommand(items[i], items[j])
      BY <3>1, NotLess
    <3>. QED
      BY <1>2, <3>2
  <2>2. ASSUME NEW i \in 1 .. n, NEW j \in 1 .. n, NEW k \in 1 .. n, <<i, j>> \in L, <<j, k>> \in L
        PROVE  <<i, k>> \in L
    <3>1. items[i] \in Commands /\ items[j] \in Commands /\ items[k] \in Commands
      BY <1>1
    <3>2. ~LessCommand(items[k], items[i])
      BY <1>2, <2>2, <3>1, NotLessThrough
    <3>. QED
      BY <1>2, <3>2
  <2>. QED
    BY <2>1, <2>2 DEF IsTotalOrder
<1>4. PICK f \in [1 .. n -> 1 .. n] : Arranged(n, L, f)
  BY <1>1, <1>3, CanBeArranged
<1>5. IsSort(f, items)
  <2>1. ASSUME NEW i \in 2 .. n PROVE ~LessCommand(items[f[i]], items[f[i - 1]])
    <3>1. i \in 1 .. n /\ i - 1 \in 1 .. n /\ i - 1 < i
      BY <1>1
    <3>2. <<f[i - 1], f[i]>> \in L
      BY <1>4, <3>1 DEF Arranged
    <3>. QED
      BY <1>2, <3>1, <3>2
  <2>. QED
    BY <1>1, <1>4, <2>1 DEF IsSort, Arranged, n
<1> DEFINE from == CHOOSE g \in [DOMAIN items -> DOMAIN items] : IsSort(g, items)
<1>6. from \in [1 .. n -> 1 .. n] /\ IsSort(from, items)
  <2>1. \E g \in [DOMAIN items -> DOMAIN items] : IsSort(g, items)
    BY <1>1, <1>4, <1>5
  <2>2. from \in [DOMAIN items -> DOMAIN items] /\ IsSort(from, items)
    BY <2>1, Zenon
  <2>. QED
    BY <1>1, <2>2
<1>7. SortCommands(items) = [i \in 1 .. n |-> items[from[i]]]
  BY <1>1 DEF SortCommands
<1> HIDE DEF from
<1> DEFINE sorted == [i \in 1 .. n |-> items[from[i]]]
<1>8. /\ sorted \in [1 .. n -> Commands]
      /\ \A i \in 1 .. n : sorted[i] = items[from[i]]
  BY <1>1, <1>6
<1>9. sorted \in Seq(Commands) /\ Len(sorted) = n /\ DOMAIN sorted = 1 .. n
  BY <1>1, <1>8
<1> HIDE DEF sorted
<1>10. \A i \in 2 .. n : ~LessCommand(sorted[i], sorted[i - 1])
  <2>1. ASSUME NEW i \in 2 .. n PROVE ~LessCommand(sorted[i], sorted[i - 1])
    <3>1. i \in 1 .. n /\ i - 1 \in 1 .. n
      BY <1>1
    <3>2. ~LessCommand(items[from[i]], items[from[i - 1]])
      BY <1>6 DEF IsSort, n
    <3>. QED
      BY <1>8, <3>1, <3>2
  <2>. QED
    BY <2>1
<1>11. ASSUME NEW i \in 1 .. n
       PROVE  \A j \in 1 .. n : i < j => ~LessCommand(sorted[j], sorted[i])
  <2> DEFINE S == {k \in 0 .. n : \A j \in 1 .. n : i <= j /\ j <= k => ~LessCommand(sorted[j], sorted[i])}
  <2>1. 0 \in S
    BY <1>1
  <2>2. ASSUME NEW k \in 0 .. n - 1, k \in S PROVE k + 1 \in S
    <3>1. SUFFICES ASSUME i <= k + 1 PROVE ~LessCommand(sorted[k + 1], sorted[i])
      BY <1>1, <2>2
    <3>2. CASE i = k + 1
      BY <1>8, <3>2, NotLess
    <3>3. CASE i <= k
      <4>1. k \in 1 .. n /\ k + 1 \in 2 .. n /\ (k + 1) - 1 = k /\ k + 1 \in 1 .. n
        BY <1>1, <3>3
      <4>2. ~LessCommand(sorted[k], sorted[i])
        BY <2>2, <3>3, <4>1
      <4>3. ~LessCommand(sorted[k + 1], sorted[k])
        BY <1>10, <4>1
      <4>. QED
        BY <1>8, <4>1, <4>2, <4>3, NotLessThrough
    <3>. QED
      BY <1>1, <3>1, <3>2, <3>3
  <2>3. \A k \in 0 .. n - 1 : k \in S => k + 1 \in S
    BY <2>2
  <2> HIDE DEF S
  <2>4. 0 .. n \subseteq S
    BY <1>1, <2>1, <2>3, PrefixInduction
  <2>5. n \in S
    BY <1>1, <2>4
  <2>. QED
    BY <1>1, <2>5 DEF S
<1>12. InOrder(sorted)
  BY <1>9, <1>11 DEF InOrder
<1>. QED
  BY <1>7, <1>9, <1>12 DEF sorted, n

(* A batch is a start and the commands up to the next one. *)
RunFrom(commands, s) ==
  {j \in DOMAIN commands : j >= s /\ \A t \in Starts(commands) : t > s => j < t}

LEMMA RunIsInterval ==
  ASSUME NEW commands, NEW n \in Nat, DOMAIN commands = 1 .. n, NEW s \in Starts(commands)
  PROVE  \E e \in s .. n : RunFrom(commands, s) = s .. e
<1>1. s \in 1 .. n /\ Starts(commands) \subseteq 1 .. n
  BY DEF Starts
<1> DEFINE T == {t \in Starts(commands) : t > s}
<1>2. CASE T = {}
  <2>1. \A j \in 1 .. n : j \in RunFrom(commands, s) <=> j >= s
    BY <1>2 DEF RunFrom
  <2>2. RunFrom(commands, s) \subseteq 1 .. n
    BY DEF RunFrom
  <2>3. RunFrom(commands, s) = s .. n
    <3>1. ASSUME NEW j \in 1 .. n PROVE j \in RunFrom(commands, s) <=> j \in s .. n
      BY <1>1, <2>1
    <3>2. s .. n \subseteq 1 .. n
      BY <1>1
    <3>. QED
      BY <2>2, <3>1, <3>2, Zenon
  <2>. QED
    BY <1>1, <2>3
<1>3. CASE T # {}
  <2>1. T \in SUBSET Nat
    BY <1>1
  <2>2. PICK t \in T : \A u \in T : t <= u
    BY <1>3, <2>1, SmallestNumber
  <2>3. t \in 1 .. n /\ t > s
    BY <1>1, <2>2
  <2>4. \A j \in 1 .. n : (\A u \in Starts(commands) : u > s => j < u) <=> j < t
    BY <1>1, <2>2, <2>3
  <2>5. \A j \in 1 .. n : j \in RunFrom(commands, s) <=> j >= s /\ j < t
    BY <2>4 DEF RunFrom
  <2>6. RunFrom(commands, s) \subseteq 1 .. n
    BY DEF RunFrom
  <2> HIDE DEF T
  <2>7. RunFrom(commands, s) = s .. t - 1
    <3>1. ASSUME NEW j \in 1 .. n PROVE j \in RunFrom(commands, s) <=> j \in s .. t - 1
      BY <1>1, <2>3, <2>5
    <3>2. s .. t - 1 \subseteq 1 .. n
      BY <1>1, <2>3
    <3>. QED
      BY <2>6, <3>1, <3>2, Zenon
  <2>8. t - 1 \in s .. n
    BY <1>1, <2>3
  <2>. QED
    BY <2>7, <2>8
<1>. QED
  BY <1>2, <1>3

BatchAt(commands, s) == [first |-> s, count |-> Cardinality(RunFrom(commands, s))]
CommandsOf(b) == b.first .. b.first + b.count - 1

LEMMA BatchCovers ==
  ASSUME NEW commands, NEW n \in Nat, DOMAIN commands = 1 .. n, NEW s \in Starts(commands)
  PROVE  CommandsOf(BatchAt(commands, s)) = RunFrom(commands, s)
<1>1. s \in 1 .. n
  BY DEF Starts
<1>2. PICK e \in s .. n : RunFrom(commands, s) = s .. e
  BY RunIsInterval
<1>3. Cardinality(s .. e) = e - s + 1
  <2>1. s \in Int /\ e \in Int /\ s <= e
    BY <1>1
  <2>2. Cardinality(s .. e) = IF s > e THEN 0 ELSE e - s + 1
    BY <2>1, FS_Interval
  <2>. QED
    BY <2>1, <2>2
<1>4. CommandsOf(BatchAt(commands, s)) = s .. s + (e - s + 1) - 1
  BY <1>2, <1>3 DEF CommandsOf, BatchAt
<1>5. s + (e - s + 1) - 1 = e
  BY <1>1
<1>. QED
  BY <1>2, <1>4, <1>5

LEMMA StartOfRun ==
  ASSUME NEW commands, NEW n \in Nat, DOMAIN commands = 1 .. n, NEW j \in 1 .. n
  PROVE  \E s \in Starts(commands) : j \in RunFrom(commands, s)
<1> DEFINE T == {s \in Starts(commands) : s <= j}
<1>1. Starts(commands) \subseteq 1 .. n /\ 1 \in Starts(commands)
  BY DEF Starts
<1>2. T \in SUBSET (0 .. n) /\ T # {}
  BY <1>1
<1>3. PICK s \in T : \A t \in T : t <= s
  BY <1>2, LargestIs
<1>4. s \in 1 .. n /\ s <= j /\ s \in Starts(commands)
  BY <1>1, <1>3
<1>5. ASSUME NEW t \in Starts(commands), t > s PROVE j < t
  <2>1. t \in 1 .. n /\ ~(t \in T)
    BY <1>1, <1>3, <1>4, <1>5
  <2>. QED
    BY <2>1, <1>4
<1>. QED
  BY <1>4, <1>5 DEF RunFrom

LEMMA RunHasOneKey ==
  ASSUME NEW commands, NEW n \in Nat, DOMAIN commands = 1 .. n,
         NEW s \in Starts(commands), NEW j \in RunFrom(commands, s)
  PROVE  BatchKey(commands[j]) = BatchKey(commands[s])
<1> DEFINE S == {k \in 0 .. n : k \in RunFrom(commands, s)
                                => BatchKey(commands[k]) = BatchKey(commands[s])}
<1>1. s \in 1 .. n /\ RunFrom(commands, s) \subseteq 1 .. n
  BY DEF Starts, RunFrom
<1>2. 0 \in S
  BY <1>1
<1>3. ASSUME NEW k \in 0 .. n - 1, k \in S PROVE k + 1 \in S
  <2>1. SUFFICES ASSUME k + 1 \in RunFrom(commands, s)
                 PROVE  BatchKey(commands[k + 1]) = BatchKey(commands[s])
    BY <1>3
  <2>2. k + 1 \in 1 .. n /\ s <= k + 1 /\ \A t \in Starts(commands) : t > s => k + 1 < t
    BY <1>1, <2>1 DEF RunFrom
  <2>3. CASE k + 1 = s
    BY <2>3
  <2>4. CASE k + 1 > s
    <3>1. k + 1 \notin Starts(commands)
      BY <2>2, <2>4
    <3>2. k + 1 # 1 /\ k \in 1 .. n /\ k >= s /\ (k + 1) - 1 = k
      BY <1>1, <2>2, <2>4
    <3>3. BatchKey(commands[k]) = BatchKey(commands[k + 1])
      <4>1. ~(BatchKey(commands[(k + 1) - 1]) # BatchKey(commands[k + 1]))
        BY <2>2, <3>1 DEF Starts
      <4>. QED
        BY <3>2, <4>1
    <3>4. \A t \in Starts(commands) : t \in 1 .. n
      BY DEF Starts
    <3>5. k \in RunFrom(commands, s)
      BY <2>2, <3>2, <3>4 DEF RunFrom
    <3>. QED
      BY <1>3, <3>3, <3>5
  <2>. QED
    BY <1>1, <2>2, <2>3, <2>4
<1>4. \A k \in 0 .. n - 1 : k \in S => k + 1 \in S
  BY <1>3
<1> HIDE DEF S
<1>5. 0 .. n \subseteq S
  BY <1>2, <1>4, PrefixInduction
<1>6. j \in S
  BY <1>1, <1>5
<1>. QED
  BY <1>6 DEF S

LEMMA OneKeyIsOneRun ==
  ASSUME NEW commands \in Seq(Commands), InOrder(commands),
         NEW n \in Nat, DOMAIN commands = 1 .. n,
         NEW s \in Starts(commands), NEW i \in RunFrom(commands, s),
         NEW j \in 1 .. n, i <= j, BatchKey(commands[i]) = BatchKey(commands[j])
  PROVE  j \in RunFrom(commands, s)
<1>1. /\ s \in 1 .. n /\ Starts(commands) \subseteq 1 .. n
      /\ i \in 1 .. n /\ s <= i /\ \A t \in Starts(commands) : t > s => i < t
  BY DEF Starts, RunFrom
<1>2. \A k \in 1 .. n : commands[k] \in Commands
  OBVIOUS
<1>3. ASSUME NEW k \in 1 .. n, i <= k, k <= j
      PROVE  BatchKey(commands[k]) = BatchKey(commands[i])
  <2>1. CASE k = i
    BY <2>1
  <2>2. CASE k = j
    BY <2>2
  <2>3. CASE i < k /\ k < j
    <3>1. ~LessCommand(commands[k], commands[i]) /\ ~LessCommand(commands[j], commands[k])
      BY <1>1, <2>3 DEF InOrder
    <3>2. commands[i] \in Commands /\ commands[j] \in Commands /\ commands[k] \in Commands
      BY <1>1, <1>2
    <3>. QED
      BY <3>1, <3>2, KeyBetween
  <2>. QED
    BY <1>1, <1>3, <2>1, <2>2, <2>3
<1>4. ASSUME NEW t \in Starts(commands), t > s, ~(j < t) PROVE FALSE
  <2>1. t \in 1 .. n /\ i < t /\ t <= j
    BY <1>1, <1>4
  <2>2. t - 1 \in 1 .. n /\ i <= t - 1 /\ t - 1 <= j /\ i <= t /\ t # 1
    BY <1>1, <2>1
  <2>3. BatchKey(commands[t - 1]) = BatchKey(commands[t])
    BY <1>3, <2>1, <2>2
  <2>. QED
    BY <2>2, <2>3 DEF Starts
<1>. QED
  BY <1>1, <1>4 DEF RunFrom

PartCommands(commands, batches) ==
  /\ UNION {CommandsOf(b) : b \in batches} = DOMAIN commands
  /\ \A i, j \in DOMAIN commands :
        BatchKey(commands[i]) = BatchKey(commands[j])
        <=> \E b \in batches : {i, j} \subseteq CommandsOf(b)

LEMMA BatchesPart ==
  ASSUME NEW commands \in Seq(Commands), InOrder(commands)
  PROVE  PartCommands(commands, BatchesOf(commands))
<1> DEFINE n == Len(commands)
<1>1. n \in Nat /\ DOMAIN commands = 1 .. n
  OBVIOUS
<1>2. BatchesOf(commands) = {BatchAt(commands, s) : s \in Starts(commands)}
  BY DEF BatchesOf, BatchAt, RunFrom
<1> HIDE DEF n
<1>3. \A s \in Starts(commands) : CommandsOf(BatchAt(commands, s)) = RunFrom(commands, s)
  BY <1>1, BatchCovers
<1>4. \A j \in 1 .. n : \E s \in Starts(commands) : j \in RunFrom(commands, s)
  BY <1>1, StartOfRun
<1>5. UNION {CommandsOf(b) : b \in BatchesOf(commands)} = DOMAIN commands
  <2>1. ASSUME NEW x, NEW b \in BatchesOf(commands), x \in CommandsOf(b) PROVE x \in DOMAIN commands
    <3>1. PICK s \in Starts(commands) : b = BatchAt(commands, s)
      BY <1>2
    <3>. QED
      BY <1>3, <2>1, <3>1 DEF RunFrom
  <2>2. ASSUME NEW x \in DOMAIN commands PROVE \E b \in BatchesOf(commands) : x \in CommandsOf(b)
    <3>1. PICK s \in Starts(commands) : x \in RunFrom(commands, s)
      BY <1>1, <1>4
    <3>. QED
      BY <1>2, <1>3, <3>1
  <2>. QED
    BY <2>1, <2>2, Zenon
<1>6. ASSUME NEW i \in 1 .. n, NEW j \in 1 .. n
      PROVE  BatchKey(commands[i]) = BatchKey(commands[j])
             <=> \E s \in Starts(commands) : {i, j} \subseteq RunFrom(commands, s)
  <2>1. ASSUME BatchKey(commands[i]) = BatchKey(commands[j])
        PROVE  \E s \in Starts(commands) : {i, j} \subseteq RunFrom(commands, s)
    <3>1. CASE i <= j
      <4>1. PICK s \in Starts(commands) : i \in RunFrom(commands, s)
        BY <1>4
      <4>2. j \in RunFrom(commands, s)
        BY <1>1, <2>1, <3>1, <4>1, OneKeyIsOneRun
      <4>. QED
        BY <4>1, <4>2
    <3>2. CASE j <= i
      <4>1. PICK s \in Starts(commands) : j \in RunFrom(commands, s)
        BY <1>4
      <4>2. i \in RunFrom(commands, s)
        BY <1>1, <2>1, <3>2, <4>1, OneKeyIsOneRun
      <4>. QED
        BY <4>1, <4>2
    <3>. QED
      BY <1>1, <3>1, <3>2
  <2>2. ASSUME NEW s \in Starts(commands), {i, j} \subseteq RunFrom(commands, s)
        PROVE  BatchKey(commands[i]) = BatchKey(commands[j])
    BY <1>1, <2>2, RunHasOneKey
  <2>. QED
    BY <2>1, <2>2
<1>7. \A i, j \in 1 .. n :
        (\E s \in Starts(commands) : {i, j} \subseteq RunFrom(commands, s))
        <=> \E b \in BatchesOf(commands) : {i, j} \subseteq CommandsOf(b)
  BY <1>2, <1>3
<1>. QED
  BY <1>1, <1>5, <1>6, <1>7 DEF PartCommands

(* What is extracted.  An object that is drawn shows what its components      *)
(* refer to, under versions that were published. *)
ObjectRecords == [id : Nat, mesh : LeaseRecords, material : LeaseRecords]

Shows(x) ==
  /\ x.id \in 1 .. Objects
  /\ x.mesh.version \in 1 .. versions[x.mesh.resource]
  /\ x.material.version \in 1 .. versions[x.material.resource]
  /\ components[x.id] = [mesh |-> x.mesh.resource, material |-> x.material.resource]

Increasing(drawn) == \A i, j \in DOMAIN drawn : i < j => drawn[i].id < drawn[j].id

LEMMA ItemsAreCommands ==
  ASSUME frame.objects \in Seq(ObjectRecords)
  PROVE  Items \in Seq(Commands)
<1> DEFINE n == Len(frame.objects)
<1>1. n \in Nat /\ Views * n \in Nat /\ \A k \in 1 .. n : frame.objects[k] \in ObjectRecords
  <2>1. Views \in Nat
    BY ExtractionAssumption
  <2>. QED
    BY <2>1
<1>2. ASSUME NEW i \in 1 .. Views * n
      PROVE  PrepareItem(i) \in Commands
  <2>1. n > 0
    <3>1. Views \in Nat
      BY ExtractionAssumption
    <3>2. n = 0 => Views * n = 0
      BY <3>1, <1>1
    <3>. QED
      BY <1>1, <1>2, <3>2
  <2>2. (i - 1) % n \in 0 .. n - 1 /\ (i - 1) \div n \in Int
    <3> HIDE DEF n
    <3>1. i - 1 \in Int
      BY <1>1
    <3>. QED
      BY <1>1, <2>1, <3>1
  <2> DEFINE k == ((i - 1) % n) + 1
             view == (i - 1) \div n + 1
  <2>3. k \in 1 .. n /\ view \in Int
    <3> DEFINE r == (i - 1) % n
               d == (i - 1) \div n
    <3>1. r \in 0 .. n - 1 /\ d \in Int /\ n \in Nat
      BY <1>1, <2>2
    <3> HIDE DEF n, r, d
    <3>2. r + 1 \in 1 .. n /\ d + 1 \in Int
      BY <3>1
    <3>. QED
      BY <3>2 DEF r, d
  <2>4. PrepareItem(i) = [view |-> view, object |-> frame.objects[k].id,
                          mesh |-> frame.objects[k].mesh, material |-> frame.objects[k].material]
    BY DEF PrepareItem
  <2> HIDE DEF k, view, n
  <2>5. frame.objects[k] \in ObjectRecords
    BY <1>1, <2>3
  <2>. QED
    BY <2>3, <2>4, <2>5 DEF Commands, ObjectRecords
<1>3. Items \in [1 .. Views * n -> Commands]
  <2>1. Items = [i \in 1 .. Views * n |-> PrepareItem(i)]
    BY DEF Items
  <2> HIDE DEF n
  <2>. QED
    BY <1>2, <2>1
<1> HIDE DEF n
<1>. QED
  BY <1>1, <1>3

LEMMA ChunksAreNumbered ==
  /\ ChunkCount \in Nat /\ ChunkSize \in Nat /\ ChunkSize > 0 /\ Objects \in Nat
  /\ \A c \in Nat : c * ChunkSize \in Nat
  /\ \A c \in Nat : LastObject(c) <= c * ChunkSize /\ LastObject(c) <= Objects /\ LastObject(c) \in Nat
  /\ \A c \in Nat : FirstObject(c + 1) = c * ChunkSize + 1
  /\ \A c \in Nat \ {0} : FirstObject(c) \in Nat \ {0}
<1>1. ChunkSize \in Nat /\ ChunkSize > 0 /\ Objects \in Nat
  BY ExtractionAssumption
<1>2. ChunkCount \in Nat
  <2>1. Objects \div ChunkSize \in Nat
    BY <1>1
  <2>. QED
    BY <2>1 DEF ChunkCount
<1>3. \A c \in Nat : c * ChunkSize \in Nat
  BY <1>1
<1>4. \A c \in Nat : LastObject(c) <= c * ChunkSize /\ LastObject(c) <= Objects /\ LastObject(c) \in Nat
  BY <1>1, <1>3 DEF LastObject
<1>5. \A c \in Nat : FirstObject(c + 1) = c * ChunkSize + 1
  BY <1>1 DEF FirstObject
<1>6. \A c \in Nat \ {0} : FirstObject(c) \in Nat \ {0}
  <2>1. ASSUME NEW c \in Nat \ {0} PROVE FirstObject(c) \in Nat \ {0}
    <3>1. c - 1 \in Nat
      OBVIOUS
    <3>2. (c - 1) * ChunkSize \in Nat
      BY <1>3, <3>1
    <3>. QED
      BY <3>2 DEF FirstObject
  <2>. QED
    BY <2>1
<1>. QED
  BY <1>1, <1>2, <1>3, <1>4, <1>5, <1>6

LEMMA MergedIs ==
  ASSUME \A c \in 1 .. ChunkCount : frame.chunks[c].objects \in Seq(ObjectRecords)
  PROVE  /\ Merged \in [0 .. ChunkCount -> Seq(ObjectRecords)]
         /\ Merged[0] = <<>>
         /\ \A c \in 1 .. ChunkCount : Merged[c] = Merged[c - 1] \o frame.chunks[c].objects
<1> DEFINE A == Seq(ObjectRecords)
           n == ChunkCount
           piece(c) == frame.chunks[c].objects
           step == [c \in 1 .. n |-> [q \in A |-> q \o piece(c)]]
           body(f) == [c \in 0 .. n |-> IF c = 0 THEN <<>> ELSE f[c - 1] \o piece(c)]
           F == CHOOSE f : f = body(f)
<1>1. Merged = F
  BY DEF Merged
<1>2. <<>> \in A /\ n \in Nat
  BY ChunksAreNumbered
<1>3. ASSUME NEW q \in A, NEW c \in 1 .. n
      PROVE  q \o piece(c) \in A
  BY <1>3
<1>4. step \in [1 .. n -> [A -> A]]
  <2> HIDE DEF A, piece
  <2>. QED
    BY <1>3
<1>5. \A c \in 1 .. n, q \in A : step[c][q] = q \o piece(c)
  <2> HIDE DEF A, piece
  <2>. QED
    OBVIOUS
<1> HIDE DEF A, step, piece, n
<1>6. PICK h \in [0 .. n -> A] : RunsTo(n, <<>>, step, h)
  BY <1>2, <1>4, RunExists
<1>7. h = body(h)
  <2>1. \A k \in 1 .. n : k # 0 /\ k \in 0 .. n /\ k - 1 \in 0 .. n /\ h[k - 1] \in A
    BY <1>2, <1>6
  <2>2. \A k \in 1 .. n : h[k] = h[k - 1] \o piece(k)
    BY <1>5, <1>6, <2>1 DEF RunsTo
  <2>3. h[0] = <<>> /\ \A k \in 0 .. n : k = 0 \/ k \in 1 .. n
    BY <1>2, <1>6 DEF RunsTo
  <2>. QED
    BY <1>6, <2>2, <2>3
<1>8. F = body(F)
  <2> HIDE DEF body
  <2>. QED
    BY <1>7
<1>9. F[0] = <<>> /\ \A k \in 1 .. n : F[k] = F[k - 1] \o piece(k)
  <2> HIDE DEF F
  <2>1. 0 \in 0 .. n /\ \A k \in 1 .. n : k # 0 /\ k \in 0 .. n
    BY <1>2
  <2>. QED
    BY <1>8, <2>1
<1>10. F = [k \in 0 .. n |-> F[k]]
  <2> HIDE DEF F
  <2>. QED
    BY <1>8
<1> DEFINE S == {k \in 0 .. n : F[k] \in A}
<1> HIDE DEF F
<1>11. 0 \in S
  BY <1>2, <1>9
<1>12. \A k \in 0 .. n - 1 : k \in S => k + 1 \in S
  <2>1. \A k \in 0 .. n - 1 : k + 1 \in 1 .. n /\ (k + 1) - 1 = k /\ k + 1 \in 0 .. n
    BY <1>2
  <2>2. ASSUME NEW k \in 0 .. n - 1, k \in S
        PROVE  k + 1 \in S
    <3>1. F[k] \in A /\ k + 1 \in 1 .. n /\ k + 1 \in 0 .. n
      BY <2>1, <2>2
    <3>2. F[k + 1] = F[k] \o piece(k + 1)
      BY <1>9, <2>1, Zenon
    <3>3. F[k + 1] \in A
      BY <1>3, <3>1, <3>2, Zenon
    <3>. QED
      BY <3>1, <3>3
  <2>. QED
    BY <2>2
<1>13. 0 .. n \subseteq S
  <2> HIDE DEF S
  <2>. QED
    BY <1>2, <1>11, <1>12, PrefixInduction
<1>14. F \in [0 .. n -> A]
  BY <1>10, <1>13
<1>. QED
  BY <1>1, <1>9, <1>14 DEF A, n, piece

(* What the chunks hold in their ranges is in order when it is merged. *)
InRange(drawn, low, high) ==
  /\ drawn \in Seq(ObjectRecords) /\ Increasing(drawn)
  /\ \A i \in DOMAIN drawn : Shows(drawn[i]) /\ low <= drawn[i].id /\ drawn[i].id <= high

LEMMA RangesJoin ==
  ASSUME NEW a, NEW b, NEW l \in Nat, NEW m \in Nat, NEW h \in Nat, l <= m + 1, m <= h,
         InRange(a, l, m), InRange(b, m + 1, h)
  PROVE  InRange(a \o b, l, h)
<1> DEFINE q == a \o b
<1>1. a \in Seq(ObjectRecords) /\ b \in Seq(ObjectRecords)
  BY DEF InRange
<1>2. /\ q \in Seq(ObjectRecords) /\ Len(q) = Len(a) + Len(b)
      /\ \A i \in 1 .. Len(a) + Len(b) : q[i] = IF i <= Len(a) THEN a[i] ELSE b[i - Len(a)]
  BY <1>1, ConcatProperties
<1>3. /\ Len(a) \in Nat /\ Len(b) \in Nat /\ DOMAIN a = 1 .. Len(a) /\ DOMAIN b = 1 .. Len(b)
      /\ DOMAIN q = 1 .. Len(a) + Len(b)
  BY <1>1, <1>2
<1>4. /\ \A i \in DOMAIN a : a[i].id \in Nat
      /\ \A i \in DOMAIN b : b[i].id \in Nat
  <2>1. /\ \A i \in DOMAIN a : a[i] \in ObjectRecords
        /\ \A i \in DOMAIN b : b[i] \in ObjectRecords
    BY <1>1
  <2>. QED
    BY <2>1 DEF ObjectRecords
<1> HIDE DEF q
<1>5. ASSUME NEW i \in DOMAIN q
      PROVE  \/ i \in DOMAIN a /\ q[i] = a[i] /\ i <= Len(a)
             \/ i - Len(a) \in DOMAIN b /\ q[i] = b[i - Len(a)] /\ i > Len(a)
  BY <1>2, <1>3
<1>6. \A i \in DOMAIN q : Shows(q[i]) /\ l <= q[i].id /\ q[i].id <= h
  BY <1>4, <1>5 DEF InRange
<1>7. ASSUME NEW i \in DOMAIN q, NEW j \in DOMAIN q, i < j
      PROVE  q[i].id < q[j].id
  <2>1. CASE i \in DOMAIN a /\ q[i] = a[i] /\ j \in DOMAIN a /\ q[j] = a[j]
    BY <1>7, <2>1 DEF InRange, Increasing
  <2>2. CASE i \in DOMAIN a /\ q[i] = a[i] /\ j - Len(a) \in DOMAIN b /\ q[j] = b[j - Len(a)]
    <3>1. a[i].id <= m /\ m + 1 <= b[j - Len(a)].id
      BY <2>2 DEF InRange
    <3>. QED
      BY <1>4, <2>2, <3>1
  <2>3. CASE /\ i - Len(a) \in DOMAIN b /\ q[i] = b[i - Len(a)]
             /\ j - Len(a) \in DOMAIN b /\ q[j] = b[j - Len(a)]
    <3>1. i - Len(a) < j - Len(a)
      BY <1>3, <1>7
    <3>. QED
      BY <2>3, <3>1 DEF InRange, Increasing
  <2>. QED
    BY <1>3, <1>5, <1>7, <2>1, <2>2, <2>3
<1>. QED
  BY <1>2, <1>6, <1>7 DEF InRange, Increasing, q

LEMMA MergedInRange ==
  ASSUME \A c \in 1 .. ChunkCount : InRange(frame.chunks[c].objects, FirstObject(c), LastObject(c))
  PROVE  InRange(Merged[ChunkCount], 1, ChunkCount * ChunkSize)
<1> DEFINE n == ChunkCount
           S == {k \in 0 .. n : InRange(Merged[k], 1, k * ChunkSize)}
<1>1. n \in Nat /\ ChunkSize \in Nat
  BY ChunksAreNumbered
<1>2. /\ Merged[0] = <<>>
      /\ \A c \in 1 .. n : Merged[c] = Merged[c - 1] \o frame.chunks[c].objects
  BY MergedIs DEF InRange
<1> HIDE DEF n
<1>3. 0 \in S
  <2>1. <<>> \in Seq(ObjectRecords) /\ DOMAIN <<>> = {} /\ 0 \in 0 .. n
    BY <1>1
  <2>2. InRange(<<>>, 1, 0 * ChunkSize)
    BY <2>1, Zenon DEF InRange, Increasing
  <2>. QED
    BY <1>2, <2>1, <2>2
<1>4. ASSUME NEW k \in 0 .. n - 1, k \in S
      PROVE  k + 1 \in S
  <2>1. k \in Nat /\ k + 1 \in 1 .. n /\ k + 1 \in 0 .. n /\ (k + 1) - 1 = k /\ k + 1 \in Nat
    BY <1>1
  <2> DEFINE piece == frame.chunks[k + 1].objects
             m == k * ChunkSize
             h == (k + 1) * ChunkSize
  <2>2. m \in Nat /\ h \in Nat /\ m <= h /\ FirstObject(k + 1) = m + 1 /\ LastObject(k + 1) <= h
        /\ LastObject(k + 1) \in Nat
    <3>1. h = m + ChunkSize
      BY <1>1, <2>1
    <3>. QED
      BY <1>1, <2>1, <3>1, ChunksAreNumbered
  <2>3. Merged[k + 1] = Merged[k] \o piece /\ InRange(Merged[k], 1, m)
    BY <1>2, <1>4, <2>1
  <2>4. InRange(piece, FirstObject(k + 1), LastObject(k + 1))
    BY <2>1 DEF n
  <2> HIDE DEF piece, m, h
  <2>5. InRange(piece, m + 1, h)
    <3>1. \A i \in DOMAIN piece : piece[i].id \in Nat
      <4>1. \A i \in DOMAIN piece : piece[i] \in ObjectRecords
        BY <2>4 DEF InRange
      <4>. QED
        BY <4>1 DEF ObjectRecords
    <3>2. \A i \in DOMAIN piece : piece[i].id <= LastObject(k + 1)
      BY <2>4 DEF InRange
    <3>3. \A i \in DOMAIN piece : piece[i].id <= h
      BY <2>2, <3>1, <3>2
    <3>. QED
      BY <2>2, <2>4, <3>3 DEF InRange
  <2>6. InRange(Merged[k + 1], 1, h)
    BY <2>2, <2>3, <2>5, RangesJoin
  <2>. QED
    BY <2>1, <2>6 DEF h
<1>5. \A k \in 0 .. n - 1 : k \in S => k + 1 \in S
  BY <1>4
<1> HIDE DEF S
<1>6. 0 .. n \subseteq S
  BY <1>1, <1>3, <1>5, PrefixInduction
<1>7. n \in S
  BY <1>1, <1>6
<1>. QED
  BY <1>7 DEF S, n

ChunkRecords ==
  [next : Nat, mesh : LeaseRecords \cup {NoLease}, half : BOOLEAN,
   objects : Seq(ObjectRecords), error : BOOLEAN]
References == Handles \cup {NoComponent}

DrawsTyped ==
  /\ versions \in [Handles -> Nat] /\ offered \in [Handles -> Nat]
  /\ \A h \in Handles : offered[h] <= versions[h]
  /\ components \in [1 .. Objects -> [mesh : References, material : References]]
  /\ prepared = [meshes |-> prepared.meshes, materials |-> prepared.materials, bound |-> prepared.bound]
  /\ \A p \in prepared.meshes \cup prepared.materials : p.lease \in LeaseRecords
  /\ frame = [stage |-> frame.stage, chunks |-> frame.chunks, objects |-> frame.objects,
              commands |-> frame.commands, batches |-> frame.batches]
  /\ frame.commands \in Seq(Commands)

(* A chunk is at an object of its own and holds those before; a mesh it      *)
(* leased is that of its object. *)
ChunkSound(c, chunk) ==
  /\ chunk \in ChunkRecords
  /\ FirstObject(c) <= chunk.next
  /\ InRange(chunk.objects, FirstObject(c), LastObject(c))
  /\ \A i \in DOMAIN chunk.objects : chunk.objects[i].id < chunk.next
  /\ chunk.half => \/ chunk.mesh = NoLease
                   \/ /\ chunk.mesh.resource = components[chunk.next].mesh
                      /\ chunk.mesh.version \in 1 .. versions[chunk.mesh.resource]

(* Chunks are there while they are extracted, objects from then on. *)
FrameSound ==
  /\ frame.stage = "EXTRACT" =>
        /\ frame.chunks \in [1 .. ChunkCount -> ChunkRecords]
        /\ \A c \in 1 .. ChunkCount : ChunkSound(c, frame.chunks[c])
  /\ frame.stage # "EXTRACT" => DOMAIN frame.chunks = {}
  /\ frame.stage = "IDLE" => frame.objects = <<>>
  /\ frame.objects \in Seq(ObjectRecords) /\ Increasing(frame.objects)
  /\ \A i \in DOMAIN frame.objects : Shows(frame.objects[i])
  /\ PartCommands(frame.commands, frame.batches)

DrawsInv == DrawsTyped /\ FrameSound

LEMMA EmptyParts ==
  /\ PartCommands(<<>>, {}) /\ <<>> \in Seq(Commands) /\ <<>> \in Seq(ObjectRecords)
  /\ Increasing(<<>>) /\ DOMAIN <<>> = {}
<1>1. <<>> \in Seq(Commands) /\ <<>> \in Seq(ObjectRecords) /\ DOMAIN <<>> = {}
  OBVIOUS
<1>2. UNION {CommandsOf(b) : b \in {}} = {}
  BY Zenon
<1>. QED
  BY <1>1, <1>2, Zenon DEF PartCommands, Increasing

LEMMA DrawsStart == InitDraw => DrawsInv
<1> SUFFICES ASSUME InitDraw PROVE DrawsInv
  OBVIOUS
<1>1. DrawsTyped
  BY EmptyParts DEF InitDraw, StoreInit, DrawsTyped, NoFrame, References
<1>2. FrameSound
  BY EmptyParts DEF InitDraw, FrameSound, NoFrame
<1>. QED
  BY <1>1, <1>2 DEF DrawsInv

(* What is published stays published. *)
VersionsGrow ==
  /\ versions' \in [Handles -> Nat] /\ \A h \in Handles : versions[h] <= versions'[h]

LEMMA ShowsLasts ==
  ASSUME DrawsTyped, VersionsGrow, UNCHANGED components
  PROVE  /\ \A x \in ObjectRecords : Shows(x) => Shows(x)'
         /\ \A l \in LeaseRecords : l.version \in 1 .. versions[l.resource]
                                    => l.version \in 1 .. versions'[l.resource]
<1>1. ASSUME NEW l \in LeaseRecords, l.version \in 1 .. versions[l.resource]
      PROVE  l.version \in 1 .. versions'[l.resource]
  <2>1. l.resource \in Handles /\ l.version \in Nat
    BY DEF LeaseRecords
  <2>2. versions[l.resource] \in Nat /\ versions'[l.resource] \in Nat
        /\ versions[l.resource] <= versions'[l.resource]
    BY <2>1 DEF DrawsTyped, VersionsGrow
  <2>. QED
    BY <1>1, <2>1, <2>2
<1>2. ASSUME NEW x \in ObjectRecords, Shows(x)
      PROVE  Shows(x)'
  <2>1. x.mesh \in LeaseRecords /\ x.material \in LeaseRecords
    BY DEF ObjectRecords
  <2>. QED
    BY <1>1, <1>2, <2>1 DEF Shows
<1>. QED
  BY <1>1, <1>2

LEMMA FrameLasts ==
  ASSUME DrawsTyped, FrameSound, VersionsGrow, UNCHANGED <<components, frame>>
  PROVE  FrameSound'
<1>1. /\ \A x \in ObjectRecords : Shows(x) => Shows(x)'
      /\ \A l \in LeaseRecords : l.version \in 1 .. versions[l.resource]
                                 => l.version \in 1 .. versions'[l.resource]
  BY ShowsLasts
<1>2. ASSUME NEW c, NEW chunk, ChunkSound(c, chunk)
      PROVE  ChunkSound(c, chunk)'
  <2>1. chunk \in ChunkRecords /\ InRange(chunk.objects, FirstObject(c), LastObject(c))
    BY <1>2 DEF ChunkSound
  <2>2. InRange(chunk.objects, FirstObject(c), LastObject(c))'
    <3>1. \A i \in DOMAIN chunk.objects : chunk.objects[i] \in ObjectRecords
      BY <2>1 DEF InRange
    <3>. QED
      BY <1>1, <2>1, <3>1 DEF InRange
  <2>3. chunk.half => \/ chunk.mesh = NoLease
                      \/ /\ chunk.mesh.resource = components'[chunk.next].mesh
                         /\ chunk.mesh.version \in 1 .. versions'[chunk.mesh.resource]
    <3>1. chunk.mesh \in LeaseRecords \cup {NoLease}
      BY <2>1 DEF ChunkRecords
    <3>2. components' = components
      OBVIOUS
    <3>. QED
      BY <1>1, <1>2, <3>1, <3>2 DEF ChunkSound
  <2>. QED
    BY <1>2, <2>2, <2>3 DEF ChunkSound
<1>3. frame' = frame
  OBVIOUS
<1>4. \A c \in 1 .. ChunkCount : ChunkSound(c, frame.chunks[c]) => ChunkSound(c, frame.chunks[c])'
  <2>1. ASSUME NEW c \in 1 .. ChunkCount, ChunkSound(c, frame.chunks[c])
        PROVE  ChunkSound(c, frame.chunks[c])'
    <3>1. PICK chunk : chunk = frame.chunks[c]
      OBVIOUS
    <3>2. ChunkSound(c, chunk)'
      BY <1>2, <2>1, <3>1
    <3>. QED
      BY <1>3, <3>1, <3>2
  <2>. QED
    BY <2>1
<1>5. \A i \in DOMAIN frame.objects : Shows(frame.objects[i])'
  <2>1. ASSUME NEW i \in DOMAIN frame.objects PROVE Shows(frame.objects[i])'
    <3>1. PICK x : x = frame.objects[i]
      OBVIOUS
    <3>2. x \in ObjectRecords /\ Shows(x)
      BY <3>1 DEF FrameSound
    <3>3. Shows(x)'
      BY <1>1, <3>2
    <3>. QED
      BY <1>3, <3>1, <3>3
  <2>. QED
    BY <2>1
<1>. QED
  BY <1>3, <1>4, <1>5 DEF FrameSound

(* The store of leases, and objects prepared for them, spare the frame.     *)
LEMMA StoreKeepsDraws ==
  ASSUME DrawsInv, StoreNext, UNCHANGED drawVars
  PROVE  DrawsInv'
<1>1. DrawsTyped /\ FrameSound /\ UNCHANGED <<components, frame, prepared>>
  BY DEF DrawsInv, drawVars
<1>2. /\ versions \in [Handles -> Nat] /\ offered \in [Handles -> Nat]
      /\ \A h \in Handles : offered[h] <= versions[h]
  BY <1>1 DEF DrawsTyped
<1>3. /\ versions' \in [Handles -> Nat] /\ offered' \in [Handles -> Nat]
      /\ \A h \in Handles : offered'[h] <= versions'[h] /\ versions[h] <= versions'[h]
  <2>1. PICK h \in Handles : Issue(h) \/ Offer(h) \/ Withdraw(h) \/ Retire(h)
    BY DEF StoreNext
  <2>2. CASE Issue(h) \/ Retire(h)
    BY <1>2, <2>2 DEF Issue, Retire
  <2>3. CASE Offer(h)
    BY <1>2, <2>3 DEF Offer
  <2>4. CASE Withdraw(h)
    BY <1>2, <2>4 DEF Withdraw
  <2>. QED
    BY <2>1, <2>2, <2>3, <2>4
<1>4. FrameSound'
  BY <1>1, <1>3, FrameLasts DEF VersionsGrow
<1>. QED
  BY <1>1, <1>3, <1>4 DEF DrawsInv, DrawsTyped

LEMMA LeaseIs ==
  ASSUME DrawsTyped, NEW h \in Handles, Lease(h) # NoLease
  PROVE  /\ Lease(h) \in LeaseRecords /\ Lease(h).resource = h
         /\ Lease(h).version \in 1 .. versions[h]
<1>1. offered[h] # 0 /\ offered[h] \in Nat /\ versions[h] \in Nat /\ offered[h] <= versions[h]
  BY DEF Lease, DrawsTyped
<1>2. Lease(h) = [resource |-> h, version |-> offered[h]]
  BY <1>1 DEF Lease
<1>. QED
  BY <1>1, <1>2 DEF LeaseRecords

LEMMA PreparingKeepsDraws ==
  ASSUME DrawsInv, NEW handle \in Handles,
         \/ PrepareMesh(handle) \/ PrepareBound(handle)
         \/ \E pipeline \in Pipelines : PrepareMaterial(handle, pipeline)
  PROVE  DrawsInv'
<1>1. DrawsTyped /\ FrameSound
  BY DEF DrawsInv
<1>2. UNCHANGED <<storeVars, components, frame>>
  BY DEF PrepareMesh, PrepareBound, PrepareMaterial
<1>3. VersionsGrow
  BY <1>1, <1>2 DEF VersionsGrow, storeVars, DrawsTyped
<1>4. FrameSound'
  BY <1>1, <1>2, <1>3, FrameLasts
<1>5. /\ prepared' = [meshes |-> prepared'.meshes, materials |-> prepared'.materials,
                      bound |-> prepared'.bound]
      /\ \A p \in prepared'.meshes \cup prepared'.materials : p.lease \in LeaseRecords
  <2>1. CASE PrepareMesh(handle)
    <3>1. Lease(handle) \in LeaseRecords
      BY <1>1, <2>1, LeaseIs DEF PrepareMesh
    <3> DEFINE new == [lease |-> Lease(handle)]
    <3>2. prepared' = [prepared EXCEPT !.meshes = @ \cup {new}]
      BY <2>1 DEF PrepareMesh
    <3>3. new.lease = Lease(handle)
      OBVIOUS
    <3> HIDE DEF new
    <3>. QED
      BY <1>1, <3>1, <3>2, <3>3 DEF DrawsTyped
  <2>2. CASE PrepareBound(handle)
    <3>1. prepared' = [prepared EXCEPT !.bound =
                          Append(@, [lease |-> Lease(handle), identity |-> Identity[handle]])]
      BY <2>2 DEF PrepareBound
    <3>. QED
      BY <1>1, <3>1 DEF DrawsTyped
  <2>3. ASSUME NEW pipeline \in Pipelines, PrepareMaterial(handle, pipeline)
        PROVE  /\ prepared' = [meshes |-> prepared'.meshes, materials |-> prepared'.materials,
                               bound |-> prepared'.bound]
               /\ \A p \in prepared'.meshes \cup prepared'.materials : p.lease \in LeaseRecords
    <3>1. Lease(handle) \in LeaseRecords
      BY <1>1, <2>3, LeaseIs DEF PrepareMaterial
    <3> DEFINE new == [lease |-> Lease(handle), pipeline |-> pipeline,
                       sets |-> [identity \in Binds |-> NewestBound(identity)]]
    <3>2. prepared' = [prepared EXCEPT !.materials = @ \cup {new}]
      BY <2>3 DEF PrepareMaterial
    <3>3. new.lease = Lease(handle)
      OBVIOUS
    <3> HIDE DEF new
    <3>. QED
      BY <1>1, <3>1, <3>2, <3>3 DEF DrawsTyped
  <2>. QED
    BY <2>1, <2>2, <2>3
<1>6. DrawsTyped'
  BY <1>1, <1>2, <1>5 DEF DrawsTyped, storeVars
<1>. QED
  BY <1>4, <1>6 DEF DrawsInv

LEMMA AssignKeepsDraws ==
  ASSUME DrawsInv, NEW object \in 1 .. Objects, NEW mesh \in Handles, NEW material \in Handles,
         Assign(object, mesh, material)
  PROVE  DrawsInv'
<1>1. /\ DrawsTyped /\ FrameSound /\ frame.stage = "IDLE"
      /\ UNCHANGED <<status, versions, offered, frame, prepared>>
      /\ components' = [components EXCEPT ![object] = [mesh |-> mesh, material |-> material]]
  BY DEF DrawsInv, Assign, storeVars
<1>2. DrawsTyped'
  <2>1. components' \in [1 .. Objects -> [mesh : References, material : References]]
    BY <1>1 DEF DrawsTyped, References
  <2>. QED
    BY <1>1, <2>1 DEF DrawsTyped
<1>3. FrameSound'
  <2>1. DOMAIN frame.objects = {}
    BY <1>1, EmptyParts DEF FrameSound
  <2>. QED
    BY <1>1, <2>1 DEF FrameSound
<1>. QED
  BY <1>2, <1>3 DEF DrawsInv

LEMMA ScheduleKeepsDraws ==
  ASSUME DrawsInv, ScheduleRenderWorldExtraction
  PROVE  DrawsInv'
<1>1. /\ DrawsTyped /\ UNCHANGED <<status, versions, offered, components, prepared>>
      /\ frame' = [NoFrame EXCEPT !.stage = "EXTRACT", !.chunks = [c \in 1 .. ChunkCount |-> Chunk(c)]]
  BY DEF DrawsInv, ScheduleRenderWorldExtraction, storeVars
<1>2. frame' = [stage |-> "EXTRACT", chunks |-> [c \in 1 .. ChunkCount |-> Chunk(c)],
                objects |-> <<>>, commands |-> <<>>, batches |-> {}]
  BY <1>1 DEF NoFrame
<1>3. DrawsTyped'
  <2> DEFINE all == [c \in 1 .. ChunkCount |-> Chunk(c)]
  <2>1. frame' = [stage |-> "EXTRACT", chunks |-> all, objects |-> <<>>, commands |-> <<>>, batches |-> {}]
    BY <1>2
  <2> HIDE DEF all
  <2>2. frame' = [stage |-> frame'.stage, chunks |-> frame'.chunks, objects |-> frame'.objects,
                  commands |-> frame'.commands, batches |-> frame'.batches]
    BY <2>1
  <2>3. frame'.commands \in Seq(Commands)
    BY <2>1, EmptyParts
  <2>. QED
    BY <1>1, <2>2, <2>3 DEF DrawsTyped
<1>4. ASSUME NEW c \in 1 .. ChunkCount
      PROVE  Chunk(c) \in ChunkRecords /\ ChunkSound(c, Chunk(c))'
  <2>1. c \in Nat \ {0} /\ FirstObject(c) \in Nat
    BY ChunksAreNumbered
  <2>2. /\ Chunk(c) \in ChunkRecords /\ Chunk(c).next = FirstObject(c) /\ Chunk(c).half = FALSE
        /\ Chunk(c).objects = <<>>
    BY <2>1, EmptyParts DEF Chunk, ChunkRecords
  <2>3. InRange(<<>>, FirstObject(c), LastObject(c))'
    BY EmptyParts, Zenon DEF InRange
  <2>. QED
    BY <2>1, <2>2, <2>3, EmptyParts DEF ChunkSound
<1>5. FrameSound'
  <2>1. frame'.chunks \in [1 .. ChunkCount -> ChunkRecords]
    BY <1>2, <1>4
  <2>2. ASSUME NEW c \in 1 .. ChunkCount PROVE ChunkSound(c, frame.chunks[c])'
    <3>1. frame'.chunks[c] = Chunk(c)
      BY <1>2
    <3>2. PICK chunk : chunk = Chunk(c)
      OBVIOUS
    <3>3. ChunkSound(c, chunk)'
      BY <1>4, <3>2
    <3>. QED
      BY <3>1, <3>2, <3>3
  <2>. QED
    BY <1>2, <2>1, <2>2, EmptyParts DEF FrameSound
<1>. QED
  BY <1>3, <1>5 DEF DrawsInv

(* A chunk that became another sound one. *)
LEMMA ChunkBecomes ==
  ASSUME DrawsInv, NEW c \in 1 .. ChunkCount, NEW chunk,
         frame.stage = "EXTRACT", Becomes(c, chunk), UNCHANGED <<storeVars, components, prepared>>,
         ChunkSound(c, chunk)
  PROVE  DrawsInv'
<1>1. /\ DrawsTyped /\ FrameSound /\ UNCHANGED <<status, versions, offered, components, prepared>>
      /\ frame' = [frame EXCEPT !.chunks[c] = chunk]
      /\ frame.chunks \in [1 .. ChunkCount -> ChunkRecords]
      /\ \A d \in 1 .. ChunkCount : ChunkSound(d, frame.chunks[d])
  BY DEF DrawsInv, FrameSound, Becomes, storeVars
<1>2. frame' = [stage |-> frame.stage, chunks |-> [frame.chunks EXCEPT ![c] = chunk],
                objects |-> frame.objects, commands |-> frame.commands, batches |-> frame.batches]
  BY <1>1 DEF DrawsTyped
<1>3. DrawsTyped'
  BY <1>1, <1>2 DEF DrawsTyped
<1>4. chunk \in ChunkRecords
  BY DEF ChunkSound
<1>5. ASSUME NEW d \in 1 .. ChunkCount PROVE ChunkSound(d, frame.chunks[d])'
  <2>1. PICK e : e = frame'.chunks[d]
    OBVIOUS
  <2>2. ChunkSound(d, e)
    BY <1>1, <1>2, <2>1
  <2>3. ChunkSound(d, e)'
    BY <1>1, <2>2 DEF ChunkSound, InRange, Shows
  <2>. QED
    BY <2>1, <2>3
<1>6. FrameSound'
  <2>1. frame'.chunks \in [1 .. ChunkCount -> ChunkRecords]
    BY <1>1, <1>2, <1>4
  <2>2. \A i \in DOMAIN frame.objects : Shows(frame.objects[i])'
    BY <1>1, <1>2 DEF FrameSound, Shows
  <2>3. frame'.stage = "EXTRACT" /\ frame'.objects = frame.objects
        /\ frame'.commands = frame.commands /\ frame'.batches = frame.batches
    BY <1>2
  <2>. QED
    BY <1>1, <1>5, <2>1, <2>2, <2>3 DEF FrameSound
<1>. QED
  BY <1>3, <1>6 DEF DrawsInv

LEMMA AcquireMeshKeepsDraws ==
  ASSUME DrawsInv, NEW c \in 1 .. ChunkCount, AcquireMesh(c)
  PROVE  DrawsInv'
<1> DEFINE chunk == frame.chunks[c]
           mesh == components[chunk.next].mesh
<1>1. /\ InChunk(c) /\ ~chunk.half /\ UNCHANGED <<storeVars, components, prepared>>
      /\ Becomes(c, IF Stale(mesh) THEN [chunk EXCEPT !.error = TRUE]
                    ELSE [chunk EXCEPT !.half = TRUE, !.mesh = LeaseOf(mesh)])
  BY DEF AcquireMesh
<1>2. DrawsTyped /\ FrameSound
  BY DEF DrawsInv
<1>3. frame.stage = "EXTRACT" /\ ChunkSound(c, chunk)
  BY <1>1, <1>2 DEF InChunk, FrameSound
<1>4. chunk \in ChunkRecords /\ chunk.next <= LastObject(c)
  <2>1. chunk \in ChunkRecords /\ chunk.next \in Nat
    BY <1>3 DEF ChunkSound, ChunkRecords
  <2>2. LastObject(c) \in Nat
    BY ChunksAreNumbered
  <2>3. ~(chunk.next > LastObject(c))
    BY <1>1 DEF InChunk, ChunkEnded
  <2>. QED
    BY <2>1, <2>2, <2>3
<1>5. chunk.next \in 1 .. Objects
  <2>1. c \in Nat \ {0} /\ c \in Nat
    BY ChunksAreNumbered
  <2>2. FirstObject(c) \in Nat \ {0} /\ LastObject(c) <= Objects /\ LastObject(c) \in Nat /\ Objects \in Nat
    BY <2>1, ChunksAreNumbered
  <2>3. chunk.next \in Nat /\ FirstObject(c) <= chunk.next
    BY <1>3 DEF ChunkSound, ChunkRecords
  <2>. QED
    BY <1>4, <2>2, <2>3
<1>6. mesh \in References
  BY <1>2, <1>5 DEF DrawsTyped
<1>7. /\ LeaseOf(mesh) \in LeaseRecords \cup {NoLease}
      /\ \/ LeaseOf(mesh) = NoLease
         \/ LeaseOf(mesh).resource = mesh /\ LeaseOf(mesh).version \in 1 .. versions[LeaseOf(mesh).resource]
  <2>1. CASE LeaseOf(mesh) = NoLease
    BY <2>1
  <2>2. CASE LeaseOf(mesh) # NoLease
    <3>1. mesh \in Handles /\ LeaseOf(mesh) = Lease(mesh)
      BY <1>6, <2>2 DEF LeaseOf, References
    <3>. QED
      BY <1>2, <2>2, <3>1, LeaseIs
  <2>. QED
    BY <2>1, <2>2
<1> HIDE DEF chunk, mesh
<1>8. CASE Stale(mesh)
  <2> DEFINE next2 == [chunk EXCEPT !.error = TRUE]
  <2>1. Becomes(c, next2)
    BY <1>1, <1>8
  <2>2. /\ next2 \in ChunkRecords /\ next2.next = chunk.next /\ next2.objects = chunk.objects
        /\ next2.half = chunk.half
    BY <1>4 DEF ChunkRecords
  <2> HIDE DEF next2
  <2>3. ChunkSound(c, next2)
    BY <1>1, <1>3, <2>2 DEF ChunkSound
  <2>. QED
    BY <1>1, <1>3, <2>1, <2>3, ChunkBecomes
<1>9. CASE ~Stale(mesh)
  <2> DEFINE next2 == [chunk EXCEPT !.half = TRUE, !.mesh = LeaseOf(mesh)]
  <2>1. Becomes(c, next2)
    BY <1>1, <1>9
  <2>2. /\ next2 \in ChunkRecords /\ next2.next = chunk.next /\ next2.objects = chunk.objects
        /\ next2.mesh = LeaseOf(mesh)
    BY <1>4, <1>7 DEF ChunkRecords
  <2>3. mesh = components[chunk.next].mesh
    BY DEF mesh, chunk
  <2> HIDE DEF next2
  <2>4. ChunkSound(c, next2)
    BY <1>3, <1>7, <2>2, <2>3 DEF ChunkSound
  <2>. QED
    BY <1>1, <1>3, <2>1, <2>4, ChunkBecomes
<1>. QED
  BY <1>8, <1>9

LEMMA AcquireMaterialKeepsDraws ==
  ASSUME DrawsInv, NEW c \in 1 .. ChunkCount, AcquireMaterial(c)
  PROVE  DrawsInv'
<1> DEFINE chunk == frame.chunks[c]
           handle == components[chunk.next].material
           material == LeaseOf(handle)
           object == [id |-> chunk.next, mesh |-> chunk.mesh, material |-> material]
           complete == chunk.mesh # NoLease /\ material # NoLease
           drawn == IF complete THEN Append(chunk.objects, object) ELSE chunk.objects
           low == FirstObject(c)
           high == LastObject(c)
<1>1. /\ InChunk(c) /\ chunk.half /\ UNCHANGED <<storeVars, components, prepared>>
      /\ Becomes(c, IF Stale(handle) THEN [chunk EXCEPT !.error = TRUE]
                    ELSE [chunk EXCEPT !.half = FALSE, !.next = chunk.next + 1, !.mesh = NoLease,
                                       !.objects = drawn])
  BY DEF AcquireMaterial
<1>2. DrawsTyped /\ FrameSound
  BY DEF DrawsInv
<1>3. frame.stage = "EXTRACT" /\ ChunkSound(c, chunk)
  BY <1>1, <1>2 DEF InChunk, FrameSound
<1>4. chunk \in ChunkRecords /\ chunk.next \in 1 .. Objects /\ low \in Nat /\ high \in Nat
      /\ low <= chunk.next /\ chunk.next <= high
  <2>1. chunk \in ChunkRecords /\ chunk.next \in Nat /\ low <= chunk.next
    BY <1>3 DEF ChunkSound, ChunkRecords
  <2>2. c \in Nat \ {0} /\ c \in Nat
    BY ChunksAreNumbered
  <2>3. low \in Nat \ {0} /\ high <= Objects /\ high \in Nat /\ Objects \in Nat
    BY <2>2, ChunksAreNumbered
  <2>4. ~(chunk.next > high)
    BY <1>1 DEF InChunk, ChunkEnded
  <2> HIDE DEF low, high
  <2>. QED
    BY <2>1, <2>3, <2>4
<1>5. handle \in References
  BY <1>2, <1>4 DEF DrawsTyped
<1>6. material # NoLease => /\ material \in LeaseRecords /\ material.resource = handle
                            /\ material.version \in 1 .. versions[material.resource]
  <2>1. ASSUME material # NoLease
        PROVE  /\ material \in LeaseRecords /\ material.resource = handle
               /\ material.version \in 1 .. versions[material.resource]
    <3>1. handle \in Handles /\ material = Lease(handle)
      BY <1>5, <2>1 DEF LeaseOf, References
    <3>. QED
      BY <1>2, <2>1, <3>1, LeaseIs
  <2>. QED
    BY <2>1
<1>7. complete => object \in ObjectRecords /\ Shows(object) /\ object.id = chunk.next
  <2>1. SUFFICES ASSUME complete PROVE object \in ObjectRecords /\ Shows(object) /\ object.id = chunk.next
    OBVIOUS
  <2>2. /\ chunk.mesh \in LeaseRecords
        /\ chunk.mesh.resource = components[chunk.next].mesh
        /\ chunk.mesh.version \in 1 .. versions[chunk.mesh.resource]
    BY <1>1, <1>3, <1>4, <2>1 DEF ChunkSound, ChunkRecords
  <2>3. components[chunk.next] \in [mesh : References, material : References]
    BY <1>2, <1>4 DEF DrawsTyped
  <2>4. object \in ObjectRecords
    <3>1. chunk.next \in Nat /\ material \in LeaseRecords
      BY <1>4, <1>6, <2>1
    <3> HIDE DEF material, chunk
    <3>. QED
      BY <2>2, <3>1 DEF ObjectRecords
  <2>5. material \in LeaseRecords /\ material.resource = handle
        /\ material.version \in 1 .. versions[material.resource]
    BY <1>6, <2>1
  <2>6. handle = components[chunk.next].material
    OBVIOUS
  <2> HIDE DEF material, chunk, handle
  <2>7. components[chunk.next] = [mesh |-> chunk.mesh.resource, material |-> material.resource]
    BY <2>2, <2>3, <2>5, <2>6
  <2>. QED
    BY <1>4, <2>2, <2>4, <2>5, <2>7 DEF Shows
<1> DEFINE ids(q) == \A i \in DOMAIN q : q[i].id < chunk.next + 1
<1>8. InRange(drawn, low, high) /\ ids(drawn)
  <2> DEFINE old == chunk.objects
  <2>1. /\ old \in Seq(ObjectRecords) /\ Increasing(old)
        /\ \A i \in DOMAIN old : Shows(old[i]) /\ low <= old[i].id /\ old[i].id <= high
        /\ \A i \in DOMAIN old : old[i].id < chunk.next
    BY <1>3 DEF ChunkSound, InRange
  <2>2. \A i \in DOMAIN old : old[i].id \in Nat
    <3>1. \A i \in DOMAIN old : old[i] \in ObjectRecords
      BY <2>1
    <3>. QED
      BY <3>1 DEF ObjectRecords
  <2>3. chunk.next \in Nat
    BY <1>4 DEF ChunkRecords
  <2>4. CASE ~complete
    <3>1. drawn = old
      BY <2>4
    <3> HIDE DEF drawn, old, chunk, complete, low, high
    <3>. QED
      BY <2>1, <2>2, <2>3, <3>1 DEF InRange
  <2>5. CASE complete
    <3>1. object \in ObjectRecords /\ Shows(object) /\ object.id = chunk.next
      BY <1>7, <2>5
    <3>2. drawn = Append(old, object)
      BY <2>5
    <3> HIDE DEF drawn, old, chunk, complete, low, high, object
    <3>3. /\ drawn \in Seq(ObjectRecords) /\ Len(drawn) = Len(old) + 1
          /\ \A i \in 1 .. Len(old) : drawn[i] = old[i]
          /\ drawn[Len(old) + 1] = object
      BY <2>1, <3>1, <3>2, AppendProperties
    <3>4. DOMAIN drawn = 1 .. Len(old) + 1 /\ DOMAIN old = 1 .. Len(old) /\ Len(old) \in Nat
      BY <2>1, <3>3
    <3>5. ASSUME NEW i \in DOMAIN drawn
          PROVE  \/ i \in DOMAIN old /\ drawn[i] = old[i] /\ i <= Len(old)
                 \/ i = Len(old) + 1 /\ drawn[i] = object
      BY <3>3, <3>4
    <3>6. Increasing(drawn)
      <4>1. ASSUME NEW i \in DOMAIN drawn, NEW j \in DOMAIN drawn, i < j
            PROVE  drawn[i].id < drawn[j].id
        <5>1. i \in DOMAIN old /\ drawn[i] = old[i]
          BY <3>4, <3>5, <4>1
        <5>2. CASE j \in DOMAIN old /\ drawn[j] = old[j]
          BY <2>1, <4>1, <5>1, <5>2 DEF Increasing
        <5>3. CASE drawn[j] = object
          BY <2>1, <3>1, <5>1, <5>3
        <5>. QED
          BY <3>5, <5>2, <5>3
      <4>. QED
        BY <4>1 DEF Increasing
    <3>7. \A i \in DOMAIN drawn : Shows(drawn[i]) /\ low <= drawn[i].id /\ drawn[i].id <= high
      BY <1>4, <2>1, <3>1, <3>5
    <3>8. ids(drawn)
      BY <2>1, <2>2, <2>3, <3>1, <3>5
    <3>. QED
      BY <3>3, <3>6, <3>7, <3>8 DEF InRange
  <2>. QED
    BY <2>4, <2>5
<1>9. CASE Stale(handle)
  <2> DEFINE next2 == [chunk EXCEPT !.error = TRUE]
  <2>1. Becomes(c, next2)
    BY <1>1, <1>9
  <2>2. /\ next2 \in ChunkRecords /\ next2.next = chunk.next /\ next2.objects = chunk.objects
        /\ next2.half = chunk.half /\ next2.mesh = chunk.mesh
    BY <1>4 DEF ChunkRecords
  <2> HIDE DEF next2, chunk
  <2>3. ChunkSound(c, next2)
    BY <1>3, <2>2 DEF ChunkSound
  <2>. QED
    BY <1>1, <1>3, <2>1, <2>3, ChunkBecomes
<1>10. CASE ~Stale(handle)
  <2> DEFINE next2 == [chunk EXCEPT !.half = FALSE, !.next = chunk.next + 1, !.mesh = NoLease,
                                    !.objects = drawn]
  <2>1. Becomes(c, next2)
    BY <1>1, <1>10
  <2>2. drawn \in Seq(ObjectRecords)
    BY <1>8 DEF InRange
  <2> HIDE DEF drawn
  <2>3. /\ next2 \in ChunkRecords /\ next2.next = chunk.next + 1 /\ next2.objects = drawn
        /\ next2.half = FALSE
    <3>1. chunk.next + 1 \in Nat /\ NoLease \in LeaseRecords \cup {NoLease}
      BY <1>4
    <3> HIDE DEF chunk
    <3>. QED
      BY <1>4, <2>2, <3>1 DEF ChunkRecords
  <2> HIDE DEF next2, chunk, low, high
  <2>4. low <= chunk.next + 1
    BY <1>4
  <2>5. ChunkSound(c, next2)
    BY <1>8, <2>3, <2>4 DEF ChunkSound, low, high
  <2>. QED
    BY <1>1, <1>3, <2>1, <2>5, ChunkBecomes
<1>. QED
  BY <1>9, <1>10

LEMMA JoinKeepsDraws ==
  ASSUME DrawsInv, Join
  PROVE  DrawsInv'
<1>1. /\ DrawsTyped /\ FrameSound /\ frame.stage = "EXTRACT" /\ MayJoin
      /\ UNCHANGED <<status, versions, offered, components, prepared>>
      /\ \/ frame' = [NoFrame EXCEPT !.chunks = StillRunning]
         \/ frame' = [NoFrame EXCEPT !.stage = "WORLD", !.objects = Merged[ChunkCount],
                                     !.chunks = StillRunning]
  BY DEF DrawsInv, Join, storeVars
<1>2. DOMAIN StillRunning = {}
  BY <1>1 DEF StillRunning, MayJoin
<1>3. InRange(Merged[ChunkCount], 1, ChunkCount * ChunkSize)
  <2>1. \A c \in 1 .. ChunkCount : InRange(frame.chunks[c].objects, FirstObject(c), LastObject(c))
    BY <1>1 DEF FrameSound, ChunkSound
  <2>. QED
    BY <2>1, MergedInRange
<1>4. \/ frame' = [stage |-> "IDLE", chunks |-> StillRunning, objects |-> <<>>,
                   commands |-> <<>>, batches |-> {}]
      \/ frame' = [stage |-> "WORLD", chunks |-> StillRunning, objects |-> Merged[ChunkCount],
                   commands |-> <<>>, batches |-> {}]
  BY <1>1 DEF NoFrame
<1>5. /\ frame'.stage \in {"IDLE", "WORLD"} /\ frame'.chunks = StillRunning
      /\ frame'.commands = <<>> /\ frame'.batches = {}
      /\ \/ frame'.stage = "IDLE" /\ frame'.objects = <<>>
         \/ frame'.stage = "WORLD" /\ frame'.objects = Merged[ChunkCount]
      /\ frame' = [stage |-> frame'.stage, chunks |-> frame'.chunks, objects |-> frame'.objects,
                   commands |-> frame'.commands, batches |-> frame'.batches]
  BY <1>4
<1>6. DrawsTyped'
  BY <1>1, <1>5, EmptyParts DEF DrawsTyped
<1>7. /\ frame'.objects \in Seq(ObjectRecords) /\ Increasing(frame'.objects)
      /\ \A i \in DOMAIN frame'.objects : Shows(frame'.objects[i])
  BY <1>3, <1>5, EmptyParts DEF InRange
<1>8. \A i \in DOMAIN frame'.objects : Shows(frame.objects[i])'
  BY <1>1, <1>7 DEF Shows
<1>9. FrameSound'
  BY <1>2, <1>5, <1>7, <1>8, EmptyParts DEF FrameSound, Increasing
<1>. QED
  BY <1>6, <1>9 DEF DrawsInv

LEMMA PrepareKeepsDraws ==
  ASSUME DrawsInv, Prepare
  PROVE  DrawsInv'
<1> DEFINE commands == SortCommands(Items)
<1>1. /\ DrawsTyped /\ FrameSound /\ frame.stage = "WORLD"
      /\ UNCHANGED <<status, versions, offered, components, prepared>>
      /\ frame' = [frame EXCEPT !.stage = "PLAN", !.commands = commands,
                                !.batches = BatchesOf(commands)]
  BY DEF DrawsInv, Prepare, storeVars
<1>2. Items \in Seq(Commands)
  BY <1>1, ItemsAreCommands DEF FrameSound
<1>3. commands \in Seq(Commands) /\ InOrder(commands)
  BY <1>2, SortCommandsSorts
<1>4. PartCommands(commands, BatchesOf(commands))
  BY <1>3, BatchesPart
<1> HIDE DEF commands
<1>5. frame' = [stage |-> "PLAN", chunks |-> frame.chunks, objects |-> frame.objects,
                commands |-> commands, batches |-> BatchesOf(commands)]
  BY <1>1 DEF DrawsTyped
<1>6. /\ frame'.stage = "PLAN" /\ frame'.chunks = frame.chunks /\ frame'.objects = frame.objects
      /\ frame'.commands = commands /\ frame'.batches = BatchesOf(commands)
      /\ frame' = [stage |-> frame'.stage, chunks |-> frame'.chunks, objects |-> frame'.objects,
                   commands |-> frame'.commands, batches |-> frame'.batches]
  BY <1>5
<1>7. DrawsTyped'
  BY <1>1, <1>3, <1>6 DEF DrawsTyped
<1>8. \A i \in DOMAIN frame'.objects : Shows(frame.objects[i])'
  BY <1>1, <1>6 DEF Shows, FrameSound
<1>9. PartCommands(frame'.commands, frame'.batches)
  BY <1>4, <1>6
<1>10. FrameSound'
  BY <1>1, <1>6, <1>8, <1>9 DEF FrameSound, PartCommands, Increasing
<1>. QED
  BY <1>7, <1>10 DEF DrawsInv

LEMMA RenderKeepsDraws ==
  ASSUME DrawsInv, Render
  PROVE  DrawsInv'
<1>1. /\ DrawsTyped /\ FrameSound /\ frame.stage = "PLAN"
      /\ UNCHANGED <<status, versions, offered, components, prepared>>
      /\ frame' = [NoFrame EXCEPT !.chunks = frame.chunks]
  BY DEF DrawsInv, Render, storeVars
<1>2. frame' = [stage |-> "IDLE", chunks |-> frame.chunks, objects |-> <<>>,
                commands |-> <<>>, batches |-> {}]
  BY <1>1 DEF NoFrame
<1>3. /\ frame'.stage = "IDLE" /\ frame'.chunks = frame.chunks /\ frame'.objects = <<>>
      /\ frame'.commands = <<>> /\ frame'.batches = {}
      /\ frame' = [stage |-> frame'.stage, chunks |-> frame'.chunks, objects |-> frame'.objects,
                   commands |-> frame'.commands, batches |-> frame'.batches]
  BY <1>2
<1>4. DrawsTyped'
  BY <1>1, <1>3, EmptyParts DEF DrawsTyped
<1>5. FrameSound'
  BY <1>1, <1>3, EmptyParts DEF FrameSound
<1>. QED
  BY <1>4, <1>5 DEF DrawsInv

LEMMA DrawsStep ==
  DrawsInv /\ [ExtractionNext]_<<storeVars, drawVars>> => DrawsInv'
<1> SUFFICES ASSUME DrawsInv, [ExtractionNext]_<<storeVars, drawVars>> PROVE DrawsInv'
  OBVIOUS
<1>1. CASE UNCHANGED <<storeVars, drawVars>>
  <2>1. UNCHANGED <<status, versions, offered, components, frame, prepared>>
    BY <1>1 DEF storeVars, drawVars
  <2>2. VersionsGrow
    BY <2>1 DEF DrawsInv, DrawsTyped, VersionsGrow
  <2>3. FrameSound'
    BY <2>1, <2>2, FrameLasts DEF DrawsInv
  <2>. QED
    BY <2>1, <2>3 DEF DrawsInv, DrawsTyped
<1>2. CASE StoreNext /\ UNCHANGED drawVars
  BY <1>2, StoreKeepsDraws
<1>3. ASSUME NEW object \in 1 .. Objects, NEW mesh \in Handles, NEW material \in Handles,
             Assign(object, mesh, material)
      PROVE  DrawsInv'
  BY <1>3, AssignKeepsDraws
<1>4. CASE ScheduleRenderWorldExtraction
  BY <1>4, ScheduleKeepsDraws
<1>5. ASSUME NEW c \in 1 .. ChunkCount, AcquireMesh(c) \/ AcquireMaterial(c)
      PROVE  DrawsInv'
  BY <1>5, AcquireMeshKeepsDraws, AcquireMaterialKeepsDraws
<1>6. CASE Join
  BY <1>6, JoinKeepsDraws
<1>7. CASE Prepare
  BY <1>7, PrepareKeepsDraws
<1>8. ASSUME NEW handle \in Handles,
             \/ PrepareMesh(handle) \/ PrepareBound(handle)
             \/ \E pipeline \in Pipelines : PrepareMaterial(handle, pipeline)
      PROVE  DrawsInv'
  BY <1>8, PreparingKeepsDraws
<1>9. CASE Render
  BY <1>9, RenderKeepsDraws
<1>. QED
  BY <1>1, <1>2, <1>3, <1>4, <1>5, <1>6, <1>7, <1>8, <1>9 DEF ExtractionNext

LEMMA DrawsHold == DrawsInv => DrawsAreTrue
<1> SUFFICES ASSUME DrawsInv PROVE DrawsAreTrue
  OBVIOUS
<1>1. DrawsTyped /\ FrameSound
  BY DEF DrawsInv
<1>2. ReadersEndFirst
  BY <1>1 DEF FrameSound, ReadersEndFirst
<1>3. SnapshotIsPublished
  BY <1>1 DEF FrameSound, SnapshotIsPublished, Shows, Increasing
<1>4. BatchesAreRuns
  BY <1>1, Zenon DEF FrameSound, BatchesAreRuns, PartCommands, CommandsOf
<1>5. DrawsShowTheirLeases
  <2>1. \A a, b \in LeaseRecords : a.resource = b.resource /\ a.version = b.version => a = b
    BY DEF LeaseRecords
  <2>2. ASSUME NEW i \in DOMAIN frame.commands
        PROVE  frame.commands[i].mesh \in LeaseRecords /\ frame.commands[i].material \in LeaseRecords
    <3>1. frame.commands[i] \in Commands
      BY <1>1 DEF DrawsTyped
    <3>. QED
      BY <3>1 DEF Commands
  <2>. QED
    BY <1>1, <2>1, <2>2
       DEF DrawsTyped, DrawsShowTheirLeases, FindMesh, FindMaterial, IsOf
<1>. QED
  BY <1>2, <1>3, <1>4, <1>5 DEF DrawsAreTrue

(* However resources are loaded, unloaded and prepared while a frame is      *)
(* extracted by any number of chunks, its readers end before it does, its     *)
(* snapshot shows what was published, its batches part its commands and its   *)
(* draws show what they leased (extraction.cpp, renderer.cpp:100-195,         *)
(* presentation.cpp). *)
THEOREM DrawsTrue == ExtractionSpec => []DrawsAreTrue
<1>. QED
  BY DrawsStart, DrawsStep, DrawsHold, PTL DEF ExtractionSpec

(***************************************************************************)
(* The parts together.                                                      *)
(***************************************************************************)

(* Side by side, every part still runs by its own specification. *)
LEMMA PartsRunAlone ==
  MCSpec => StateSpec /\ UploadSpec /\ DescriptorSpec /\ PathSpec /\ ObjectSpec
<1>1. MCInit => StateInit /\ UploadInit /\ DescriptorInit /\ PathInit /\ ObjectInit
  BY DEF MCInit
<1>2. [MCNext]_MCVars => /\ [StateNext]_stateVars /\ [UploadNext]_uploadVars
                         /\ [DescriptorNext]_descriptorVars /\ [PathNext]_pathVars
                         /\ [ObjectNext]_objectVars
  BY DEF MCNext, MCVars
<1>. QED
  BY <1>1, <1>2, PTL DEF MCSpec, StateSpec, UploadSpec, DescriptorSpec, PathSpec, ObjectSpec

(* Memory, states, descriptor sets and frames that the CPU hands to the GPU  *)
(* last and are in order until the GPU is done with them, for the parts side *)
(* by side as the run checks them and for every size (graphics/vulkan).      *)
THEOREM GpuWorkSafe == MCSpec => []GpuWorkIsSafe
<1>1. []StatesAreSafe /\ []UploadsAreSafe /\ []DescriptorsAreSafe /\ []PathIsSafe
      => []GpuWorkIsSafe
  BY PTL DEF GpuWorkIsSafe
<1>. QED
  BY <1>1, PartsRunAlone, StatesSafe, UploadsSafe, DescriptorsSafe, PathSafe, PTL

=============================================================================
