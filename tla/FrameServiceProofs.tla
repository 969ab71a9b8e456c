------------------------- MODULE FrameServiceProofs -------------------------
(***************************************************************************)
(* Proofs about what works for a frame beside the scheduler: the loop of    *)
(* the main thread with the hand-over of frames to the graphics, and the    *)
(* runs of a World's systems.                                               *)
(***************************************************************************)
EXTENDS FrameLoop, SystemRuns,
        FiniteSetTheorems, SequenceTheorems, WellFoundedInduction, TLAPS

(***************************************************************************)
(* The loop of the main thread.                                             *)
(***************************************************************************)

(* Frames begin in order. *)
BegunInOrder ==
  \E n \in 0 .. LoopFrames : \A f \in LoopFrame : stage[f] # "none" <=> f < n

(* A frame begins when the earlier ones of its slot are over. *)
SlotsInOrder ==
  \A f, g \in LoopFrame :
    g < f /\ LoopSlotOf(g) = LoopSlotOf(f) /\ stage[f] # "none" => stage[g] = "recycled"

(* A promise is pending as long as one of the queues has its frame. *)
IsSubmitted(f) == \E i \in DOMAIN submitted : submitted[i].frame = f

HeldOnce ==
  \A f \in LoopFrame :
    /\ promise[f] = "pending" <=> f \in queued \/ IsSubmitted(f)
    /\ ~ (f \in queued /\ IsSubmitted(f))

(* A promise is made for a frame that stays drawn until it is kept. *)
PendingIsDrawn ==
  \A f \in LoopFrame : promise[f] = "pending" => stage[f] = "drawn"

(* Frames are submitted in order. *)
QueuedIsNext ==
  /\ \A f \in queued : f >= loopNextFrame
  /\ \A f \in LoopFrame : f < loopNextFrame => stage[f] \in {"drawn", "recycled"}

SubmittedInOrder ==
  /\ \A i \in DOMAIN submitted : submitted[i].frame < loopNextFrame
  /\ \A i, j \in DOMAIN submitted : i < j => submitted[i].frame < submitted[j].frame

(* A run leaves nothing to the next. *)
AtRest ==
  /\ loopAt = "off" => submitted = <<>>
  /\ loopAt \in {"off", "drain"} =>
       queued = {} /\ \A f \in LoopFrame : stage[f] # "drawAsked"
  /\ loopAt = "drain" => presStopping
  /\ loopAt # "off" => loopRun >= 1

(* Unless the presentation failed, the GPU works on submitted frames of this
   run only. *)
GpuIsSubmitted ==
  /\ presFailure => presStopping
  /\ ~ presFailure =>
       \A p \in loopGpu : /\ p[1] = loopRun
                          /\ \E i \in DOMAIN submitted : submitted[i].frame = p[2]

LoopInv ==
  /\ LoopTypeOK
  /\ BegunInOrder
  /\ SlotsInOrder
  /\ HeldOnce
  /\ PendingIsDrawn
  /\ QueuedIsNext
  /\ SubmittedInOrder
  /\ AtRest
  /\ GpuIsSubmitted
  /\ SlotsAreExclusive

-----------------------------------------------------------------------------
(* Numbers and slots. *)

(* A set of numbers up to n has a largest one. *)
LEMMA LargestNumber ==
  ASSUME NEW n \in Nat, NEW T \in SUBSET (0 .. n), T # {}
  PROVE  \E x \in T : \A y \in T : y <= x
<1>. DEFINE R == {ss \in Nat \X Nat : ss[1] < ss[2]}
            S == {n - x : x \in T}
<1>1. IsWellFoundedOn(R, Nat)
  BY NatLessThanWellFounded, Zenon DEF OpToRel
<1>2. S \subseteq Nat /\ S # {}
  <2>1. PICK x \in T : TRUE
    OBVIOUS
  <2>2. \A y \in T : n - y \in Nat
    OBVIOUS
  <2>3. n - x \in S
    BY <2>1
  <2>. QED
    BY <2>2, <2>3
<1>3. \E x \in S : \A y \in S : ~ (<<y, x>> \in R)
  <2>. HIDE DEF R, S
  <2>. QED BY <1>1, <1>2, WFMin
<1>4. PICK x \in T : \A y \in T : ~ (<<n - y, n - x>> \in R)
  BY <1>3
<1>5. ASSUME NEW y \in T, y > x
      PROVE  <<n - y, n - x>> \in R
  BY <1>5
<1>. HIDE DEF R
<1>6. \A y \in T : ~ (y > x)
  BY <1>4, <1>5
<1>. QED
  BY <1>6

(* Frames of one slot are at least as far apart as there are slots. *)
LEMMA DivMod ==
  ASSUME NEW n \in Nat \ {0}, NEW f \in Nat
  PROVE  /\ f % n \in 0 .. n - 1
         /\ f \div n \in Nat
         /\ f = n * (f \div n) + (f % n)
BY SMT

LEMMA RemainderUnique ==
  ASSUME NEW n \in Nat \ {0}, NEW q \in Nat, NEW p \in Nat,
         NEW r \in 0 .. n - 1, NEW s \in 0 .. n - 1,
         n * q + r = n * p + s, q <= p
  PROVE  r = s
<1>1. CASE q = p
  BY <1>1
<1>2. CASE q < p
  <2>1. PICK d \in Nat \ {0} : p = q + d
    <3>1. p - q \in Nat \ {0} /\ p = q + (p - q)
      BY <1>2
    <3>. QED
      BY <3>1
  <2>2. n * p = n * q + n * d
    BY <2>1
  <2>3. n * d >= n
    BY <2>1
  <2>. QED
    BY <2>2, <2>3
<1>. QED
  BY <1>1, <1>2

LEMMA ModShift ==
  ASSUME NEW n \in Nat \ {0}, NEW f \in Nat
  PROVE  (f + n) % n = f % n
<1>. DEFINE q == f \div n  r == f % n  p == (f + n) \div n  s == (f + n) % n
<1>1. f = n * q + r /\ q \in Nat /\ r \in 0 .. n - 1
  BY DivMod
<1>2. f + n = n * p + s /\ p \in Nat /\ s \in 0 .. n - 1
  <2>1. f + n \in Nat
    OBVIOUS
  <2>. QED
    BY <2>1, DivMod
<1>. HIDE DEF q, r, p, s
<1>3. n * (q + 1) = n * q + n
  BY <1>1
<1>4. n * (q + 1) + r = n * p + s /\ q + 1 \in Nat
  BY <1>1, <1>2, <1>3
<1>5. q + 1 <= p => r = s
  BY <1>1, <1>2, <1>4, RemainderUnique
<1>6. p <= q + 1 => r = s
  BY <1>1, <1>2, <1>4, RemainderUnique
<1>7. r = s
  BY <1>1, <1>2, <1>5, <1>6
<1>. QED
  BY <1>7 DEF r, s

LEMMA SlotsApart ==
  ASSUME NEW n \in Nat \ {0}, NEW f \in Nat, NEW g \in Nat, g < f, g % n = f % n
  PROVE  g <= f - n
<1>. DEFINE q == f \div n  r == f % n  p == g \div n  s == g % n
<1>1. f = n * q + r /\ q \in Nat /\ r \in 0 .. n - 1
  BY DivMod
<1>2. g = n * p + s /\ p \in Nat /\ s \in 0 .. n - 1
  BY DivMod
<1>3. r = s
  OBVIOUS
<1>. HIDE DEF q, r, p, s
<1>4. p < q
  <2>1. SUFFICES ASSUME p >= q  PROVE FALSE
    BY <1>1, <1>2
  <2>2. PICK d \in Nat : p = q + d
    <3>1. p - q \in Nat /\ p = q + (p - q)
      BY <1>1, <1>2, <2>1
    <3>. QED
      BY <3>1
  <2>3. n * p = n * q + n * d /\ n * d \in Nat /\ n * q \in Nat
    BY <1>1, <2>2
  <2>. QED
    BY <1>1, <1>2, <1>3, <2>3
<1>5. PICK d \in Nat : q = p + 1 + d
  <2>1. q - p - 1 \in Nat /\ q = p + 1 + (q - p - 1)
    BY <1>1, <1>2, <1>4
  <2>. QED
    BY <2>1
<1>6. n * q = n * p + n + n * d /\ n * d \in Nat /\ n * p \in Nat
  BY <1>2, <1>5
<1>. QED
  BY <1>1, <1>2, <1>3, <1>6

-----------------------------------------------------------------------------
(* What the presentation completes. *)

LEMMA SubmittedIs ==
  ASSUME LoopTypeOK
  PROVE  /\ Len(submitted) \in Nat /\ DOMAIN submitted = 1 .. Len(submitted)
         /\ \A i \in DOMAIN submitted : submitted[i].frame \in LoopFrame
         /\ \A i \in DOMAIN submitted : submitted[i] \in [frame : LoopFrame, fails : BOOLEAN]
         /\ submitted = <<>> <=> Len(submitted) = 0
<1>1. submitted \in Seq([frame : LoopFrame, fails : BOOLEAN])
  BY DEF LoopTypeOK
<1>2. submitted = <<>> <=> Len(submitted) = 0
  BY <1>1, EmptySeq
<1>3. Len(submitted) \in Nat /\ DOMAIN submitted = 1 .. Len(submitted)
  BY <1>1, LenProperties
<1>4. \A i \in DOMAIN submitted : submitted[i] \in [frame : LoopFrame, fails : BOOLEAN]
  BY <1>1, <1>3, ElementOfSeq
<1>5. \A i \in DOMAIN submitted : submitted[i].frame \in LoopFrame
  BY <1>4
<1>. QED
  BY <1>2, <1>3, <1>4, <1>5

LEMMA CompletedIs ==
  ASSUME LoopTypeOK
  PROVE  /\ Completed \in 0 .. Len(submitted)
         /\ \A i \in 1 .. Completed : ~ OnGpu(submitted[i].frame)
<1>. DEFINE Done == {n \in 0 .. Len(submitted) :
                       \A i \in 1 .. n : ~ OnGpu(submitted[i].frame)}
<1>1. Len(submitted) \in Nat
  BY SubmittedIs
<1>2. 0 \in Done
  BY <1>1
<1>3. \E n \in Done : \A m \in Done : m <= n
  BY <1>1, <1>2, LargestNumber
<1>4. Completed \in Done
  BY <1>3 DEF Completed
<1>. QED
  BY <1>4

LEMMA RestIs ==
  ASSUME LoopTypeOK
  PROVE  /\ Rest \in Seq([frame : LoopFrame, fails : BOOLEAN])
         /\ Len(Rest) = Len(submitted) - Completed
         /\ DOMAIN Rest = 1 .. Len(submitted) - Completed
         /\ \A i \in DOMAIN Rest : Rest[i] = submitted[Completed + i]
         /\ \A i \in DOMAIN Rest : Completed + i \in DOMAIN submitted
<1>. DEFINE c == Completed  n == Len(submitted)
<1>1. c \in 0 .. n /\ n \in Nat
  BY CompletedIs, SubmittedIs
<1>2. submitted \in Seq([frame : LoopFrame, fails : BOOLEAN])
  BY DEF LoopTypeOK
<1>3. Rest = SubSeq(submitted, c + 1, n)
  BY DEF Rest
<1>. HIDE DEF c, n
<1>4. \A i \in c + 1 .. n : i \in 1 .. Len(submitted)
  BY <1>1 DEF n
<1>5. /\ Rest \in Seq([frame : LoopFrame, fails : BOOLEAN])
      /\ Len(Rest) = IF c + 1 <= n THEN n - (c + 1) + 1 ELSE 0
      /\ \A i \in 1 .. n - (c + 1) + 1 : Rest[i] = submitted[c + 1 + i - 1]
  <2>1. c + 1 \in Int /\ n \in Int
    BY <1>1
  <2>2. \A i \in c + 1 .. n : submitted[i] \in [frame : LoopFrame, fails : BOOLEAN]
    BY <1>4, SubmittedIs
  <2>. QED
    BY <1>2, <1>3, <1>4, <2>1, <2>2, SubSeqProperties
<1>6. Len(Rest) = n - c
  BY <1>1, <1>5
<1>7. DOMAIN Rest = 1 .. n - c
  BY <1>5, <1>6, LenProperties
<1>8. \A i \in 1 .. n - c : /\ i \in 1 .. n - (c + 1) + 1 /\ c + 1 + i - 1 = c + i
                            /\ c + i \in 1 .. n
  BY <1>1
<1>9. \A i \in DOMAIN Rest : Rest[i] = submitted[c + i]
  BY <1>5, <1>7, <1>8
<1>10. \A i \in DOMAIN Rest : c + i \in DOMAIN submitted
  BY <1>7, <1>8, SubmittedIs DEF n
<1>. QED
  BY <1>5, <1>6, <1>7, <1>9, <1>10 DEF c, n

LEMMA KeptIs ==
  ASSUME LoopTypeOK
  PROVE  /\ Kept \in [LoopFrame -> {"none", "pending", "kept", "failed"}]
         /\ \A f \in LoopFrame :
              IF \E i \in 1 .. Completed : submitted[i].frame = f
              THEN Kept[f] \in {"kept", "failed"} ELSE Kept[f] = promise[f]
<1>1. promise \in [LoopFrame -> {"none", "pending", "kept", "failed"}]
  BY DEF LoopTypeOK
<1>2. ASSUME NEW f \in LoopFrame
      PROVE  IF \E i \in 1 .. Completed : submitted[i].frame = f
             THEN Kept[f] \in {"kept", "failed"} ELSE Kept[f] = promise[f]
  BY DEF Kept
<1>3. \A f \in LoopFrame : Kept[f] \in {"none", "pending", "kept", "failed"}
  BY <1>1, <1>2
<1>4. Kept = [f \in LoopFrame |-> Kept[f]]
  BY DEF Kept
<1>5. Kept \in [LoopFrame -> {"none", "pending", "kept", "failed"}]
  <2>. DEFINE k == Kept
  <2>1. k = [f \in LoopFrame |-> k[f]] /\ \A f \in LoopFrame : k[f] \in {"none", "pending", "kept", "failed"}
    BY <1>3, <1>4
  <2>. HIDE DEF k
  <2>2. k \in [LoopFrame -> {"none", "pending", "kept", "failed"}]
    BY <2>1
  <2>. QED
    BY <2>2 DEF k
<1>. QED
  BY <1>2, <1>5

(* What is not completed stays as it is, and what the GPU works on is among
   it. *)
LEMMA CompletingKeeps ==
  ASSUME LoopInv
  PROVE  /\ \A f \in LoopFrame :
              /\ Kept[f] = "pending" <=>
                   f \in queued \/ \E i \in DOMAIN Rest : Rest[i].frame = f
              /\ ~ (f \in queued /\ \E i \in DOMAIN Rest : Rest[i].frame = f)
              /\ Kept[f] = "pending" => promise[f] = "pending"
         /\ \A i \in DOMAIN Rest : Rest[i].frame < loopNextFrame
         /\ \A i, j \in DOMAIN Rest : i < j => Rest[i].frame < Rest[j].frame
         /\ \A i \in DOMAIN submitted : OnGpu(submitted[i].frame) =>
              \E j \in DOMAIN Rest : Rest[j].frame = submitted[i].frame
<1>. DEFINE c == Completed
<1>1. LoopTypeOK
  BY DEF LoopInv
<1>2. /\ c \in 0 .. Len(submitted)
      /\ \A i \in 1 .. c : ~ OnGpu(submitted[i].frame)
  BY <1>1, CompletedIs
<1>3. /\ Len(submitted) \in Nat /\ DOMAIN submitted = 1 .. Len(submitted)
      /\ \A i \in DOMAIN submitted : submitted[i].frame \in LoopFrame
  BY <1>1, SubmittedIs
<1>4. /\ DOMAIN Rest = 1 .. Len(submitted) - c
      /\ \A i \in DOMAIN Rest : Rest[i] = submitted[c + i]
      /\ \A i \in DOMAIN Rest : c + i \in DOMAIN submitted
  BY <1>1, RestIs
<1>5. \A f \in LoopFrame :
        IF \E i \in 1 .. c : submitted[i].frame = f
        THEN Kept[f] \in {"kept", "failed"} ELSE Kept[f] = promise[f]
  BY <1>1, KeptIs
<1>. HIDE DEF c
<1>6. /\ \A i \in DOMAIN submitted : submitted[i].frame < loopNextFrame
      /\ \A i, j \in DOMAIN submitted : i < j => submitted[i].frame < submitted[j].frame
  BY DEF LoopInv, SubmittedInOrder
<1>7. \A f \in LoopFrame : f \in Int
  BY FrameLoopAssumption DEF LoopFrame
<1>8. ASSUME NEW i \in DOMAIN submitted, NEW j \in DOMAIN submitted,
             submitted[i].frame = submitted[j].frame
      PROVE  i = j
  <2>1. i < j \/ j < i \/ i = j
    BY <1>3
  <2>2. submitted[i].frame \in Int /\ submitted[j].frame \in Int
    BY <1>3, <1>7
  <2>. QED
    BY <1>6, <1>8, <2>1, <2>2
<1>9. ASSUME NEW i \in DOMAIN submitted, i > c
      PROVE  \E j \in DOMAIN Rest : Rest[j].frame = submitted[i].frame
  <2>1. i - c \in DOMAIN Rest /\ c + (i - c) = i
    BY <1>2, <1>3, <1>4, <1>9
  <2>. QED
    BY <1>4, <2>1
<1>10. ASSUME NEW i \in DOMAIN submitted, OnGpu(submitted[i].frame)
       PROVE  \E j \in DOMAIN Rest : Rest[j].frame = submitted[i].frame
  <2>1. i > c
    BY <1>2, <1>3, <1>10
  <2>. QED
    BY <1>9, <2>1
<1>11. ASSUME NEW f \in LoopFrame
       PROVE  (\E i \in DOMAIN Rest : Rest[i].frame = f) <=>
                /\ \E i \in DOMAIN submitted : submitted[i].frame = f
                /\ ~ \E i \in 1 .. c : submitted[i].frame = f
  <2>1. ASSUME NEW j \in DOMAIN Rest, Rest[j].frame = f
        PROVE  /\ \E i \in DOMAIN submitted : submitted[i].frame = f
               /\ ~ \E i \in 1 .. c : submitted[i].frame = f
    <3>1. c + j \in DOMAIN submitted /\ submitted[c + j].frame = f
      BY <1>4, <2>1
    <3>2. ASSUME NEW i \in 1 .. c, submitted[i].frame = f
          PROVE  FALSE
      <4>1. i \in DOMAIN submitted /\ i # c + j
        BY <1>2, <1>3, <1>4
      <4>. QED
        BY <1>8, <3>1, <3>2, <4>1
    <3>. QED
      BY <3>1, <3>2
  <2>2. ASSUME NEW i \in DOMAIN submitted, submitted[i].frame = f,
               ~ \E k \in 1 .. c : submitted[k].frame = f
        PROVE  \E j \in DOMAIN Rest : Rest[j].frame = f
    <3>1. i > c
      BY <1>2, <1>3, <2>2
    <3>. QED
      BY <1>9, <2>2, <3>1
  <2>. QED
    BY <2>1, <2>2
<1>12. ASSUME NEW f \in LoopFrame
       PROVE  /\ Kept[f] = "pending" <=>
                   f \in queued \/ \E i \in DOMAIN Rest : Rest[i].frame = f
              /\ ~ (f \in queued /\ \E i \in DOMAIN Rest : Rest[i].frame = f)
              /\ Kept[f] = "pending" => promise[f] = "pending"
  <2>1. /\ promise[f] = "pending" <=>
             f \in queued \/ \E i \in DOMAIN submitted : submitted[i].frame = f
        /\ ~ (f \in queued /\ \E i \in DOMAIN submitted : submitted[i].frame = f)
    BY DEF LoopInv, HeldOnce, IsSubmitted
  <2>2. CASE \E i \in 1 .. c : submitted[i].frame = f
    <3>1. Kept[f] # "pending"
      BY <1>5, <2>2
    <3>2. \E i \in DOMAIN submitted : submitted[i].frame = f
      BY <1>2, <1>3, <2>2
    <3>. QED
      BY <1>11, <2>1, <2>2, <3>1, <3>2
  <2>3. CASE ~ \E i \in 1 .. c : submitted[i].frame = f
    BY <1>5, <1>11, <2>1, <2>3
  <2>. QED
    BY <2>2, <2>3
<1>13. ASSUME NEW i \in DOMAIN Rest, NEW j \in DOMAIN Rest, i < j
       PROVE  Rest[i].frame < Rest[j].frame
  <2>1. c + i < c + j
    BY <1>2, <1>4, <1>13
  <2>. QED
    BY <1>4, <1>6, <2>1
<1>14. \A i \in DOMAIN Rest : Rest[i].frame < loopNextFrame
  BY <1>4, <1>6
<1>. QED
  BY <1>10, <1>12, <1>13, <1>14

-----------------------------------------------------------------------------
(* Steps that submit, complete and begin nothing. *)

StageAdvances ==
  \A f \in LoopFrame :
    /\ stage'[f] = "none" <=> stage[f] = "none"
    /\ stage[f] = "recycled" => stage'[f] = "recycled"
    /\ stage[f] = "drawn" =>
         stage'[f] = "drawn" \/ (stage'[f] = "recycled" /\ promise[f] # "pending")

LEMMA QuietStep ==
  ASSUME LoopInv, LoopTypeOK', AtRest', StageAdvances,
         UNCHANGED <<loopRun, promise, presVars, loopGpu>>
  PROVE  LoopInv'
<1>. USE DEF LoopInv
<1>1. BegunInOrder'
  <2>1. PICK n \in 0 .. LoopFrames : \A f \in LoopFrame : stage[f] # "none" <=> f < n
    BY DEF BegunInOrder
  <2>2. \A f \in LoopFrame : stage'[f] # "none" <=> f < n
    BY <2>1 DEF StageAdvances
  <2>. QED
    BY <2>2 DEF BegunInOrder
<1>2. SlotsInOrder'
  BY DEF SlotsInOrder, StageAdvances
<1>3. HeldOnce'
  BY DEF HeldOnce, IsSubmitted, presVars
<1>4. PendingIsDrawn'
  BY DEF PendingIsDrawn, StageAdvances
<1>5. QueuedIsNext'
  BY DEF QueuedIsNext, StageAdvances, presVars
<1>6. SubmittedInOrder'
  BY DEF SubmittedInOrder, presVars
<1>7. GpuIsSubmitted'
  BY DEF GpuIsSubmitted, presVars
<1>8. SlotsAreExclusive'
  BY DEF SlotsAreExclusive
<1>. QED
  BY <1>1, <1>2, <1>3, <1>4, <1>5, <1>6, <1>7, <1>8

LEMMA SkipAskedAdvances ==
  ASSUME LoopTypeOK
  PROVE  /\ SkipAsked \in [LoopFrame -> Stage]
         /\ stage' = SkipAsked => StageAdvances
         /\ \A f \in LoopFrame : stage[f] # "drawAsked" => SkipAsked[f] # "drawAsked"
<1>1. stage \in [LoopFrame -> Stage]
  BY DEF LoopTypeOK
<1>2. \A f \in LoopFrame : SkipAsked[f] = IF stage[f] = "asking" THEN "update" ELSE stage[f]
  BY DEF SkipAsked
<1>3. SkipAsked \in [LoopFrame -> Stage]
  BY <1>1 DEF SkipAsked, Stage
<1>4. stage' = SkipAsked => StageAdvances
  BY <1>2 DEF StageAdvances
<1>. QED
  BY <1>2, <1>3, <1>4

(* One frame moves on. *)
LEMMA OneAdvances ==
  ASSUME LoopTypeOK, NEW f \in LoopFrame, NEW s \in Stage, s # "none",
         stage[f] \notin {"none", "recycled"},
         stage[f] = "drawn" => s = "recycled" /\ promise[f] # "pending",
         stage' = [stage EXCEPT ![f] = s]
  PROVE  stage' \in [LoopFrame -> Stage] /\ StageAdvances
<1>1. stage \in [LoopFrame -> Stage]
  BY DEF LoopTypeOK
<1>2. stage' \in [LoopFrame -> Stage]
  BY <1>1
<1>3. \A g \in LoopFrame : stage'[g] = IF g = f THEN s ELSE stage[g]
  BY <1>1
<1>. QED
  BY <1>2, <1>3 DEF StageAdvances

LEMMA EventsKeeps ==
  ASSUME LoopInv, NEW close \in BOOLEAN, LoopEvents(close)
  PROVE  LoopInv'
<1>0. LoopTypeOK
  BY DEF LoopInv
<1>1. StageAdvances /\ stage' \in [LoopFrame -> Stage]
  <2>1. CASE close
    BY <1>0, <2>1, SkipAskedAdvances DEF LoopEvents
  <2>2. CASE ~ close
    BY <1>0, <2>2 DEF LoopEvents, LoopTypeOK, StageAdvances
  <2>. QED
    BY <2>1, <2>2
<1>2. LoopTypeOK'
  <2>1. loopAt' \in {"stop", "pump"} /\ closing' \in BOOLEAN /\ mainOpen' \in BOOLEAN
    BY <1>0 DEF LoopEvents, LoopTypeOK
  <2>. QED
    BY <1>0, <1>1, <2>1 DEF LoopEvents, LoopTypeOK, presVars
<1>3. AtRest'
  BY DEF LoopInv, AtRest, LoopEvents
<1>. QED
  BY <1>1, <1>2, <1>3, QuietStep DEF LoopEvents

LEMMA StillKeeps ==
  ASSUME LoopInv, StepError \/ StepWaits \/ StepDrawThrows \/ LoopStopped
  PROVE  LoopInv'
<1>0. LoopTypeOK
  BY DEF LoopInv
<1>1. StageAdvances
  BY DEF StageAdvances, StepError, StepWaits, StepDrawThrows, LoopStopped, frameVars
<1>2. LoopTypeOK'
  <2>1. CASE StepError
    BY <1>0, <2>1 DEF LoopTypeOK, StepError, frameVars, presVars
  <2>2. CASE StepWaits
    BY <1>0, <2>2 DEF LoopTypeOK, StepWaits, frameVars, presVars
  <2>3. CASE StepDrawThrows
    BY <1>0, <2>3 DEF LoopTypeOK, StepDrawThrows, Checkpoint, presVars
  <2>4. CASE LoopStopped
    BY <1>0, <2>4 DEF LoopTypeOK, LoopStopped, presVars
  <2>. QED
    BY <2>1, <2>2, <2>3, <2>4
<1>3. AtRest'
  BY DEF LoopInv, AtRest, StepError, StepWaits, StepDrawThrows, LoopStopped, frameVars, presVars
<1>4. UNCHANGED <<loopRun, promise, presVars, loopGpu>>
  BY DEF StepError, StepWaits, StepDrawThrows, LoopStopped
<1>. QED
  BY <1>1, <1>2, <1>3, <1>4, QuietStep

LEMMA SkipKeeps ==
  ASSUME LoopInv, (\E b \in BOOLEAN : StepDrain(b)) \/ LoopStop
  PROVE  LoopInv'
<1>0. LoopTypeOK
  BY DEF LoopInv
<1>1. StageAdvances /\ stage' \in [LoopFrame -> Stage]
  BY <1>0, SkipAskedAdvances DEF StepDrain, LoopStop
<1>2. LoopTypeOK'
  <2>1. CASE LoopStop
    BY <1>0, <1>1, <2>1 DEF LoopTypeOK, LoopStop, presVars
  <2>2. ASSUME NEW b \in BOOLEAN, StepDrain(b)
        PROVE  LoopTypeOK'
    <3>1. loopAt' \in {"events", "frame"} /\ closing' \in BOOLEAN /\ mainOpen' \in BOOLEAN
      BY <1>0, <2>2 DEF StepDrain, LoopTypeOK
    <3>. QED
      BY <1>0, <1>1, <2>2, <3>1 DEF LoopTypeOK, StepDrain, presVars
  <2>. QED
    BY <2>1, <2>2
<1>3. AtRest'
  BY DEF LoopInv, AtRest, StepDrain, LoopStop
<1>4. UNCHANGED <<loopRun, promise, presVars, loopGpu>>
  BY DEF StepDrain, LoopStop
<1>. QED
  BY <1>1, <1>2, <1>3, <1>4, QuietStep

LEMMA StepDrawKeeps ==
  ASSUME LoopInv, StepDraw
  PROVE  LoopInv'
<1>0. LoopTypeOK
  BY DEF LoopInv
<1>1. StageAdvances /\ stage' \in [LoopFrame -> Stage]
  <2>1. CASE reserved \in LoopFrame
    <3>1. "drawAsked" \in Stage /\ stage[reserved] = "updated"
      BY DEF Stage, StepDraw
    <3>. QED
      BY <1>0, <2>1, <3>1, OneAdvances DEF StepDraw
  <2>2. CASE reserved \notin LoopFrame
    BY <1>0, <2>2 DEF StepDraw, StageAdvances, LoopTypeOK
  <2>. QED
    BY <2>1, <2>2
<1>2. LoopTypeOK'
  BY <1>0, <1>1 DEF LoopTypeOK, StepDraw, presVars, Checkpoint
<1>3. AtRest'
  BY DEF LoopInv, AtRest, StepDraw
<1>. QED
  BY <1>1, <1>2, <1>3, QuietStep DEF StepDraw

LEMMA WorkerKeeps ==
  ASSUME LoopInv, NEW f \in LoopFrame,
         \/ Ask(f) \/ Recycle(f) \/ DropDraw(f)
         \/ \E b \in BOOLEAN : UpdateEnds(f, b)
  PROVE  LoopInv'
<1>0. LoopTypeOK
  BY DEF LoopInv
<1>1. PICK s \in Stage \ {"none", "drawAsked"} :
         /\ stage' = [stage EXCEPT ![f] = s]
         /\ stage[f] \notin {"none", "recycled"}
         /\ stage[f] = "drawn" => s = "recycled" /\ promise[f] # "pending"
  <2>1. CASE Ask(f)
    BY <2>1 DEF Ask, Stage
  <2>2. CASE Recycle(f)
    BY <2>2 DEF Recycle, Stage
  <2>3. CASE DropDraw(f)
    BY <2>3 DEF DropDraw, Stage
  <2>4. ASSUME NEW b \in BOOLEAN, UpdateEnds(f, b)
        PROVE  \E s \in Stage \ {"none", "drawAsked"} :
                 /\ stage' = [stage EXCEPT ![f] = s]
                 /\ stage[f] \notin {"none", "recycled"}
                 /\ stage[f] = "drawn" => s = "recycled" /\ promise[f] # "pending"
    <3>1. CASE b
      BY <2>4, <3>1 DEF UpdateEnds, Stage
    <3>2. CASE ~ b
      BY <2>4, <3>2 DEF UpdateEnds, Stage
    <3>. QED
      BY <3>1, <3>2
  <2>. QED
    BY <2>1, <2>2, <2>3, <2>4
<1>2. StageAdvances /\ stage' \in [LoopFrame -> Stage]
  BY <1>0, <1>1, OneAdvances
<1>3. \A g \in LoopFrame : stage[g] # "drawAsked" => stage'[g] # "drawAsked"
  BY <1>0, <1>1 DEF LoopTypeOK
<1>4. /\ UNCHANGED <<loopAt, loopRun, loopCheckpoint, reserved, mainOpen, closing,
                     promise, presVars, loopGpu>>
      /\ engineError' \in BOOLEAN
  <2>1. UNCHANGED <<loopAt, loopRun, loopCheckpoint, reserved, mainOpen, closing,
                    promise, presVars, loopGpu>>
    BY DEF Ask, Recycle, DropDraw, UpdateEnds
  <2>2. engineError' \in BOOLEAN
    BY <1>0 DEF Ask, Recycle, DropDraw, UpdateEnds, LoopTypeOK
  <2>. QED
    BY <2>1, <2>2
<1>5. LoopTypeOK'
  BY <1>0, <1>2, <1>4 DEF LoopTypeOK, presVars
<1>6. AtRest'
  BY <1>3, <1>4 DEF LoopInv, AtRest, presVars
<1>. QED
  BY <1>2, <1>4, <1>5, <1>6, QuietStep

-----------------------------------------------------------------------------
(* The next frame begins, or its beginning fails. *)

LEMMA FramesAre ==
  /\ FrameSlots \in Nat \ {0} /\ LoopFrames \in Nat \ {0} /\ LoopRuns \in Nat
  /\ LoopFrame \subseteq Nat /\ \A f \in LoopFrame : f < LoopFrames
  /\ \A n \in Nat : n < LoopFrames => n \in LoopFrame
  /\ NoFrame = LoopFrames
BY FrameLoopAssumption DEF LoopFrame, NoFrame

LEMMA NextIs ==
  ASSUME LoopInv
  PROVE  /\ NextToBegin \in 0 .. LoopFrames
         /\ \A f \in LoopFrame : stage[f] # "none" <=> f < NextToBegin
<1>1. PICK n \in 0 .. LoopFrames : \A f \in LoopFrame : stage[f] # "none" <=> f < n
  BY DEF LoopInv, BegunInOrder
<1>2. {f \in LoopFrame : stage[f] # "none"} = 0 .. n - 1
  <2>1. \A f \in {f \in LoopFrame : stage[f] # "none"} : f \in 0 .. n - 1
    BY <1>1, FramesAre
  <2>2. \A f \in 0 .. n - 1 : f \in LoopFrame /\ f < n
    BY FramesAre
  <2>. QED
    BY <1>1, <2>1, <2>2
<1>3. Cardinality(0 .. n - 1) = n
  <2>1. 0 \in Int /\ n - 1 \in Int
    BY FramesAre
  <2>2. Cardinality(0 .. n - 1) = IF 0 > n - 1 THEN 0 ELSE n - 1 - 0 + 1
    BY <2>1, FS_Interval
  <2>. QED
    BY <2>2, FramesAre
<1>4. NextToBegin = n
  BY <1>2, <1>3 DEF NextToBegin
<1>. QED
  BY <1>1, <1>4

LEMMA BeginsKeeps ==
  ASSUME LoopInv, StepBegin \/ StepAborts
  PROVE  LoopInv'
<1>. DEFINE n == NextToBegin
<1>0. LoopTypeOK
  BY DEF LoopInv
<1>1. /\ n \in LoopFrame
      /\ n >= FrameSlots => stage[n - FrameSlots] = "recycled"
      /\ \A f \in LoopFrame : stage[f] # "none" <=> f < n
  BY NextIs, FramesAre DEF StepBegin, StepAborts, MayBegin
<1>2. PICK s \in {"update", "recycled"} : stage' = [stage EXCEPT ![n] = s]
  BY DEF StepBegin, StepAborts
<1>3. UNCHANGED <<loopRun, engineError, mainOpen, closing, promise, presVars, loopGpu>>
  BY DEF StepBegin, StepAborts
<1>4. /\ loopAt' \in {"frame", "stop"} /\ loopAt = "frame"
      /\ loopCheckpoint' \in Checkpoint /\ reserved' \in LoopFrame \cup {NoFrame}
  BY <1>0, <1>1 DEF StepBegin, StepAborts, Checkpoint, LoopTypeOK
<1>. HIDE DEF n
<1>5. /\ stage \in [LoopFrame -> Stage] /\ stage' \in [LoopFrame -> Stage]
      /\ stage[n] = "none" /\ stage'[n] = s
      /\ \A f \in LoopFrame : f # n => stage'[f] = stage[f]
  <2>1. stage \in [LoopFrame -> Stage] /\ s \in Stage
    BY <1>0 DEF LoopTypeOK, Stage
  <2>2. n \in Nat /\ ~ (n < n)
    BY <1>1, FramesAre
  <2>. QED
    BY <1>1, <1>2, <2>1, <2>2
<1>6. LoopTypeOK'
  BY <1>0, <1>3, <1>4, <1>5 DEF LoopTypeOK, presVars
<1>7. BegunInOrder'
  <2>1. n + 1 \in 0 .. LoopFrames
    BY <1>1, FramesAre
  <2>2. \A f \in LoopFrame : stage'[f] # "none" <=> f < n + 1
    <3>1. \A f \in LoopFrame : f < n + 1 <=> f < n \/ f = n
      BY <1>1, FramesAre
    <3>. QED
      BY <1>1, <1>2, <1>5, <3>1
  <2>. QED
    BY <2>1, <2>2 DEF BegunInOrder
<1>8. SlotsInOrder'
  <2>1. SUFFICES ASSUME NEW f \in LoopFrame, NEW g \in LoopFrame, g < f,
                        LoopSlotOf(g) = LoopSlotOf(f), stage'[f] # "none"
                 PROVE  stage'[g] = "recycled"
    BY DEF SlotsInOrder
  <2>2. \A a, b \in LoopFrame : b < a /\ LoopSlotOf(b) = LoopSlotOf(a) /\ stage[a] # "none"
           => stage[b] = "recycled"
    BY DEF LoopInv, SlotsInOrder
  <2>3. f \in Nat /\ g \in Nat /\ n \in Nat
    BY <1>1, FramesAre
  <2>4. CASE f = n
    <3>1. g % FrameSlots = n % FrameSlots
      BY <2>1, <2>4 DEF LoopSlotOf
    <3>2. g <= n - FrameSlots
      BY <2>1, <2>3, <2>4, <3>1, SlotsApart, FramesAre
    <3>3. PICK h \in Nat : h = n - FrameSlots
      <4>1. n - FrameSlots \in Nat
        BY <2>3, <3>2, FramesAre
      <4>. QED
        BY <4>1
    <3>4. h \in LoopFrame /\ n = h + FrameSlots /\ n >= FrameSlots /\ h < n
      BY <1>1, <2>3, <3>3, FramesAre
    <3>5. stage[h] = "recycled"
      BY <1>1, <3>3, <3>4
    <3>6. LoopSlotOf(h) = LoopSlotOf(g)
      BY <3>1, <3>3, <3>4, ModShift, FramesAre DEF LoopSlotOf
    <3>7. stage[g] = "recycled"
      <4>1. CASE g = h
        BY <3>5, <4>1
      <4>2. CASE g # h
        <5>1. g < h
          BY <2>3, <3>2, <3>3, <4>2
        <5>. QED
          BY <2>2, <3>4, <3>5, <3>6, <5>1
      <4>. QED
        BY <4>1, <4>2
    <3>8. g # n
      BY <2>1, <2>3, <2>4
    <3>. QED
      BY <1>5, <3>7, <3>8
  <2>5. CASE f # n
    <3>1. stage[f] # "none" /\ f < n
      BY <1>1, <1>5, <2>1, <2>5
    <3>2. stage[g] = "recycled" /\ g # n
      BY <2>1, <2>2, <2>3, <3>1
    <3>. QED
      BY <1>5, <3>2
  <2>. QED
    BY <2>4, <2>5
<1>9. HeldOnce'
  BY <1>3 DEF LoopInv, HeldOnce, IsSubmitted, presVars
<1>10. PendingIsDrawn'
  BY <1>3, <1>5 DEF LoopInv, PendingIsDrawn
<1>11. QueuedIsNext'
  BY <1>3, <1>5 DEF LoopInv, QueuedIsNext, presVars
<1>12. SubmittedInOrder' /\ GpuIsSubmitted' /\ SlotsAreExclusive'
  BY <1>3 DEF LoopInv, SubmittedInOrder, GpuIsSubmitted, SlotsAreExclusive, presVars
<1>13. AtRest'
  BY <1>3, <1>4 DEF LoopInv, AtRest, presVars
<1>. QED
  BY <1>6, <1>7, <1>8, <1>9, <1>10, <1>11, <1>12, <1>13 DEF LoopInv

-----------------------------------------------------------------------------
(* A run begins; a frame is handed over. *)

LEMMA InitKeeps ==
  ASSUME LoopInit
  PROVE  LoopInv
<1>1. submitted \in Seq([frame : LoopFrame, fails : BOOLEAN]) /\ DOMAIN submitted = {}
  BY EmptySeq DEF LoopInit
<1>2. LoopTypeOK
  <2>1. /\ stage \in [LoopFrame -> Stage]
        /\ promise \in [LoopFrame -> {"none", "pending", "kept", "failed"}]
    BY DEF LoopInit, Stage
  <2>. QED
    BY <1>1, <2>1, FramesAre DEF LoopInit, LoopTypeOK, Checkpoint
<1>3. BegunInOrder
  <2>1. \A f \in LoopFrame : stage[f] # "none" <=> f < 0
    BY FramesAre DEF LoopInit
  <2>. QED
    BY <2>1, FramesAre DEF BegunInOrder
<1>4. SlotsInOrder /\ PendingIsDrawn
  BY DEF LoopInit, SlotsInOrder, PendingIsDrawn
<1>5. HeldOnce
  BY <1>1 DEF LoopInit, HeldOnce, IsSubmitted
<1>6. QueuedIsNext /\ SubmittedInOrder
  BY <1>1, FramesAre DEF LoopInit, QueuedIsNext, SubmittedInOrder
<1>7. AtRest
  BY DEF LoopInit, AtRest
<1>8. GpuIsSubmitted /\ SlotsAreExclusive
  BY DEF LoopInit, GpuIsSubmitted, SlotsAreExclusive
<1>. QED
  BY <1>2, <1>3, <1>4, <1>5, <1>6, <1>7, <1>8 DEF LoopInv

LEMMA StartKeeps ==
  ASSUME LoopInv, LoopStart
  PROVE  LoopInv'
<1>0. LoopTypeOK
  BY DEF LoopInv
<1>1. loopRun' \in 1 .. LoopRuns /\ loopAt = "off" /\ loopGpu' = loopGpu
  BY <1>0, FramesAre DEF LoopStart, LoopTypeOK
<1>2. CASE presFailure
  <2>1. UNCHANGED <<loopAt, frameVars, mainOpen, closing, promise, presVars>>
    BY <1>2 DEF LoopStart
  <2>2. LoopTypeOK'
    BY <1>0, <1>1, <2>1 DEF LoopTypeOK, frameVars, presVars
  <2>3. BegunInOrder' /\ SlotsInOrder' /\ HeldOnce' /\ PendingIsDrawn' /\ QueuedIsNext'
    BY <2>1 DEF LoopInv, BegunInOrder, SlotsInOrder, HeldOnce, IsSubmitted, PendingIsDrawn,
                QueuedIsNext, frameVars, presVars
  <2>4. SubmittedInOrder' /\ AtRest'
    BY <1>1, <2>1 DEF LoopInv, SubmittedInOrder, AtRest, frameVars, presVars
  <2>5. GpuIsSubmitted' /\ SlotsAreExclusive'
    BY <1>1, <1>2, <2>1 DEF LoopInv, GpuIsSubmitted, SlotsAreExclusive, presVars
  <2>. QED
    BY <2>2, <2>3, <2>4, <2>5 DEF LoopInv
<1>3. CASE ~ presFailure
  <2>1. /\ submitted = <<>> /\ queued = {}
        /\ DOMAIN submitted = {}
    <3>1. submitted = <<>> /\ queued = {}
      BY <1>1 DEF LoopInv, AtRest
    <3>. QED
      BY <1>0, <3>1, SubmittedIs
  <2>2. loopGpu = {}
    BY <1>3, <2>1 DEF LoopInv, GpuIsSubmitted
  <2>3. /\ loopAt' = "events"
        /\ mainOpen' = TRUE /\ closing' = FALSE
        /\ loopCheckpoint' = "READY_FOR_USER_UPDATE" /\ reserved' = NoFrame
        /\ stage' = [f \in LoopFrame |-> "none"]
        /\ promise' = [f \in LoopFrame |-> "none"]
        /\ engineError' = FALSE
        /\ presStopping' = FALSE /\ loopNextFrame' = 0
        /\ queued' = {} /\ submitted' = submitted /\ presFailure' = presFailure
    BY <1>3, <2>1 DEF LoopStart
  <2>4. LoopTypeOK'
    <3>1. /\ stage' \in [LoopFrame -> Stage]
          /\ promise' \in [LoopFrame -> {"none", "pending", "kept", "failed"}]
      BY <2>3 DEF Stage
    <3>2. /\ loopAt' \in {"off", "events", "pump", "step", "frame", "stop", "join", "drain"}
          /\ loopCheckpoint' \in Checkpoint /\ reserved' \in LoopFrame \cup {NoFrame}
          /\ engineError' \in BOOLEAN /\ mainOpen' \in BOOLEAN /\ closing' \in BOOLEAN
          /\ presStopping' \in BOOLEAN /\ presFailure' \in BOOLEAN
      BY <1>0, <2>3 DEF LoopTypeOK, Checkpoint
    <3>3. /\ queued' \subseteq LoopFrame /\ loopNextFrame' \in Nat
          /\ submitted' \in Seq([frame : LoopFrame, fails : BOOLEAN])
          /\ loopGpu' \subseteq (1 .. LoopRuns) \X LoopFrame
          /\ loopRun' \in 0 .. LoopRuns
      BY <1>0, <1>1, <2>3 DEF LoopTypeOK
    <3>. QED
      BY <3>1, <3>2, <3>3 DEF LoopTypeOK
  <2>5. BegunInOrder'
    <3>1. \A f \in LoopFrame : stage'[f] # "none" <=> f < 0
      BY <2>3, FramesAre
    <3>. QED
      BY <3>1, FramesAre DEF BegunInOrder
  <2>6. SlotsInOrder' /\ PendingIsDrawn'
    BY <2>3 DEF SlotsInOrder, PendingIsDrawn
  <2>7. HeldOnce'
    BY <2>1, <2>3 DEF HeldOnce, IsSubmitted
  <2>8. QueuedIsNext' /\ SubmittedInOrder'
    BY <2>1, <2>3, FramesAre DEF QueuedIsNext, SubmittedInOrder
  <2>9. AtRest' /\ GpuIsSubmitted' /\ SlotsAreExclusive'
    BY <1>1, <1>3, <2>2, <2>3 DEF AtRest, GpuIsSubmitted, SlotsAreExclusive
  <2>. QED
    BY <2>4, <2>5, <2>6, <2>7, <2>8, <2>9 DEF LoopInv
<1>. QED
  BY <1>2, <1>3

LEMMA PresentKeeps ==
  ASSUME LoopInv, NEW f \in LoopFrame, PresentDraw(f)
  PROVE  LoopInv'
<1>0. LoopTypeOK
  BY DEF LoopInv
<1>1. /\ stage[f] = "drawAsked"
      /\ promise' = [promise EXCEPT ![f] = "pending"]
      /\ queued' = queued \cup {f}
      /\ stage' = [stage EXCEPT ![f] = "drawn"]
      /\ UNCHANGED <<loopAt, loopRun, loopCheckpoint, reserved, engineError, mainOpen,
                     closing, submitted, loopNextFrame, presStopping, presFailure, loopGpu>>
  BY DEF PresentDraw
<1>2. /\ stage' \in [LoopFrame -> Stage]
      /\ promise' \in [LoopFrame -> {"none", "pending", "kept", "failed"}]
      /\ \A g \in LoopFrame : stage'[g] = IF g = f THEN "drawn" ELSE stage[g]
      /\ \A g \in LoopFrame : promise'[g] = IF g = f THEN "pending" ELSE promise[g]
  BY <1>0, <1>1 DEF LoopTypeOK, Stage
<1>3. promise[f] # "pending"
  BY <1>1 DEF LoopInv, PendingIsDrawn
<1>4. f \notin queued /\ ~ IsSubmitted(f)
  BY <1>3 DEF LoopInv, HeldOnce
<1>5. LoopTypeOK'
  BY <1>0, <1>1, <1>2 DEF LoopTypeOK
<1>6. BegunInOrder'
  <2>1. PICK n \in 0 .. LoopFrames : \A g \in LoopFrame : stage[g] # "none" <=> g < n
    BY DEF LoopInv, BegunInOrder
  <2>2. \A g \in LoopFrame : stage'[g] # "none" <=> g < n
    BY <1>1, <1>2, <2>1
  <2>. QED
    BY <2>2 DEF BegunInOrder
<1>7. SlotsInOrder'
  BY <1>1, <1>2 DEF LoopInv, SlotsInOrder
<1>8. HeldOnce'
  <2>1. \A g \in LoopFrame : IsSubmitted(g)' <=> IsSubmitted(g)
    BY <1>1 DEF IsSubmitted
  <2>2. \A g \in LoopFrame : g \in queued' <=> g = f \/ g \in queued
    BY <1>1
  <2>3. ASSUME NEW g \in LoopFrame
        PROVE  /\ promise'[g] = "pending" <=> g \in queued' \/ IsSubmitted(g)'
               /\ ~ (g \in queued' /\ IsSubmitted(g)')
    BY <1>2, <1>4, <2>1, <2>2 DEF LoopInv, HeldOnce
  <2>. QED
    BY <2>3 DEF HeldOnce
<1>9. PendingIsDrawn'
  BY <1>2 DEF LoopInv, PendingIsDrawn
<1>10. QueuedIsNext'
  <2>1. f >= loopNextFrame
    <3>1. loopNextFrame \in Nat /\ f \in Nat
      BY <1>0, FramesAre DEF LoopTypeOK
    <3>2. ~ (f < loopNextFrame)
      BY <1>1 DEF LoopInv, QueuedIsNext
    <3>. QED
      BY <3>1, <3>2
  <2>. QED
    BY <1>1, <1>2, <2>1 DEF LoopInv, QueuedIsNext
<1>11. SubmittedInOrder' /\ GpuIsSubmitted' /\ SlotsAreExclusive'
  BY <1>1 DEF LoopInv, SubmittedInOrder, GpuIsSubmitted, SlotsAreExclusive
<1>12. AtRest'
  BY <1>1 DEF LoopInv, AtRest
<1>. QED
  BY <1>5, <1>6, <1>7, <1>8, <1>9, <1>10, <1>11, <1>12 DEF LoopInv

-----------------------------------------------------------------------------
(* Frames are submitted and completed. *)

LEMMA RestLaw ==
  ASSUME LoopInv, submitted' = Rest, loopNextFrame' = loopNextFrame
  PROVE  SubmittedInOrder'
BY CompletingKeeps DEF SubmittedInOrder

(* CompletePending alone. *)
LEMMA CompletionKeeps ==
  ASSUME LoopInv, PumpWaits \/ PumpThrows \/ DrainWaits
  PROVE  LoopInv'
<1>0. LoopTypeOK
  BY DEF LoopInv
<1>1. /\ promise' = Kept /\ submitted' = Rest
      /\ UNCHANGED <<loopRun, frameVars, mainOpen, closing, queued, loopNextFrame, loopGpu>>
      /\ loopAt' \in {"step", "stop", "drain"} /\ loopAt \in {"pump", "drain"}
      /\ loopAt = "pump" => loopAt' # "drain"
      /\ loopAt = "drain" => loopAt' = "drain"
      /\ \/ presStopping' = presStopping /\ presFailure' = presFailure
         \/ presStopping' = TRUE /\ presFailure' = TRUE
  BY DEF PumpWaits, PumpThrows, DrainWaits
<1>2. LoopTypeOK'
  <2>1. /\ promise' \in [LoopFrame -> {"none", "pending", "kept", "failed"}]
        /\ submitted' \in Seq([frame : LoopFrame, fails : BOOLEAN])
    BY <1>0, <1>1, KeptIs, RestIs
  <2>2. loopAt' \in {"off", "events", "pump", "step", "frame", "stop", "join", "drain"}
    BY <1>1
  <2>3. presStopping' \in BOOLEAN /\ presFailure' \in BOOLEAN
    BY <1>0, <1>1 DEF LoopTypeOK
  <2>. QED
    BY <1>0, <1>1, <2>1, <2>2, <2>3 DEF LoopTypeOK, frameVars
<1>3. BegunInOrder' /\ SlotsInOrder'
  BY <1>1 DEF LoopInv, BegunInOrder, SlotsInOrder, frameVars
<1>4. HeldOnce' /\ PendingIsDrawn'
  BY <1>1, CompletingKeeps DEF LoopInv, HeldOnce, IsSubmitted, PendingIsDrawn, frameVars
<1>5. QueuedIsNext'
  BY <1>1 DEF LoopInv, QueuedIsNext, frameVars
<1>6. SubmittedInOrder'
  BY <1>1, RestLaw
<1>7. AtRest'
  BY <1>1 DEF LoopInv, AtRest, frameVars
<1>8. GpuIsSubmitted'
  <2>1. presFailure' => presStopping'
    <3>1. CASE presStopping' = presStopping /\ presFailure' = presFailure
      BY <3>1 DEF LoopInv, GpuIsSubmitted
    <3>2. CASE presStopping' = TRUE /\ presFailure' = TRUE
      BY <3>2
    <3>. QED
      BY <1>1, <3>1, <3>2
  <2>2. ASSUME ~ presFailure', NEW p \in loopGpu
        PROVE  p[1] = loopRun /\ \E j \in DOMAIN Rest : Rest[j].frame = p[2]
    <3>1. ~ presFailure
      BY <1>1, <2>2
    <3>2. p[1] = loopRun
      BY <2>2, <3>1 DEF LoopInv, GpuIsSubmitted
    <3>3. PICK i \in DOMAIN submitted : submitted[i].frame = p[2]
      BY <2>2, <3>1 DEF LoopInv, GpuIsSubmitted
    <3>4. p = <<p[1], p[2]>>
      BY <1>0, <2>2 DEF LoopTypeOK
    <3>5. OnGpu(submitted[i].frame)
      BY <2>2, <3>2, <3>3, <3>4 DEF OnGpu
    <3>6. \E j \in DOMAIN Rest : Rest[j].frame = submitted[i].frame
      BY <3>5, CompletingKeeps
    <3>. QED
      BY <3>2, <3>3, <3>6
  <2>. QED
    BY <1>1, <2>1, <2>2 DEF GpuIsSubmitted
<1>9. SlotsAreExclusive'
  BY <1>1 DEF LoopInv, SlotsAreExclusive
<1>. QED
  BY <1>2, <1>3, <1>4, <1>5, <1>6, <1>7, <1>8, <1>9 DEF LoopInv

LEMMA GpuDoneKeeps ==
  ASSUME LoopInv, NEW p \in loopGpu, GpuDone(p)
  PROVE  LoopInv'
<1>1. /\ loopGpu' = loopGpu \ {p}
      /\ UNCHANGED <<loopAt, loopRun, frameVars, mainOpen, closing, promise, presVars>>
  BY DEF GpuDone
<1>2. LoopTypeOK'
  BY <1>1 DEF LoopInv, LoopTypeOK, frameVars, presVars
<1>3. BegunInOrder' /\ SlotsInOrder' /\ HeldOnce' /\ PendingIsDrawn' /\ QueuedIsNext'
  BY <1>1 DEF LoopInv, BegunInOrder, SlotsInOrder, HeldOnce, IsSubmitted, PendingIsDrawn,
              QueuedIsNext, frameVars, presVars
<1>4. SubmittedInOrder' /\ AtRest'
  BY <1>1 DEF LoopInv, SubmittedInOrder, AtRest, frameVars, presVars
<1>5. GpuIsSubmitted' /\ SlotsAreExclusive'
  BY <1>1 DEF LoopInv, GpuIsSubmitted, SlotsAreExclusive, presVars
<1>. QED
  BY <1>2, <1>3, <1>4, <1>5 DEF LoopInv

LEMMA SubmitKeeps ==
  ASSUME LoopInv, NEW fails \in BOOLEAN, PumpSubmits(fails)
  PROVE  LoopInv'
<1>. DEFINE f == loopNextFrame
            e == [frame |-> f, fails |-> fails]
            m == Len(Rest)
<1>0. LoopTypeOK
  BY DEF LoopInv
<1>1. /\ loopAt = "pump" /\ ~ presStopping /\ f \in queued
      /\ promise' = Kept
      /\ submitted' = Append(Rest, e)
      /\ queued' = queued \ {f}
      /\ loopGpu' = loopGpu \cup {<<loopRun, f>>}
      /\ loopNextFrame' = f + 1
      /\ presStopping' = fails /\ presFailure' = fails
      /\ loopAt' \in {"stop", "step"}
      /\ UNCHANGED <<loopRun, frameVars, mainOpen, closing>>
  BY DEF PumpSubmits
<1>2. f \in LoopFrame /\ f \in Nat /\ stage[f] = "drawn" /\ promise[f] = "pending"
  <2>1. f \in LoopFrame
    BY <1>0, <1>1 DEF LoopTypeOK
  <2>2. promise[f] = "pending"
    BY <1>1, <2>1 DEF LoopInv, HeldOnce
  <2>. QED
    BY <2>1, <2>2, FramesAre DEF LoopInv, PendingIsDrawn
<1>3. /\ e \in [frame : LoopFrame, fails : BOOLEAN] /\ e.frame = f
  BY <1>2
<1>4. /\ Rest \in Seq([frame : LoopFrame, fails : BOOLEAN])
      /\ m \in Nat /\ DOMAIN Rest = 1 .. m
      /\ \A j \in DOMAIN Rest : Rest[j].frame \in LoopFrame
  <2>1. Rest \in Seq([frame : LoopFrame, fails : BOOLEAN])
    BY <1>0, RestIs
  <2>2. m \in Nat /\ DOMAIN Rest = 1 .. m
    BY <2>1, LenProperties
  <2>3. \A j \in DOMAIN Rest : Rest[j] \in [frame : LoopFrame, fails : BOOLEAN]
    BY <2>1, <2>2, ElementOfSeq
  <2>. QED
    BY <2>1, <2>2, <2>3
<1>5. /\ \A g \in LoopFrame :
           /\ Kept[g] = "pending" <=>
                g \in queued \/ \E i \in DOMAIN Rest : Rest[i].frame = g
           /\ ~ (g \in queued /\ \E i \in DOMAIN Rest : Rest[i].frame = g)
           /\ Kept[g] = "pending" => promise[g] = "pending"
      /\ \A i \in DOMAIN Rest : Rest[i].frame < f
      /\ \A i, j \in DOMAIN Rest : i < j => Rest[i].frame < Rest[j].frame
      /\ \A i \in DOMAIN submitted : OnGpu(submitted[i].frame) =>
           \E j \in DOMAIN Rest : Rest[j].frame = submitted[i].frame
  BY CompletingKeeps
<1>. HIDE DEF e, m
<1>6. /\ submitted' \in Seq([frame : LoopFrame, fails : BOOLEAN])
      /\ DOMAIN submitted' = 1 .. m + 1
      /\ submitted'[m + 1] = e
      /\ \A j \in 1 .. m : submitted'[j] = Rest[j]
  <2>1. /\ Append(Rest, e) \in Seq([frame : LoopFrame, fails : BOOLEAN])
        /\ Len(Append(Rest, e)) = m + 1
        /\ \A j \in 1 .. Len(Rest) : Append(Rest, e)[j] = Rest[j]
        /\ Append(Rest, e)[Len(Rest) + 1] = e
    BY <1>3, <1>4, AppendProperties DEF m
  <2>2. DOMAIN Append(Rest, e) = 1 .. m + 1
    BY <2>1, LenProperties
  <2>. QED
    BY <1>1, <2>1, <2>2 DEF m
<1>7. \A g : (\E i \in DOMAIN submitted' : submitted'[i].frame = g) <=>
               g = f \/ \E i \in DOMAIN Rest : Rest[i].frame = g
  <2>1. m + 1 \in DOMAIN submitted' /\ submitted'[m + 1].frame = f
    BY <1>3, <1>4, <1>6
  <2>2. \A i \in DOMAIN submitted' : i = m + 1 \/ i \in DOMAIN Rest
    BY <1>4, <1>6
  <2>3. \A i \in DOMAIN Rest : i \in DOMAIN submitted' /\ submitted'[i] = Rest[i]
    BY <1>4, <1>6
  <2>. QED
    BY <2>1, <2>2, <2>3
<1>8. LoopTypeOK'
  <2>1. promise' \in [LoopFrame -> {"none", "pending", "kept", "failed"}]
    BY <1>0, <1>1, KeptIs
  <2>2. loopRun \in 1 .. LoopRuns
    BY <1>0, <1>1, FramesAre DEF LoopInv, AtRest, LoopTypeOK
  <2>3. loopGpu' \subseteq (1 .. LoopRuns) \X LoopFrame
    BY <1>0, <1>1, <1>2, <2>2 DEF LoopTypeOK
  <2>4. loopAt' \in {"off", "events", "pump", "step", "frame", "stop", "join", "drain"}
    BY <1>1
  <2>5. queued' \subseteq LoopFrame /\ loopNextFrame' \in Nat
    BY <1>0, <1>1, <1>2 DEF LoopTypeOK
  <2>. QED
    BY <1>0, <1>1, <1>6, <2>1, <2>3, <2>4, <2>5 DEF LoopTypeOK, frameVars
<1>9. BegunInOrder' /\ SlotsInOrder'
  BY <1>1 DEF LoopInv, BegunInOrder, SlotsInOrder, frameVars
<1>10. HeldOnce'
  <2>1. \A g \in LoopFrame : g \in queued' <=> g \in queued /\ g # f
    BY <1>1
  <2>2. \A g \in LoopFrame : IsSubmitted(g)' <=>
                               g = f \/ \E i \in DOMAIN Rest : Rest[i].frame = g
    BY <1>7 DEF IsSubmitted
  <2>. HIDE DEF f
  <2>3. ASSUME NEW g \in LoopFrame
        PROVE  /\ promise'[g] = "pending" <=> g \in queued' \/ IsSubmitted(g)'
               /\ ~ (g \in queued' /\ IsSubmitted(g)')
    BY <1>1, <1>5, <2>1, <2>2
  <2>. QED
    BY <2>3 DEF HeldOnce
<1>11. PendingIsDrawn'
  BY <1>1, <1>5 DEF LoopInv, PendingIsDrawn, frameVars
<1>12. QueuedIsNext'
  <2>1. ASSUME NEW g \in queued'
        PROVE  g >= f + 1
    <3>1. g >= f /\ g # f /\ g \in Nat
      BY <1>0, <1>1, FramesAre DEF LoopInv, QueuedIsNext, LoopTypeOK
    <3>. QED
      BY <1>2, <3>1
  <2>2. ASSUME NEW g \in LoopFrame, g < f + 1
        PROVE  stage[g] \in {"drawn", "recycled"}
    <3>1. g < f \/ g = f
      BY <1>2, <2>2, FramesAre
    <3>. QED
      BY <1>2, <3>1 DEF LoopInv, QueuedIsNext
  <2>. QED
    BY <1>1, <2>1, <2>2 DEF QueuedIsNext, frameVars
<1>13. SubmittedInOrder'
  <2>1. \A i \in DOMAIN submitted' : i = m + 1 \/ (i \in 1 .. m /\ i < m + 1)
    BY <1>4, <1>6
  <2>2. ASSUME NEW i \in DOMAIN submitted'
        PROVE  submitted'[i].frame < f + 1
    <3>1. CASE i = m + 1
      BY <1>2, <1>3, <1>6, <3>1
    <3>2. CASE i \in 1 .. m
      <4>1. submitted'[i].frame < f /\ submitted'[i].frame \in Nat
        BY <1>4, <1>5, <1>6, <3>2, FramesAre
      <4>. QED
        BY <1>2, <4>1
    <3>. QED
      BY <2>1, <3>1, <3>2
  <2>3. ASSUME NEW i \in DOMAIN submitted', NEW j \in DOMAIN submitted', i < j
        PROVE  submitted'[i].frame < submitted'[j].frame
    <3>1. i \in 1 .. m
      BY <1>4, <1>6, <2>3
    <3>2. CASE j = m + 1
      BY <1>3, <1>4, <1>5, <1>6, <3>1, <3>2
    <3>3. CASE j \in 1 .. m
      BY <1>4, <1>5, <1>6, <2>3, <3>1, <3>3
    <3>. QED
      BY <2>1, <3>2, <3>3
  <2>. QED
    BY <1>1, <2>2, <2>3 DEF SubmittedInOrder
<1>14. AtRest'
  BY <1>1 DEF LoopInv, AtRest, frameVars
<1>15. ~ presFailure /\ \A p \in loopGpu : p[1] = loopRun /\ \E j \in DOMAIN Rest : Rest[j].frame = p[2]
  <2>1. ~ presFailure
    BY <1>1 DEF LoopInv, GpuIsSubmitted
  <2>2. ASSUME NEW p \in loopGpu
        PROVE  p[1] = loopRun /\ \E j \in DOMAIN Rest : Rest[j].frame = p[2]
    <3>1. p[1] = loopRun
      BY <2>1 DEF LoopInv, GpuIsSubmitted
    <3>2. PICK i \in DOMAIN submitted : submitted[i].frame = p[2]
      BY <2>1 DEF LoopInv, GpuIsSubmitted
    <3>3. p = <<p[1], p[2]>>
      BY <1>0 DEF LoopTypeOK
    <3>4. OnGpu(submitted[i].frame)
      BY <3>1, <3>2, <3>3 DEF OnGpu
    <3>. QED
      BY <1>5, <3>1, <3>2, <3>4
  <2>. QED
    BY <2>1, <2>2
<1>16. GpuIsSubmitted'
  <2>1. ASSUME NEW p \in loopGpu'
        PROVE  p[1] = loopRun /\ \E i \in DOMAIN submitted' : submitted'[i].frame = p[2]
    <3>1. CASE p \in loopGpu
      BY <1>7, <1>15, <3>1
    <3>2. CASE p = <<loopRun, f>>
      BY <1>7, <3>2
    <3>. QED
      BY <1>1, <3>1, <3>2
  <2>. QED
    BY <1>1, <2>1 DEF GpuIsSubmitted
<1>17. SlotsAreExclusive'
  <2>1. ASSUME NEW p \in loopGpu, p # <<loopRun, f>>
        PROVE  LoopSlotOf(p[2]) # LoopSlotOf(f)
    <3>1. PICK j \in DOMAIN Rest : Rest[j].frame = p[2]
      BY <1>15
    <3>2. p[2] \in LoopFrame /\ p[2] < f
      BY <1>4, <1>5, <3>1
    <3>3. promise[p[2]] = "pending"
      BY <1>5, <3>1, <3>2
    <3>4. stage[p[2]] = "drawn"
      BY <3>2, <3>3 DEF LoopInv, PendingIsDrawn
    <3>. QED
      BY <1>2, <3>2, <3>4 DEF LoopInv, SlotsInOrder
  <2>2. ASSUME NEW p \in loopGpu', NEW q \in loopGpu', p # q
        PROVE  LoopSlotOf(p[2]) # LoopSlotOf(q[2])
    <3>1. CASE p \in loopGpu /\ q \in loopGpu
      BY <2>2, <3>1 DEF LoopInv, SlotsAreExclusive
    <3>2. CASE p \in loopGpu /\ q = <<loopRun, f>>
      BY <2>1, <2>2, <3>2
    <3>3. CASE p = <<loopRun, f>> /\ q \in loopGpu
      BY <2>1, <2>2, <3>3
    <3>. QED
      BY <1>1, <2>2, <3>1, <3>2, <3>3
  <2>. QED
    BY <2>2 DEF SlotsAreExclusive
<1>. QED
  BY <1>8, <1>9, <1>10, <1>11, <1>12, <1>13, <1>14, <1>16, <1>17 DEF LoopInv

-----------------------------------------------------------------------------
(* The end of a run. *)

LEMMA DrainKeeps ==
  ASSUME LoopInv, LoopDrain
  PROVE  LoopInv'
<1>0. LoopTypeOK
  BY DEF LoopInv
<1>1. /\ \A f \in LoopFrame : stage[f] # "drawAsked"
      /\ presStopping' = TRUE
      /\ promise' = [f \in LoopFrame |-> IF f \in queued THEN "kept" ELSE promise[f]]
      /\ queued' = {} /\ loopAt' = "drain" /\ loopAt = "join"
      /\ UNCHANGED <<loopRun, frameVars, mainOpen, closing, submitted, loopNextFrame,
                     presFailure, loopGpu>>
  BY DEF LoopDrain
<1>2. promise' \in [LoopFrame -> {"none", "pending", "kept", "failed"}]
  BY <1>0, <1>1 DEF LoopTypeOK
<1>3. LoopTypeOK'
  BY <1>0, <1>1, <1>2 DEF LoopTypeOK, frameVars
<1>4. BegunInOrder' /\ SlotsInOrder'
  BY <1>1 DEF LoopInv, BegunInOrder, SlotsInOrder, frameVars
<1>5. HeldOnce'
  <2>1. \A f \in LoopFrame : IsSubmitted(f)' <=> IsSubmitted(f)
    BY <1>1 DEF IsSubmitted
  <2>. QED
    BY <1>1, <2>1 DEF LoopInv, HeldOnce
<1>6. PendingIsDrawn' /\ QueuedIsNext'
  BY <1>1 DEF LoopInv, PendingIsDrawn, QueuedIsNext, frameVars
<1>7. SubmittedInOrder' /\ AtRest'
  BY <1>1 DEF LoopInv, SubmittedInOrder, AtRest, frameVars
<1>8. GpuIsSubmitted' /\ SlotsAreExclusive'
  BY <1>1 DEF LoopInv, GpuIsSubmitted, SlotsAreExclusive
<1>. QED
  BY <1>3, <1>4, <1>5, <1>6, <1>7, <1>8 DEF LoopInv

LEMMA DrainFailsKeeps ==
  ASSUME LoopInv, DrainFails
  PROVE  LoopInv'
<1>0. LoopTypeOK
  BY DEF LoopInv
<1>1. /\ promise' = [f \in LoopFrame |->
                      IF \E i \in DOMAIN submitted : submitted[i].frame = f
                      THEN "failed" ELSE promise[f]]
      /\ submitted' = <<>> /\ presFailure' = TRUE /\ loopAt = "drain"
      /\ UNCHANGED <<loopAt, loopRun, frameVars, mainOpen, closing, queued,
                     loopNextFrame, presStopping, loopGpu>>
  BY DEF DrainFails
<1>2. /\ submitted' \in Seq([frame : LoopFrame, fails : BOOLEAN])
      /\ DOMAIN submitted' = {}
  BY <1>1, EmptySeq
<1>3. promise' \in [LoopFrame -> {"none", "pending", "kept", "failed"}]
  BY <1>0, <1>1 DEF LoopTypeOK
<1>4. LoopTypeOK'
  BY <1>0, <1>1, <1>2, <1>3 DEF LoopTypeOK, frameVars
<1>5. BegunInOrder' /\ SlotsInOrder'
  BY <1>1 DEF LoopInv, BegunInOrder, SlotsInOrder, frameVars
<1>6. HeldOnce'
  <2>1. \A f \in LoopFrame : ~ IsSubmitted(f)'
    BY <1>2 DEF IsSubmitted
  <2>2. \A f \in LoopFrame : promise'[f] = IF IsSubmitted(f) THEN "failed" ELSE promise[f]
    BY <1>1 DEF IsSubmitted
  <2>. QED
    BY <1>1, <2>1, <2>2 DEF LoopInv, HeldOnce
<1>7. PendingIsDrawn' /\ QueuedIsNext'
  BY <1>1 DEF LoopInv, PendingIsDrawn, QueuedIsNext, frameVars
<1>8. SubmittedInOrder' /\ AtRest'
  BY <1>1, <1>2 DEF LoopInv, SubmittedInOrder, AtRest, frameVars
<1>9. presStopping
  BY <1>1 DEF LoopInv, AtRest
<1>10. GpuIsSubmitted' /\ SlotsAreExclusive'
  BY <1>1, <1>9 DEF LoopInv, GpuIsSubmitted, SlotsAreExclusive
<1>. QED
  BY <1>4, <1>5, <1>6, <1>7, <1>8, <1>10 DEF LoopInv

-----------------------------------------------------------------------------
(* All steps. *)

LEMMA LoopStepKeeps ==
  ASSUME LoopInv, [LoopNext]_loopVars
  PROVE  LoopInv'
<1>1. CASE UNCHANGED loopVars
  <2>1. UNCHANGED <<loopAt, loopRun, frameVars, mainOpen, closing, promise, presVars, loopGpu>>
    BY <1>1 DEF loopVars
  <2>2. LoopTypeOK' /\ AtRest' /\ StageAdvances
    BY <2>1 DEF LoopInv, LoopTypeOK, AtRest, StageAdvances, frameVars, presVars
  <2>. QED
    BY <2>1, <2>2, QuietStep
<1>2. CASE LoopNext
  <2>1. CASE LoopMain
    BY <2>1, EventsKeeps, CompletionKeeps, SubmitKeeps, StillKeeps, SkipKeeps, BeginsKeeps,
       StepDrawKeeps, DrainKeeps DEF LoopMain
  <2>2. CASE LoopFails
    BY <2>2, CompletionKeeps, BeginsKeeps, StillKeeps, DrainFailsKeeps DEF LoopFails
  <2>3. CASE LoopWorker
    BY <2>3, WorkerKeeps, PresentKeeps DEF LoopWorker
  <2>4. CASE LoopGpu
    BY <2>4, GpuDoneKeeps DEF LoopGpu
  <2>5. CASE LoopStart \/ LoopEvents(TRUE) \/ StepDrain(TRUE)
    BY <2>5, StartKeeps, EventsKeeps, SkipKeeps
  <2>6. CASE \E f \in LoopFrame : Ask(f)
    BY <2>6, WorkerKeeps
  <2>. QED
    BY <1>2, <2>1, <2>2, <2>3, <2>4, <2>5, <2>6 DEF LoopNext
<1>. QED
  BY <1>1, <1>2

LEMMA HeldIsHeld ==
  ASSUME LoopInv
  PROVE  PromisesAreHeld
<1>1. ASSUME NEW f \in LoopFrame
      PROVE  promise[f] = "pending" <=>
               (f \in queued) # (\E i \in DOMAIN submitted : submitted[i].frame = f)
  <2>1. /\ promise[f] = "pending" <=>
             f \in queued \/ \E i \in DOMAIN submitted : submitted[i].frame = f
        /\ ~ (f \in queued /\ \E i \in DOMAIN submitted : submitted[i].frame = f)
    BY DEF LoopInv, HeldOnce, IsSubmitted
  <2>2. CASE f \in queued
    <3>1. (f \in queued) = TRUE
      BY <2>2
    <3>2. (\E i \in DOMAIN submitted : submitted[i].frame = f) = FALSE
      BY <2>1, <2>2
    <3>. QED
      BY <2>1, <2>2, <3>1, <3>2
  <2>3. CASE f \notin queued
    <3>1. (f \in queued) = FALSE
      BY <2>3
    <3>2. CASE \E i \in DOMAIN submitted : submitted[i].frame = f
      <4>1. (\E i \in DOMAIN submitted : submitted[i].frame = f) = TRUE
        BY <3>2
      <4>. QED
        BY <2>1, <3>1, <3>2, <4>1
    <3>3. CASE ~ \E i \in DOMAIN submitted : submitted[i].frame = f
      <4>1. (\E i \in DOMAIN submitted : submitted[i].frame = f) = FALSE
        BY <3>3
      <4>. QED
        BY <2>1, <2>3, <3>1, <3>3, <4>1
    <3>. QED
      BY <3>2, <3>3
  <2>. QED
    BY <2>2, <2>3
<1>. QED
  BY <1>1 DEF PromisesAreHeld

(* However runs end and whenever the GPU answers, no two frames of one slot
   are on the GPU and every pending promise has one keeper: frame_loop.cpp and
   presentation_runtime.cpp, for every number of slots, frames and runs. *)
THEOREM LoopSafe == LoopSpec => []LoopIsSafe
<1>1. LoopInit => LoopInv
  BY InitKeeps
<1>2. LoopInv /\ [LoopNext]_loopVars => LoopInv'
  BY LoopStepKeeps
<1>3. LoopInv => LoopIsSafe
  BY HeldIsHeld DEF LoopIsSafe, LoopInv
<1>. QED
  BY <1>1, <1>2, <1>3, PTL DEF LoopSpec

(***************************************************************************)
(* The runs of a World's systems.                                           *)
(***************************************************************************)

Count == Cardinality(Systems)
AtWork == {"open", "commit", "release"}
SystemStates == {"unpublished", "queued", "running", "ended", "failed", "cancelled"}

RunRecord ==
  [started : BOOLEAN, publishing : BOOLEAN, sealed : BOOLEAN, published : 0 .. Count,
   cancelled : BOOLEAN, failed : BOOLEAN, publicationError : BOOLEAN, outstanding : Nat,
   stage : AtWork \cup {"outcome", "callback", "over"},
   result : {"none", "COMPLETED", "FAILED", "CANCELLED"},
   outcome : {"none", "COMPLETED", "FAILED", "CANCELLED"},
   systems : [Systems -> SystemStates],
   errors : SUBSET Systems, invoked : SUBSET Systems,
   tickets : [Systems -> 0 .. MaxTickets],
   deferred : SUBSET Systems, applied : SUBSET Systems, calls : Nat]

(* The publisher, or the coordinator on its behalf, is a participant of the run
   until it has retired. *)
Holds(r) == ~ r.started \/ r.publishing \/ (HasCoordinator /\ r.sealed)
Working(r) ==
  IF HasCoordinator THEN {} ELSE {s \in Systems : r.systems[s] \in {"queued", "running"}}
Buffers(r) == {x \in Systems \X (1 .. MaxTickets) : x[2] <= r.tickets[x[1]]}

(* The counter is the number of participants, and the last of them takes the
   run on. *)
ParticipantsCounted(r) ==
  /\ r.outstanding = (IF Holds(r) THEN 1 ELSE 0) + Cardinality(Working(r))
                     + Cardinality(Buffers(r))
  /\ r.stage = "open" <=> r.outstanding # 0

(* Only a coordinator has operations that fail, only a failed one cancels
   others, and the run learns of it when the coordinator retires at the latest. *)
FailuresSound(r) ==
  /\ ~ HasCoordinator => \A s \in Systems : r.systems[s] \notin {"failed", "cancelled"}
  /\ (\E s \in Systems : r.systems[s] = "cancelled") => HasFailure(r)
  /\ HasFailure(r) /\ ~ Holds(r) => r.publicationError

(* Systems are published in order, all of them unless the run stopped, and a
   coordinator that retired has none left. *)
PublicationSound(r) ==
  /\ FailuresSound(r)
  /\ r.publishing => r.started
  /\ r.sealed => r.started /\ ~ r.publishing
  /\ HasCoordinator /\ ~ Holds(r) => \A s \in Systems : r.systems[s] \in Over
  /\ r.stage \in AtWork /\ r.started /\ ~ r.publishing /\ ~ Stopped(r) => r.published = Count
  /\ \A i \in 1 .. Count : r.systems[Order[i]] = "unpublished" <=> i > r.published

(* A system that was entered came after those it had to wait for. *)
SystemsInOrder(r) ==
  \A s \in Systems :
    /\ r.systems[s] \in {"running", "ended"} =>
         \A p \in Dependencies(s) \cup HeldBy(s) : r.systems[p] = "ended"
    /\ r.systems[s] = "running" => s \in r.invoked
    /\ r.systems[s] = "ended" => s \in r.invoked \/ Stopped(r)

OutcomeSound(r, c) ==
  /\ r.stage = "release" =>
       /\ r.result = "COMPLETED" => r.invoked = Systems /\ r.errors = {} /\ r.applied = r.deferred
       /\ r.errors # {} \/ HasFailure(r) => r.result = "FAILED"
       /\ r.applied # {} => r.result = "COMPLETED" \/ c
  /\ r.outcome = IF r.stage \in {"callback", "over"} THEN r.result ELSE "none"

RunSound(r) == ParticipantsCounted(r) /\ PublicationSound(r) /\ SystemsInOrder(r)

OpenRuns == {k \in DOMAIN runs : runs[k].stage \in AtWork}

(* The guard is held by the run that works on the World. *)
GuardSound == IF guard THEN \E k \in DOMAIN runs : OpenRuns = {k} ELSE OpenRuns = {}

(* What is written is reported, or will be when its run ends. *)
WritesSound ==
  HasCoordinator => \A c \in written :
    \/ c \in dirty
    \/ \E k \in DOMAIN runs : runs[k].stage \in {"open", "commit"} /\ c \in DirtyOf(runs[k])

RunsInv ==
  /\ scoped \in Layouts /\ guard \in BOOLEAN /\ closed \in BOOLEAN
  /\ runs \in Seq(RunRecord)
  /\ \A k \in DOMAIN runs : RunSound(runs[k]) /\ OutcomeSound(runs[k], closed)
  /\ GuardSound /\ WritesSound

-----------------------------------------------------------------------------
(* The order of the systems. *)

LEMMA OrderIs ==
  /\ Count \in Nat
  /\ Order \in [1 .. Count -> Systems] /\ Len(Order) = Count
  /\ \A i, j \in 1 .. Count : Order[i] = Order[j] => i = j
  /\ \A s \in Systems : Position(s) \in 1 .. Count /\ Order[Position(s)] = s
<1>1. IsFiniteSet(Systems) /\ Count \in Nat
  BY SystemRunsAssumption, FS_CardinalityType DEF Count
<1>2. Order \in [1 .. Count -> Systems] /\ IsOrder(Order)
  <2>1. Order \in Orders
    BY ScheduleAssumption DEF Order
  <2>. QED
    BY <2>1 DEF Orders, Count
<1>3. Len(Order) = Count
  BY <1>1, <1>2
<1>4. ASSUME NEW i \in 1 .. Count, NEW j \in 1 .. Count, i < j
      PROVE  Order[i] # Order[j]
  <2>1. Order[j] \notin {Order[k] : k \in 1 .. j - 1}
    BY <1>2 DEF IsOrder, Count
  <2>2. i \in 1 .. j - 1
    BY <1>1, <1>4
  <2>. QED
    BY <2>1, <2>2
<1>5. \A i, j \in 1 .. Count : Order[i] = Order[j] => i = j
  <2>1. SUFFICES ASSUME NEW i \in 1 .. Count, NEW j \in 1 .. Count, Order[i] = Order[j], i # j
                 PROVE  FALSE
    OBVIOUS
  <2>2. i < j \/ j < i
    BY <1>1, <2>1
  <2>. QED
    BY <1>4, <2>1, <2>2
<1>6. ASSUME NEW s \in Systems
      PROVE  \E i \in 1 .. Count : Order[i] = s
  <2>1. Order \in Injection(1 .. Count, Systems)
    BY <1>2, <1>5 DEF Injection, IsInjective
  <2>2. Cardinality(1 .. Count) = Cardinality(Systems)
    <3>1. 1 \in Int /\ Count \in Int
      BY <1>1
    <3>2. Cardinality(1 .. Count) = IF 1 > Count THEN 0 ELSE Count - 1 + 1
      BY <3>1, FS_Interval
    <3>. QED
      BY <1>1, <3>2 DEF Count
  <2>3. Order \in Surjection(1 .. Count, Systems)
    BY <1>1, <2>1, <2>2, FS_Injection
  <2>. QED
    BY <2>3 DEF Surjection
<1>7. ASSUME NEW s \in Systems
      PROVE  Position(s) \in 1 .. Count /\ Order[Position(s)] = s
  BY <1>3, <1>6 DEF Position
<1>. QED
  BY <1>1, <1>2, <1>3, <1>5, <1>7

(* The participants of a run are finitely many. *)
LEMMA ParticipantsAre ==
  ASSUME NEW r \in RunRecord
  PROVE  /\ IsFiniteSet(Working(r)) /\ Cardinality(Working(r)) \in Nat
         /\ Cardinality(Working(r)) = 0 <=> Working(r) = {}
         /\ IsFiniteSet(Buffers(r)) /\ Cardinality(Buffers(r)) \in Nat
         /\ Cardinality(Buffers(r)) = 0 <=> Buffers(r) = {}
<1>1. IsFiniteSet(Systems)
  BY SystemRunsAssumption
<1>2. Working(r) \in SUBSET Systems
  BY DEF Working
<1>3. IsFiniteSet(Working(r))
  BY <1>1, <1>2, FS_Subset
<1>4. IsFiniteSet(1 .. MaxTickets)
  <2>1. 1 \in Int /\ MaxTickets \in Int
    BY SystemRunsAssumption
  <2>. QED
    BY <2>1, FS_Interval
<1>5. IsFiniteSet(Systems \X (1 .. MaxTickets))
  BY <1>1, <1>4, FS_Product
<1>6. Buffers(r) \in SUBSET (Systems \X (1 .. MaxTickets))
  BY DEF Buffers
<1>7. IsFiniteSet(Buffers(r))
  BY <1>5, <1>6, FS_Subset
<1>. QED
  BY <1>3, <1>7, FS_CardinalityType, FS_EmptySet

LEMMA FieldsOf ==
  ASSUME NEW r \in RunRecord
  PROVE  /\ r.started \in BOOLEAN /\ r.publishing \in BOOLEAN /\ r.sealed \in BOOLEAN
         /\ r.published \in 0 .. Count
         /\ r.cancelled \in BOOLEAN /\ r.failed \in BOOLEAN /\ r.publicationError \in BOOLEAN
         /\ r.outstanding \in Nat
         /\ r.stage \in AtWork \cup {"outcome", "callback", "over"}
         /\ r.systems \in [Systems -> SystemStates]
         /\ r.errors \in SUBSET Systems /\ r.invoked \in SUBSET Systems
         /\ r.tickets \in [Systems -> 0 .. MaxTickets]
         /\ r.deferred \in SUBSET Systems /\ r.applied \in SUBSET Systems
BY DEF RunRecord

(* What a step leaves alone. *)
SameStop(q, r) ==
  /\ q.cancelled = r.cancelled /\ q.failed = r.failed
  /\ q.publicationError = r.publicationError
SamePublication(q, r) ==
  /\ q.started = r.started /\ q.publishing = r.publishing /\ q.sealed = r.sealed
  /\ q.published = r.published
SameSystems(q, r) == q.systems = r.systems /\ q.invoked = r.invoked
SameCount(q, r) == q.tickets = r.tickets /\ q.outstanding = r.outstanding /\ q.stage = r.stage
SameOutcome(q, r) ==
  /\ q.errors = r.errors /\ q.deferred = r.deferred /\ q.applied = r.applied
  /\ q.result = r.result /\ q.outcome = r.outcome

(* Retired takes one participant off. *)
Counts(r, n) ==
  r.outstanding = n + (IF Holds(r) THEN 1 ELSE 0) + Cardinality(Working(r))
                    + Cardinality(Buffers(r))

LEMMA RetiredIs ==
  ASSUME NEW r \in RunRecord, r.outstanding # 0
  PROVE  LET q == Retired(r) IN
         /\ q \in RunRecord
         /\ q.outstanding = r.outstanding - 1 /\ q.tickets = r.tickets
         /\ q.stage = IF r.outstanding = 1 THEN "commit" ELSE r.stage
         /\ SameStop(q, r) /\ SamePublication(q, r) /\ SameSystems(q, r) /\ SameOutcome(q, r)
<1>. DEFINE q == Retired(r)
<1>1. r.outstanding - 1 \in Nat
  BY FieldsOf
<1>2. r.stage \in AtWork \cup {"outcome", "callback", "over"} /\ "commit" \in AtWork
  BY FieldsOf DEF AtWork
<1>3. q \in RunRecord
  BY <1>1, <1>2 DEF RunRecord, Retired
<1>4. /\ q.outstanding = r.outstanding - 1 /\ q.tickets = r.tickets
      /\ q.stage = IF r.outstanding = 1 THEN "commit" ELSE r.stage
  BY DEF RunRecord, Retired
<1>5. SameStop(q, r) /\ SamePublication(q, r)
  BY DEF RunRecord, Retired, SameStop, SamePublication
<1>6. SameSystems(q, r) /\ SameOutcome(q, r)
  BY DEF RunRecord, Retired, SameSystems, SameOutcome
<1>. QED
  BY <1>3, <1>4, <1>5, <1>6

LEMMA RetiredCounts ==
  ASSUME NEW r \in RunRecord, Counts(r, 1), r.stage = "open"
  PROVE  /\ r.outstanding # 0
         /\ ParticipantsCounted(Retired(r))
<1>1. r.outstanding \in Nat \ {0} /\ r.outstanding - 1 \in Nat
  BY ParticipantsAre, FieldsOf DEF Counts
<1>. DEFINE q == Retired(r)
<1>2. /\ q \in RunRecord
      /\ q.outstanding = r.outstanding - 1 /\ q.tickets = r.tickets
      /\ q.stage = IF r.outstanding = 1 THEN "commit" ELSE r.stage
      /\ SameStop(q, r) /\ SamePublication(q, r) /\ SameSystems(q, r) /\ SameOutcome(q, r)
  BY <1>1, RetiredIs
<1>. HIDE DEF q
<1>3. Holds(q) <=> Holds(r)
  BY <1>2 DEF Holds, SamePublication
<1>4. Working(q) = Working(r) /\ Buffers(q) = Buffers(r)
  BY <1>2 DEF Working, Buffers, SameSystems
<1>5. q.outstanding = (IF Holds(q) THEN 1 ELSE 0) + Cardinality(Working(q))
                     + Cardinality(Buffers(q))
  BY <1>2, <1>3, <1>4, ParticipantsAre DEF Counts
<1>6. q.stage = "open" <=> q.outstanding # 0
  BY <1>1, <1>2
<1>. QED
  BY <1>1, <1>5, <1>6 DEF ParticipantsCounted, q

(* A step of one run. *)
LEMMA GuardStays ==
  ASSUME RunsInv, NEW k \in DOMAIN runs, NEW q, Becomes(k, q), guard' = guard,
         q.stage \in AtWork <=> runs[k].stage \in AtWork
  PROVE  GuardSound'
<1>1. DOMAIN runs' = DOMAIN runs /\ \A j \in DOMAIN runs : runs'[j] = IF j = k THEN q ELSE runs[j]
  BY DEF Becomes
<1>2. OpenRuns' = OpenRuns
  BY <1>1 DEF OpenRuns
<1>. QED
  BY <1>1, <1>2 DEF RunsInv, GuardSound

LEMMA WritesStay ==
  ASSUME RunsInv, NEW k \in DOMAIN runs, NEW q, Becomes(k, q), dirty' = dirty,
         runs[k].stage \in {"open", "commit"} =>
            q.stage \in {"open", "commit"} /\ runs[k].invoked \subseteq q.invoked,
         HasCoordinator => \A c \in written' :
            c \in written \/ (q.stage \in {"open", "commit"} /\ c \in DirtyOf(q))
  PROVE  WritesSound'
<1>1. /\ DOMAIN runs' = DOMAIN runs /\ scoped' = scoped
      /\ \A j \in DOMAIN runs : runs'[j] = IF j = k THEN q ELSE runs[j]
  BY DEF Becomes
<1>2. HasCoordinator' <=> HasCoordinator
  BY <1>1 DEF HasCoordinator
<1>3. \A x : DirtyOf(x)' = DirtyOf(x)
  BY <1>1 DEF DirtyOf, HasCoordinator, IsExclusive
<1>4. SUFFICES ASSUME HasCoordinator, NEW c \in written', c \notin dirty
               PROVE  \E j \in DOMAIN runs : /\ runs'[j].stage \in {"open", "commit"}
                                             /\ c \in DirtyOf(runs'[j])
  <2>1. \A j \in DOMAIN runs : DirtyOf(runs[j])' = DirtyOf(runs'[j])
    BY <1>1 DEF DirtyOf, HasCoordinator, IsExclusive
  <2>. QED
    BY <1>1, <1>2, <2>1 DEF WritesSound
<1>5. CASE c \in written
  <2>1. PICK j \in DOMAIN runs : runs[j].stage \in {"open", "commit"} /\ c \in DirtyOf(runs[j])
    BY <1>4, <1>5 DEF RunsInv, WritesSound
  <2>2. CASE j # k
    BY <1>1, <2>1, <2>2
  <2>3. CASE j = k
    <3>1. c \in DirtyOf(q)
      BY <2>1, <2>3 DEF DirtyOf
    <3>. QED
      BY <1>1, <2>1, <2>3, <3>1
  <2>. QED
    BY <2>2, <2>3
<1>6. CASE c \notin written
  BY <1>1, <1>4, <1>6
<1>. QED
  BY <1>5, <1>6

LEMMA OutcomeLasts ==
  ASSUME NEW r, NEW c, NEW d, c => d, OutcomeSound(r, c)
  PROVE  OutcomeSound(r, d)
BY DEF OutcomeSound

(* What holds of a run's next record holds of the run in the next state. *)
LEMMA RecordLasts ==
  ASSUME scoped' = scoped, NEW j, RunSound(runs'[j]), OutcomeSound(runs'[j], closed')
  PROVE  RunSound(runs[j])' /\ OutcomeSound(runs[j], closed)'
<1>. DEFINE e == runs'[j]
<1>1. RunSound(e) /\ OutcomeSound(e, closed')
  OBVIOUS
<1>. HIDE DEF e
<1>2. OutcomeSound(runs[j], closed)'
  BY <1>1 DEF OutcomeSound, HasFailure, e
<1>3. ParticipantsCounted(runs[j])'
  BY <1>1 DEF e, RunSound, ParticipantsCounted, Holds, Working, Buffers, HasCoordinator
<1>4. PublicationSound(runs[j])'
  BY <1>1 DEF e, RunSound, PublicationSound, FailuresSound, HasFailure, Holds, Stopped, HasCoordinator
<1>5. SystemsInOrder(runs[j])'
  BY <1>1 DEF e, RunSound, SystemsInOrder, Dependencies, HeldBy, FootprintsOverlap, IsExclusive,
              Stopped, HasCoordinator
<1>. QED
  BY <1>2, <1>3, <1>4, <1>5 DEF RunSound

(* A step that leaves the World's other state alone. *)
LEMMA RunMoves ==
  ASSUME RunsInv, NEW k \in DOMAIN runs, NEW q \in RunRecord, Becomes(k, q),
         RunSound(q), OutcomeSound(q, closed'), closed' \in BOOLEAN, closed => closed',
         guard' \in BOOLEAN, GuardSound', WritesSound'
  PROVE  RunsInv'
<1>1. /\ DOMAIN runs' = DOMAIN runs /\ scoped' = scoped
      /\ \A j \in DOMAIN runs : runs'[j] = IF j = k THEN q ELSE runs[j]
  BY DEF Becomes
<1>2. runs' \in Seq(RunRecord)
  <2>1. runs \in Seq(RunRecord)
    BY DEF RunsInv
  <2>2. k \in 1 .. Len(runs)
    BY <2>1, LenProperties
  <2>. QED
    BY <2>1, <2>2, ExceptSeq DEF Becomes
<1>3. ASSUME NEW j \in DOMAIN runs
      PROVE  RunSound(runs'[j]) /\ OutcomeSound(runs'[j], closed')
  <2>1. CASE j = k
    BY <1>1, <2>1
  <2>2. CASE j # k
    BY <1>1, <2>2, OutcomeLasts DEF RunsInv
  <2>. QED
    BY <2>1, <2>2
<1>4. ASSUME NEW j \in DOMAIN runs'
      PROVE  RunSound(runs[j])' /\ OutcomeSound(runs[j], closed)'
  BY <1>1, <1>3, RecordLasts
<1>. QED
  BY <1>1, <1>2, <1>4 DEF RunsInv

LEMMA RunsAre ==
  ASSUME RunsInv, NEW k \in DOMAIN runs
  PROVE  /\ runs[k] \in RunRecord
         /\ ParticipantsCounted(runs[k]) /\ PublicationSound(runs[k])
         /\ SystemsInOrder(runs[k]) /\ OutcomeSound(runs[k], closed)
<1>1. runs \in Seq(RunRecord)
  BY DEF RunsInv
<1>2. runs[k] \in RunRecord
  BY <1>1, LenProperties, ElementOfSeq
<1>. QED
  BY <1>2 DEF RunsInv, RunSound

(* Most steps change one run, leave it at work or not, and take nothing back. *)
LEMMA QuietMove ==
  ASSUME RunsInv, NEW k \in DOMAIN runs, NEW q \in RunRecord, Becomes(k, q),
         ParticipantsCounted(q), PublicationSound(q), SystemsInOrder(q),
         OutcomeSound(q, closed'), closed' \in BOOLEAN, closed => closed',
         UNCHANGED <<guard, dirty, written>>,
         q.stage = runs[k].stage \/ (runs[k].stage = "open" /\ q.stage = "commit"),
         runs[k].invoked \subseteq q.invoked
  PROVE  RunsInv'
<1>1. GuardSound'
  BY GuardStays DEF AtWork
<1>2. WritesSound'
  BY WritesStay
<1>. QED
  BY <1>1, <1>2, RunMoves DEF RunSound, RunsInv

-----------------------------------------------------------------------------
(* The owner of a run. *)

LEMMA CancelMoves ==
  ASSUME RunsInv, NEW k \in DOMAIN runs, RequestCancel(k) \/ PublishFails(k)
  PROVE  RunsInv'
<1>. DEFINE r == runs[k]
<1>1. /\ r \in RunRecord /\ ParticipantsCounted(r) /\ PublicationSound(r)
      /\ SystemsInOrder(r) /\ OutcomeSound(r, closed)
  BY RunsAre
<1>2. PICK q : /\ Becomes(k, q) /\ UNCHANGED <<guard, closed, dirty, written>>
               /\ \/ q = [r EXCEPT !.cancelled = TRUE]
                  \/ q = [r EXCEPT !.publicationError = TRUE, !.failed = TRUE]
  BY DEF RequestCancel, PublishFails
<1>. HIDE DEF r
<1>3. /\ q \in RunRecord /\ SamePublication(q, r) /\ SameSystems(q, r) /\ SameCount(q, r)
      /\ SameOutcome(q, r) /\ Stopped(q) /\ (r.publicationError => q.publicationError)
  <2>1. CASE q = [r EXCEPT !.cancelled = TRUE]
    BY <1>1, <2>1 DEF RunRecord, SamePublication, SameSystems, SameCount, SameOutcome, Stopped
  <2>2. CASE q = [r EXCEPT !.publicationError = TRUE, !.failed = TRUE]
    BY <1>1, <2>2 DEF RunRecord, SamePublication, SameSystems, SameCount, SameOutcome, Stopped
  <2>. QED
    BY <1>2, <2>1, <2>2
<1>4. ParticipantsCounted(q)
  BY <1>1, <1>3 DEF ParticipantsCounted, Holds, Working, Buffers, SamePublication, SameSystems,
                    SameCount
<1>5. PublicationSound(q)
  BY <1>1, <1>3 DEF PublicationSound, FailuresSound, HasFailure, Holds, SamePublication,
                    SameSystems, SameCount
<1>6. SystemsInOrder(q)
  BY <1>1, <1>3 DEF SystemsInOrder, SameSystems
<1>7. OutcomeSound(q, closed')
  BY <1>1, <1>2, <1>3 DEF OutcomeSound, HasFailure, SameCount, SameOutcome, SameSystems
<1>. QED
  BY <1>2, <1>3, <1>4, <1>5, <1>6, <1>7, QuietMove DEF r, SameCount, SameSystems, RunsInv

LEMMA StartMoves ==
  ASSUME RunsInv, NEW k \in DOMAIN runs, Start(k)
  PROVE  RunsInv'
<1>. DEFINE r == runs[k]
            q == [r EXCEPT !.started = TRUE, !.publishing = TRUE]
<1>1. /\ r \in RunRecord /\ ParticipantsCounted(r) /\ PublicationSound(r)
      /\ SystemsInOrder(r) /\ OutcomeSound(r, closed)
  BY RunsAre
<1>2. Becomes(k, q) /\ UNCHANGED <<guard, closed, dirty, written>> /\ ~ r.started
  BY DEF Start
<1>. HIDE DEF r
<1>3. /\ q \in RunRecord /\ SameStop(q, r) /\ SameSystems(q, r) /\ SameCount(q, r)
      /\ SameOutcome(q, r) /\ q.started /\ q.publishing
      /\ q.sealed = r.sealed /\ q.published = r.published
  BY <1>1 DEF RunRecord, SameStop, SameSystems, SameCount, SameOutcome
<1>. HIDE DEF q
<1>4. ParticipantsCounted(q)
  <2>1. Holds(q) /\ Holds(r)
    BY <1>2, <1>3 DEF Holds
  <2>. QED
    BY <1>1, <1>3, <2>1 DEF ParticipantsCounted, Working, Buffers, SameSystems, SameCount
<1>5. PublicationSound(q)
  BY <1>1, <1>2, <1>3 DEF PublicationSound, FailuresSound, HasFailure, Holds, SameStop,
                          SameSystems, SameCount
<1>6. SystemsInOrder(q)
  BY <1>1, <1>3 DEF SystemsInOrder, SameSystems, SameStop, Stopped
<1>7. OutcomeSound(q, closed')
  BY <1>1, <1>2, <1>3 DEF OutcomeSound, HasFailure, SameCount, SameOutcome, SameSystems
<1>. QED
  BY <1>2, <1>3, <1>4, <1>5, <1>6, <1>7, QuietMove DEF r, SameCount, SameSystems, RunsInv

(* Most steps that take a participant off. *)
LEMMA RetireMove ==
  ASSUME RunsInv, NEW k \in DOMAIN runs, NEW r \in RunRecord, Becomes(k, Retired(r)),
         Counts(r, 1), r.stage = "open", runs[k].stage = "open",
         PublicationSound(r), SystemsInOrder(r),
         OutcomeSound(r, closed'), closed' \in BOOLEAN, closed => closed',
         UNCHANGED <<guard, dirty, written>>, runs[k].invoked \subseteq r.invoked
  PROVE  RunsInv'
<1>. DEFINE q == Retired(r)
<1>1. r.outstanding # 0 /\ ParticipantsCounted(q)
  BY RetiredCounts
<1>2. /\ q \in RunRecord /\ q.stage \in {"open", "commit"}
      /\ SameStop(q, r) /\ SamePublication(q, r) /\ SameSystems(q, r) /\ SameOutcome(q, r)
  BY <1>1, RetiredIs
<1>3. Becomes(k, q)
  OBVIOUS
<1>. HIDE DEF q
<1>4. PublicationSound(q)
  <2>1. Holds(q) <=> Holds(r)
    BY <1>2 DEF Holds, SamePublication
  <2>. QED
    BY <1>2, <2>1 DEF PublicationSound, FailuresSound, HasFailure, Stopped, AtWork, SameStop,
                      SamePublication, SameSystems
<1>5. SystemsInOrder(q)
  BY <1>2 DEF SystemsInOrder, Stopped, SameStop, SameSystems
<1>6. OutcomeSound(q, closed')
  BY <1>2 DEF OutcomeSound, HasFailure, SameOutcome, SameSystems
<1>7. runs[k].invoked \subseteq q.invoked /\ (q.stage = "open" \/ q.stage = "commit")
  BY <1>2 DEF SameSystems
<1>. QED
  BY <1>1, <1>2, <1>3, <1>4, <1>5, <1>6, <1>7, QuietMove

(* What ends the publisher, or the coordinator that has drained. *)
LEMMA HoldEnds ==
  ASSUME NEW r \in RunRecord, NEW q \in RunRecord, ParticipantsCounted(r), Holds(r), ~ Holds(q),
         SameSystems(q, r), SameCount(q, r)
  PROVE  Counts(q, 1) /\ q.stage = "open"
<1>1. Working(q) = Working(r) /\ Buffers(q) = Buffers(r)
  BY DEF Working, Buffers, SameSystems, SameCount
<1>2. Counts(q, 1)
  BY <1>1, ParticipantsAre, FieldsOf DEF ParticipantsCounted, Counts, SameCount
<1>3. r.outstanding # 0
  BY ParticipantsAre, FieldsOf DEF ParticipantsCounted
<1>. QED
  BY <1>2, <1>3 DEF ParticipantsCounted, SameCount

LEMMA AbandonMoves ==
  ASSUME RunsInv, NEW k \in DOMAIN runs, Abandon(k)
  PROVE  RunsInv'
<1>. DEFINE r == runs[k]
            q == [r EXCEPT !.started = TRUE, !.cancelled = TRUE, !.sealed = TRUE]
<1>1. /\ r \in RunRecord /\ ParticipantsCounted(r) /\ PublicationSound(r)
      /\ SystemsInOrder(r) /\ OutcomeSound(r, closed)
  BY RunsAre
<1>2. /\ Becomes(k, IF HasCoordinator THEN q ELSE Retired(q)) /\ ~ r.started
      /\ UNCHANGED <<guard, closed, dirty, written>>
  BY DEF Abandon
<1>. HIDE DEF r
<1>3. /\ q \in RunRecord /\ SameSystems(q, r) /\ SameCount(q, r) /\ SameOutcome(q, r)
      /\ q.started /\ q.sealed /\ q.cancelled /\ q.publicationError = r.publicationError
      /\ q.publishing = r.publishing /\ q.published = r.published
  BY <1>1 DEF RunRecord, SameSystems, SameCount, SameOutcome
<1>. HIDE DEF q
<1>4. PublicationSound(q)
  <2>1. ~ r.publishing
    BY <1>1, <1>2 DEF PublicationSound
  <2>2. HasCoordinator => Holds(q)
    BY <1>3 DEF Holds
  <2>. QED
    BY <1>1, <1>3, <2>1, <2>2 DEF PublicationSound, FailuresSound, HasFailure, Stopped,
                                  SameSystems, SameCount
<1>5. SystemsInOrder(q)
  BY <1>1, <1>3 DEF SystemsInOrder, SameSystems, Stopped
<1>6. OutcomeSound(q, closed')
  BY <1>1, <1>2, <1>3 DEF OutcomeSound, HasFailure, SameCount, SameOutcome, SameSystems
<1>7. Holds(r)
  BY <1>2 DEF Holds
<1>8. closed' \in BOOLEAN /\ (closed => closed') /\ UNCHANGED <<guard, dirty, written>>
  BY <1>2 DEF RunsInv
<1>9. q.stage = r.stage /\ r.invoked \subseteq q.invoked
  BY <1>3 DEF SameCount, SameSystems
<1>10. CASE HasCoordinator
  <2>1. Holds(q)
    BY <1>3, <1>10 DEF Holds
  <2>2. ParticipantsCounted(q)
    BY <1>1, <1>3, <1>7, <2>1 DEF ParticipantsCounted, Working, Buffers, SameSystems, SameCount
  <2>3. Becomes(k, q) /\ runs[k].stage = q.stage /\ runs[k].invoked \subseteq q.invoked
    BY <1>2, <1>9, <1>10 DEF r
  <2>. QED
    BY <1>3, <1>4, <1>5, <1>6, <1>8, <2>2, <2>3, QuietMove
<1>11. CASE ~ HasCoordinator
  <2>1. ~ Holds(q)
    BY <1>1, <1>2, <1>3, <1>11 DEF Holds, PublicationSound
  <2>2. Counts(q, 1) /\ q.stage = "open"
    BY <1>1, <1>3, <1>7, <2>1, HoldEnds
  <2>3. Becomes(k, Retired(q)) /\ runs[k].stage = q.stage /\ runs[k].invoked \subseteq q.invoked
    BY <1>2, <1>9, <1>11 DEF r
  <2>. QED
    BY <1>3, <1>4, <1>5, <1>6, <1>8, <2>2, <2>3, RetireMove
<1>. QED
  BY <1>10, <1>11

-----------------------------------------------------------------------------
(* The publisher and the coordinator. *)

LEMMA PublicationEndMoves ==
  ASSUME RunsInv, NEW k \in DOMAIN runs, PublicationEnds(k)
  PROVE  RunsInv'
<1>. DEFINE r == runs[k]
            q == [r EXCEPT !.publishing = FALSE, !.sealed = TRUE]
<1>1. /\ r \in RunRecord /\ ParticipantsCounted(r) /\ PublicationSound(r)
      /\ SystemsInOrder(r) /\ OutcomeSound(r, closed)
  BY RunsAre
<1>2. /\ Becomes(k, IF HasCoordinator THEN q ELSE Retired(q))
      /\ UNCHANGED <<guard, closed, dirty, written>> /\ r.publishing
  BY DEF PublicationEnds
<1>3. Stopped(r) \/ r.published = Count
  <2>1. Stopped(q) <=> Stopped(r)
    BY <1>1 DEF RunRecord, Stopped
  <2>2. q.published = r.published
    BY <1>1 DEF RunRecord
  <2>. QED
    BY <2>1, <2>2, OrderIs DEF PublicationEnds
<1>. HIDE DEF r
<1>4. /\ q \in RunRecord /\ SameStop(q, r) /\ SameSystems(q, r) /\ SameCount(q, r)
      /\ SameOutcome(q, r) /\ q.started = r.started /\ q.sealed /\ ~ q.publishing
      /\ q.published = r.published
  BY <1>1 DEF RunRecord, SameStop, SameSystems, SameCount, SameOutcome
<1>. HIDE DEF q
<1>5. r.started /\ Holds(r)
  BY <1>1, <1>2 DEF PublicationSound, Holds
<1>6. PublicationSound(q)
  <2>1. HasCoordinator => Holds(q)
    BY <1>4 DEF Holds
  <2>2. Stopped(q) <=> Stopped(r)
    BY <1>4 DEF Stopped, SameStop
  <2>. QED
    BY <1>1, <1>3, <1>4, <1>5, <2>1, <2>2
       DEF PublicationSound, FailuresSound, HasFailure, SameStop, SameSystems, SameCount
<1>7. SystemsInOrder(q)
  BY <1>1, <1>4 DEF SystemsInOrder, SameSystems, SameStop, Stopped
<1>8. OutcomeSound(q, closed')
  BY <1>1, <1>2, <1>4 DEF OutcomeSound, HasFailure, SameCount, SameOutcome, SameSystems
<1>9. /\ closed' \in BOOLEAN /\ (closed => closed') /\ UNCHANGED <<guard, dirty, written>>
      /\ q.stage = r.stage /\ r.invoked \subseteq q.invoked
  BY <1>2, <1>4 DEF RunsInv, SameCount, SameSystems
<1>10. CASE HasCoordinator
  <2>1. Holds(q)
    BY <1>4, <1>10 DEF Holds
  <2>2. ParticipantsCounted(q)
    BY <1>1, <1>4, <1>5, <2>1 DEF ParticipantsCounted, Working, Buffers, SameSystems, SameCount
  <2>3. Becomes(k, q) /\ runs[k].stage = q.stage /\ runs[k].invoked \subseteq q.invoked
    BY <1>2, <1>9, <1>10 DEF r
  <2>. QED
    BY <1>4, <1>6, <1>7, <1>8, <1>9, <2>2, <2>3, QuietMove
<1>11. CASE ~ HasCoordinator
  <2>1. ~ Holds(q)
    BY <1>4, <1>5, <1>11 DEF Holds
  <2>2. Counts(q, 1) /\ q.stage = "open"
    BY <1>1, <1>4, <1>5, <2>1, HoldEnds
  <2>3. Becomes(k, Retired(q)) /\ runs[k].stage = q.stage /\ runs[k].invoked \subseteq q.invoked
    BY <1>2, <1>9, <1>11 DEF r
  <2>. QED
    BY <1>4, <1>6, <1>7, <1>8, <1>9, <2>2, <2>3, RetireMove
<1>. QED
  BY <1>10, <1>11

LEMMA DrainedMoves ==
  ASSUME RunsInv, NEW k \in DOMAIN runs, Drained(k)
  PROVE  RunsInv'
<1>. DEFINE r == runs[k]
            error == r.publicationError \/ HasFailure(r)
            q == [r EXCEPT !.sealed = FALSE, !.publicationError = error]
<1>1. /\ r \in RunRecord /\ ParticipantsCounted(r) /\ PublicationSound(r)
      /\ SystemsInOrder(r) /\ OutcomeSound(r, closed)
  BY RunsAre
<1>2. /\ Becomes(k, Retired(q)) /\ UNCHANGED <<guard, closed, dirty, written>>
      /\ r.sealed /\ HasCoordinator /\ \A s \in Systems : r.systems[s] \in Over
  BY DEF Drained
<1>3. /\ error \in BOOLEAN /\ (r.publicationError => error) /\ (HasFailure(r) => error)
  BY <1>1, FieldsOf DEF HasFailure
<1>. HIDE DEF r, error
<1>4. /\ q \in RunRecord /\ SameSystems(q, r) /\ SameCount(q, r) /\ SameOutcome(q, r)
      /\ q.cancelled = r.cancelled /\ q.failed = r.failed /\ q.publicationError = error
      /\ q.started = r.started /\ ~ q.sealed /\ q.publishing = r.publishing
      /\ q.published = r.published
  BY <1>1, <1>3 DEF RunRecord, SameSystems, SameCount, SameOutcome
<1>. HIDE DEF q
<1>5. r.started /\ Holds(r) /\ ~ r.publishing
  BY <1>1, <1>2 DEF PublicationSound, Holds
<1>6. PublicationSound(q)
  <2>1. (Stopped(q) <=> Stopped(r)) /\ (HasFailure(q) <=> HasFailure(r))
    BY <1>4 DEF Stopped, HasFailure, SameSystems
  <2>2. FailuresSound(q)
    BY <1>1, <1>3, <1>4, <2>1 DEF PublicationSound, FailuresSound, SameSystems
  <2>. QED
    BY <1>1, <1>2, <1>4, <1>5, <2>1, <2>2 DEF PublicationSound, SameSystems, SameCount
<1>7. SystemsInOrder(q)
  BY <1>1, <1>4 DEF SystemsInOrder, SameSystems, Stopped
<1>8. OutcomeSound(q, closed')
  BY <1>1, <1>2, <1>4 DEF OutcomeSound, HasFailure, SameCount, SameOutcome, SameSystems
<1>9. /\ closed' \in BOOLEAN /\ (closed => closed') /\ UNCHANGED <<guard, dirty, written>>
      /\ q.stage = r.stage /\ r.invoked \subseteq q.invoked
  BY <1>2, <1>4 DEF RunsInv, SameCount, SameSystems
<1>10. ~ Holds(q)
  BY <1>4, <1>5 DEF Holds
<1>11. Counts(q, 1) /\ q.stage = "open"
  BY <1>1, <1>4, <1>5, <1>10, HoldEnds
<1>12. Becomes(k, Retired(q)) /\ runs[k].stage = q.stage /\ runs[k].invoked \subseteq q.invoked
  BY <1>2, <1>9 DEF r
<1>. QED
  BY <1>4, <1>6, <1>7, <1>8, <1>9, <1>11, <1>12, RetireMove

-----------------------------------------------------------------------------
(* What the steps of one system change. *)

(* While a system or a buffer is at work its run is open. *)
LEMMA RunIsOpen ==
  ASSUME NEW r \in RunRecord, ParticipantsCounted(r), PublicationSound(r), NEW s \in Systems,
         \/ Holds(r)
         \/ r.systems[s] \in {"queued", "running"}
         \/ r.tickets[s] > 0
  PROVE  r.stage = "open" /\ r.outstanding # 0
<1>1. Cardinality(Working(r)) \in Nat /\ Cardinality(Buffers(r)) \in Nat
  BY ParticipantsAre
<1>2. CASE Holds(r)
  BY <1>1, <1>2 DEF ParticipantsCounted
<1>3. CASE r.systems[s] \in {"queued", "running"} /\ ~ Holds(r)
  <2>1. ~ HasCoordinator
    BY <1>3 DEF PublicationSound, Over
  <2>2. s \in Working(r)
    BY <1>3, <2>1 DEF Working
  <2>3. Cardinality(Working(r)) # 0
    BY <2>2, ParticipantsAre
  <2>. QED
    BY <1>1, <1>3, <2>3 DEF ParticipantsCounted
<1>4. CASE r.tickets[s] > 0
  <2>1. r.tickets[s] \in 1 .. MaxTickets
    BY <1>4, FieldsOf, SystemRunsAssumption
  <2>2. <<s, r.tickets[s]>> \in Buffers(r)
    BY <2>1 DEF Buffers
  <2>3. Cardinality(Buffers(r)) # 0
    BY <2>2, ParticipantsAre
  <2>. QED
    BY <1>1, <2>3 DEF ParticipantsCounted
<1>. QED
  BY <1>2, <1>3, <1>4

LEMMA OutcomeOpen ==
  ASSUME NEW r, NEW q, NEW c, NEW d, OutcomeSound(r, c),
         r.stage = "open", q.stage = "open", q.outcome = r.outcome
  PROVE  OutcomeSound(q, d)
BY DEF OutcomeSound

SystemChanges(q, r, s, v) ==
  /\ q.systems = [r.systems EXCEPT ![s] = v]
  /\ r.invoked \subseteq q.invoked
  /\ Stopped(r) => Stopped(q)
  /\ r.publicationError => q.publicationError

LEMMA PublicationKept ==
  ASSUME NEW r \in RunRecord, NEW q \in RunRecord, NEW s \in Systems, NEW v,
         PublicationSound(r), SystemChanges(q, r, s, v), SamePublication(q, r),
         q.stage = r.stage, r.systems[s] \in {"queued", "running"}, v # "unpublished",
         HasCoordinator => Holds(r) \/ v = "ended",
         v \in {"failed", "cancelled"} => HasCoordinator, v = "cancelled" => HasFailure(r)
  PROVE  PublicationSound(q)
<1>1. r.systems \in [Systems -> SystemStates]
  BY FieldsOf
<1>2. \A t \in Systems : q.systems[t] = IF t = s THEN v ELSE r.systems[t]
  BY <1>1 DEF SystemChanges
<1>3. Holds(q) <=> Holds(r)
  BY DEF Holds, SamePublication
<1>4. HasCoordinator /\ ~ Holds(q) =>
        \A t \in Systems : q.systems[t] \in Over
  BY <1>2, <1>3 DEF PublicationSound, Over
<1>5. \A i \in 1 .. Count : q.systems[Order[i]] = "unpublished" <=> i > q.published
  <2>1. SUFFICES ASSUME NEW i \in 1 .. Count
                 PROVE  q.systems[Order[i]] = "unpublished" <=> i > q.published
    OBVIOUS
  <2>2. Order[i] \in Systems
    BY OrderIs
  <2>3. r.systems[Order[i]] = "unpublished" <=> i > r.published
    BY DEF PublicationSound
  <2>. QED
    BY <1>2, <2>2, <2>3 DEF SamePublication
<1>6. FailuresSound(q)
  <2>1. FailuresSound(r)
    BY DEF PublicationSound
  <2>2. HasFailure(r) => HasFailure(q)
    BY <1>2 DEF HasFailure
  <2>3. HasFailure(q) => HasFailure(r) \/ v = "failed"
    BY <1>2 DEF HasFailure
  <2>4. HasFailure(q) /\ ~ Holds(q) => q.publicationError
    BY <1>3, <2>1, <2>3 DEF FailuresSound, SystemChanges
  <2>5. (\E t \in Systems : q.systems[t] = "cancelled") => HasFailure(q)
    BY <1>2, <2>1, <2>2 DEF FailuresSound
  <2>6. ~ HasCoordinator => \A t \in Systems : q.systems[t] \notin {"failed", "cancelled"}
    BY <1>2, <2>1 DEF FailuresSound
  <2>. QED
    BY <2>4, <2>5, <2>6 DEF FailuresSound
<1>. QED
  BY <1>4, <1>5, <1>6 DEF PublicationSound, SamePublication, SystemChanges

LEMMA OrderKept ==
  ASSUME NEW r \in RunRecord, NEW q \in RunRecord, NEW s \in Systems, NEW v,
         SystemsInOrder(r), SystemChanges(q, r, s, v), r.systems[s] # "ended",
         v \in {"running", "ended"} =>
            \A p \in Dependencies(s) \cup HeldBy(s) : r.systems[p] = "ended",
         v = "running" => s \in q.invoked,
         v = "ended" => s \in q.invoked \/ Stopped(q)
  PROVE  SystemsInOrder(q)
<1>1. r.systems \in [Systems -> SystemStates]
  BY FieldsOf
<1>2. \A t \in Systems : q.systems[t] = IF t = s THEN v ELSE r.systems[t]
  BY <1>1 DEF SystemChanges
<1>3. \A t \in Systems : Dependencies(t) \cup HeldBy(t) \subseteq Systems
  BY DEF Dependencies, HeldBy
<1>4. \A t \in Systems : r.systems[t] = "ended" => q.systems[t] = "ended"
  BY <1>2
<1>5. SUFFICES ASSUME NEW t \in Systems
               PROVE  /\ q.systems[t] \in {"running", "ended"} =>
                           \A p \in Dependencies(t) \cup HeldBy(t) : q.systems[p] = "ended"
                      /\ q.systems[t] = "running" => t \in q.invoked
                      /\ q.systems[t] = "ended" => t \in q.invoked \/ Stopped(q)
  BY DEF SystemsInOrder
<1>6. CASE t = s
  BY <1>2, <1>3, <1>4, <1>6
<1>7. CASE t # s
  <2>1. q.systems[t] = r.systems[t]
    BY <1>2, <1>7
  <2>. QED
    BY <1>3, <1>4, <2>1 DEF SystemsInOrder, SystemChanges
<1>. QED
  BY <1>6, <1>7

LEMMA WorkingChanges ==
  ASSUME NEW r \in RunRecord, NEW q \in RunRecord, NEW s \in Systems, NEW v,
         q.systems = [r.systems EXCEPT ![s] = v]
  PROVE  /\ HasCoordinator => Cardinality(Working(q)) = Cardinality(Working(r))
         /\ r.systems[s] \in {"queued", "running"} /\ v \in {"queued", "running"} =>
               Cardinality(Working(q)) = Cardinality(Working(r))
         /\ ~ HasCoordinator /\ r.systems[s] \notin {"queued", "running"}
               /\ v \in {"queued", "running"} =>
               Cardinality(Working(q)) = Cardinality(Working(r)) + 1
         /\ ~ HasCoordinator /\ r.systems[s] \in {"queued", "running"}
               /\ v \notin {"queued", "running"} =>
               Cardinality(Working(q)) = Cardinality(Working(r)) - 1
<1>1. r.systems \in [Systems -> SystemStates]
  BY FieldsOf
<1>2. \A t \in Systems : q.systems[t] = IF t = s THEN v ELSE r.systems[t]
  BY <1>1
<1>3. IsFiniteSet(Working(r))
  BY ParticipantsAre
<1>4. CASE HasCoordinator \/ (r.systems[s] \in {"queued", "running"} <=> v \in {"queued", "running"})
  <2>1. Working(q) = Working(r)
    BY <1>2, <1>4 DEF Working
  <2>. QED
    BY <1>4, <2>1
<1>5. CASE ~ HasCoordinator /\ r.systems[s] \notin {"queued", "running"}
             /\ v \in {"queued", "running"}
  <2>1. Working(q) = Working(r) \cup {s} /\ s \notin Working(r)
    BY <1>2, <1>5 DEF Working
  <2>. QED
    BY <1>3, <1>5, <2>1, FS_AddElement
<1>6. CASE ~ HasCoordinator /\ r.systems[s] \in {"queued", "running"}
             /\ v \notin {"queued", "running"}
  <2>1. Working(q) = Working(r) \ {s} /\ s \in Working(r)
    BY <1>2, <1>6 DEF Working
  <2>. QED
    BY <1>3, <1>6, <2>1, FS_RemoveElement
<1>. QED
  BY <1>4, <1>5, <1>6

LEMMA BuffersChange ==
  ASSUME NEW r \in RunRecord, NEW q \in RunRecord, NEW s \in Systems, NEW n \in 0 .. MaxTickets,
         q.tickets = [r.tickets EXCEPT ![s] = n]
  PROVE  /\ n = r.tickets[s] + 1 => Cardinality(Buffers(q)) = Cardinality(Buffers(r)) + 1
         /\ n = r.tickets[s] - 1 => Cardinality(Buffers(q)) = Cardinality(Buffers(r)) - 1
<1>1. r.tickets \in [Systems -> 0 .. MaxTickets] /\ MaxTickets \in Nat
  BY FieldsOf, SystemRunsAssumption
<1>2. \A t \in Systems : q.tickets[t] = IF t = s THEN n ELSE r.tickets[t]
  BY <1>1
<1>3. IsFiniteSet(Buffers(r))
  BY ParticipantsAre
<1>4. CASE n = r.tickets[s] + 1
  <2>. DEFINE x == <<s, n>>
  <2>1. x \notin Buffers(r)
    BY <1>1, <1>4 DEF Buffers
  <2>2. Buffers(q) = Buffers(r) \cup {x}
    BY <1>1, <1>2, <1>4 DEF Buffers
  <2>. HIDE DEF x
  <2>3. Cardinality(Buffers(q)) = Cardinality(Buffers(r)) + 1
    BY <1>3, <2>1, <2>2, FS_AddElement
  <2>4. r.tickets[s] \in Int
    BY <1>1
  <2>. QED
    BY <1>4, <2>3, <2>4
<1>5. CASE n = r.tickets[s] - 1
  <2>. DEFINE x == <<s, r.tickets[s]>>
  <2>1. x \in Buffers(r)
    BY <1>1, <1>5 DEF Buffers
  <2>2. Buffers(q) = Buffers(r) \ {x}
    BY <1>1, <1>2, <1>5 DEF Buffers
  <2>. HIDE DEF x
  <2>3. Cardinality(Buffers(q)) = Cardinality(Buffers(r)) - 1
    BY <1>3, <2>1, <2>2, FS_RemoveElement
  <2>4. r.tickets[s] \in Int
    BY <1>1
  <2>. QED
    BY <1>5, <2>3, <2>4
<1>. QED
  BY <1>4, <1>5

-----------------------------------------------------------------------------
(* A system is published, entered and left. *)

LEMMA PublishMoves ==
  ASSUME RunsInv, NEW k \in DOMAIN runs, PublishNext(k)
  PROVE  RunsInv'
<1>. DEFINE r == runs[k]
            s == Order[r.published + 1]
            n == IF HasCoordinator THEN 0 ELSE 1
            q == [r EXCEPT !.published = r.published + 1, !.systems[s] = "queued",
                           !.outstanding = r.outstanding + n]
<1>1. /\ r \in RunRecord /\ ParticipantsCounted(r) /\ PublicationSound(r)
      /\ SystemsInOrder(r) /\ OutcomeSound(r, closed)
  BY RunsAre
<1>2. /\ Becomes(k, q) /\ UNCHANGED <<guard, closed, dirty, written>>
      /\ r.publishing /\ ~ Stopped(r) /\ r.published < Count
  BY OrderIs DEF PublishNext
<1>3. r.published \in 0 .. Count - 1 /\ r.published + 1 \in 1 .. Count /\ n \in 0 .. 1
  BY <1>1, <1>2, FieldsOf, OrderIs
<1>4. s \in Systems /\ r.systems[s] = "unpublished"
  <2>1. s \in Systems
    BY <1>3, OrderIs
  <2>2. r.systems[Order[r.published + 1]] = "unpublished" <=> r.published + 1 > r.published
    BY <1>1, <1>3 DEF PublicationSound
  <2>. QED
    BY <1>3, <2>1, <2>2
<1>5. n = IF HasCoordinator THEN 0 ELSE 1
  OBVIOUS
<1>6. \A i \in 1 .. Count : Order[i] = s <=> i = r.published + 1
  BY <1>3, OrderIs
<1>. HIDE DEF r, n, s
<1>7. /\ SameStop(q, r) /\ SameOutcome(q, r) /\ q.tickets = r.tickets /\ q.stage = r.stage
      /\ q.invoked = r.invoked /\ q.published = r.published + 1
      /\ q.started = r.started /\ q.publishing = r.publishing /\ q.sealed = r.sealed
      /\ q.outstanding = r.outstanding + n
  BY <1>1 DEF RunRecord, SameStop, SameOutcome
<1>8. q.systems = [r.systems EXCEPT ![s] = "queued"]
  BY <1>1 DEF RunRecord
<1>9. q \in RunRecord
  <2>1. r.published + 1 \in 0 .. Count /\ r.outstanding + n \in Nat
    BY <1>1, <1>3, FieldsOf, OrderIs
  <2>2. [r.systems EXCEPT ![s] = "queued"] \in [Systems -> SystemStates]
    BY <1>1, FieldsOf DEF SystemStates
  <2>. QED
    BY <1>1, <2>1, <2>2 DEF RunRecord
<1>. HIDE DEF q
<1>10. Holds(r) /\ Holds(q)
  BY <1>2, <1>7 DEF Holds
<1>11. r.stage = "open"
  BY <1>1, <1>4, <1>10, RunIsOpen
<1>12. ParticipantsCounted(q)
  <2>1. Cardinality(Working(q)) = Cardinality(Working(r)) + n
    <3>1. Cardinality(Working(r)) \in Nat
      BY <1>1, ParticipantsAre
    <3>. QED
      BY <1>1, <1>4, <1>5, <1>8, <1>9, <3>1, WorkingChanges
  <2>2. Buffers(q) = Buffers(r)
    BY <1>7 DEF Buffers
  <2>3. Cardinality(Working(r)) \in Nat /\ Cardinality(Buffers(r)) \in Nat
    BY <1>1, ParticipantsAre
  <2>4. q.outstanding = 1 + Cardinality(Working(q)) + Cardinality(Buffers(q))
    BY <1>1, <1>3, <1>7, <1>10, <2>1, <2>2, <2>3 DEF ParticipantsCounted
  <2>5. q.outstanding # 0
    BY <1>3, <2>1, <2>2, <2>3, <2>4
  <2>. QED
    BY <1>7, <1>10, <1>11, <2>4, <2>5 DEF ParticipantsCounted
<1>13. \A t \in Systems : q.systems[t] = IF t = s THEN "queued" ELSE r.systems[t]
  BY <1>1, <1>8, FieldsOf
<1>14. PublicationSound(q)
  <2>1. ASSUME NEW i \in 1 .. Count
        PROVE  q.systems[Order[i]] = "unpublished" <=> i > q.published
    <3>1. Order[i] \in Systems /\ i \in Int /\ r.published \in Int
      BY <1>3, OrderIs
    <3>2. r.systems[Order[i]] = "unpublished" <=> i > r.published
      BY <1>1 DEF PublicationSound
    <3>3. CASE i = r.published + 1
      BY <1>6, <1>7, <1>13, <3>1, <3>3
    <3>4. CASE i # r.published + 1
      BY <1>6, <1>7, <1>13, <3>1, <3>2, <3>4
    <3>. QED
      BY <3>3, <3>4
  <2>2. FailuresSound(q)
    <3>1. FailuresSound(r)
      BY <1>1 DEF PublicationSound
    <3>. QED
      BY <1>4, <1>10, <1>13, <3>1 DEF FailuresSound, HasFailure
  <2>. QED
    BY <1>1, <1>2, <1>7, <1>10, <2>1, <2>2 DEF PublicationSound, Stopped, SameStop
<1>15. SystemsInOrder(q)
  <2>1. SystemChanges(q, r, s, "queued")
    BY <1>7, <1>8 DEF SystemChanges, Stopped, SameStop
  <2>. QED
    BY <1>1, <1>4, <1>9, <2>1, OrderKept
<1>16. OutcomeSound(q, closed')
  BY <1>1, <1>7, <1>11, OutcomeOpen DEF SameOutcome
<1>17. closed' \in BOOLEAN /\ (closed => closed') /\ UNCHANGED <<guard, dirty, written>>
  BY <1>2 DEF RunsInv
<1>18. Becomes(k, q) /\ runs[k].stage = q.stage /\ runs[k].invoked \subseteq q.invoked
  BY <1>2, <1>7 DEF r
<1>. QED
  BY <1>9, <1>12, <1>14, <1>15, <1>16, <1>17, <1>18, QuietMove

(* A system that ends: its run goes on, or retires a participant for it. *)
LEMMA SystemEnds ==
  ASSUME RunsInv, NEW k \in DOMAIN runs, NEW q \in RunRecord, NEW s \in Systems,
         Becomes(k, Ended(q)), UNCHANGED <<guard, closed, dirty, written>>,
         runs[k].systems[s] \in {"queued", "running"},
         SystemChanges(q, runs[k], s, "ended"), SamePublication(q, runs[k]),
         SameCount(q, runs[k]), q.outcome = runs[k].outcome,
         \A p \in Dependencies(s) \cup HeldBy(s) : runs[k].systems[p] = "ended",
         s \in q.invoked \/ Stopped(q)
  PROVE  RunsInv'
<1>. DEFINE r == runs[k]
<1>1. /\ r \in RunRecord /\ ParticipantsCounted(r) /\ PublicationSound(r)
      /\ SystemsInOrder(r) /\ OutcomeSound(r, closed)
  BY RunsAre
<1>2. /\ r.systems[s] \in {"queued", "running"} /\ SystemChanges(q, r, s, "ended")
      /\ SamePublication(q, r) /\ SameCount(q, r) /\ q.outcome = r.outcome
      /\ \A p \in Dependencies(s) \cup HeldBy(s) : r.systems[p] = "ended"
  OBVIOUS
<1>. HIDE DEF r
<1>3. r.stage = "open"
  BY <1>1, <1>2, RunIsOpen
<1>4. PublicationSound(q)
  BY <1>1, <1>2, PublicationKept DEF SameCount
<1>5. SystemsInOrder(q)
  BY <1>1, <1>2, OrderKept
<1>6. OutcomeSound(q, closed')
  BY <1>1, <1>2, <1>3, OutcomeOpen DEF SameCount
<1>7. closed' \in BOOLEAN /\ (closed => closed') /\ UNCHANGED <<guard, dirty, written>>
  BY DEF RunsInv
<1>8. r.stage = q.stage /\ r.invoked \subseteq q.invoked /\ q.stage = "open"
  BY <1>2, <1>3 DEF SystemChanges, SameCount
<1>9. runs[k].stage = q.stage /\ runs[k].invoked \subseteq q.invoked
  BY <1>8 DEF r
<1>10. Holds(q) <=> Holds(r)
  BY <1>2 DEF Holds, SamePublication
<1>11. Buffers(q) = Buffers(r) /\ q.outstanding = r.outstanding
  BY <1>2 DEF Buffers, SameCount
<1>12. /\ HasCoordinator => Cardinality(Working(q)) = Cardinality(Working(r))
       /\ ~ HasCoordinator => Cardinality(Working(q)) = Cardinality(Working(r)) - 1
  <2>1. q.systems = [r.systems EXCEPT ![s] = "ended"]
    BY <1>2 DEF SystemChanges
  <2>. QED
    BY <1>1, <1>2, <2>1, WorkingChanges
<1>13. Cardinality(Working(r)) \in Nat /\ Cardinality(Buffers(r)) \in Nat
  BY <1>1, ParticipantsAre
<1>14. CASE HasCoordinator
  <2>1. Becomes(k, q)
    BY <1>14 DEF Ended
  <2>2. ParticipantsCounted(q)
    BY <1>1, <1>8, <1>10, <1>11, <1>12, <1>14 DEF ParticipantsCounted
  <2>. QED
    BY <1>4, <1>5, <1>6, <1>7, <1>9, <2>1, <2>2, QuietMove
<1>15. CASE ~ HasCoordinator
  <2>1. Becomes(k, Retired(q))
    BY <1>15 DEF Ended
  <2>2. Counts(q, 1)
    BY <1>1, <1>10, <1>11, <1>12, <1>13, <1>15 DEF ParticipantsCounted, Counts
  <2>. QED
    BY <1>4, <1>5, <1>6, <1>7, <1>8, <1>9, <2>1, <2>2, RetireMove
<1>. QED
  BY <1>14, <1>15

WrittenBy(s) == IF IsExclusive(s) THEN Components
                ELSE {a.component : a \in {x \in Accesses[s] : x.write}}

LEMMA EnterMoves ==
  ASSUME RunsInv, NEW k \in DOMAIN runs, NEW s \in Systems, EnterSystem(k, s)
  PROVE  RunsInv'
<1>. DEFINE r == runs[k]
<1>1. /\ r \in RunRecord /\ ParticipantsCounted(r) /\ PublicationSound(r)
      /\ SystemsInOrder(r) /\ OutcomeSound(r, closed)
  BY RunsAre
<1>2. /\ r.systems[s] = "queued" /\ UNCHANGED <<guard, closed, dirty>>
      /\ \A p \in Dependencies(s) \cup HeldBy(s) : r.systems[p] = "ended"
  BY DEF EnterSystem
<1>3. CASE Stopped(r)
  <2>. DEFINE q == [r EXCEPT !.systems[s] = "ended"]
  <2>1. Becomes(k, Ended(q)) /\ UNCHANGED <<guard, closed, dirty, written>>
    BY <1>2, <1>3 DEF EnterSystem
  <2>. HIDE DEF r
  <2>2. /\ SystemChanges(q, r, s, "ended") /\ SamePublication(q, r) /\ SameCount(q, r)
        /\ q.outcome = r.outcome /\ Stopped(q)
    BY <1>1, <1>3 DEF RunRecord, SystemChanges, SamePublication, SameCount, Stopped
  <2>3. q \in RunRecord
    <3>1. [r.systems EXCEPT ![s] = "ended"] \in [Systems -> SystemStates]
      BY <1>1, FieldsOf DEF SystemStates
    <3>. QED
      BY <1>1, <3>1 DEF RunRecord
  <2>. HIDE DEF q
  <2>. QED
    BY <1>2, <2>1, <2>2, <2>3, SystemEnds DEF r
<1>4. CASE ~ Stopped(r)
  <2>. DEFINE q == [r EXCEPT !.systems[s] = "running", !.invoked = r.invoked \cup {s}]
  <2>1. Becomes(k, q) /\ written' = written \cup WrittenBy(s)
    BY <1>4 DEF EnterSystem, WrittenBy
  <2>2. r.stage = runs[k].stage /\ r.invoked = runs[k].invoked
    OBVIOUS
  <2>. HIDE DEF r
  <2>3. /\ SystemChanges(q, r, s, "running") /\ SamePublication(q, r) /\ SameCount(q, r)
        /\ q.outcome = r.outcome /\ s \in q.invoked
    BY <1>1 DEF RunRecord, SystemChanges, SamePublication, SameCount, Stopped
  <2>4. q \in RunRecord
    <3>1. /\ [r.systems EXCEPT ![s] = "running"] \in [Systems -> SystemStates]
          /\ r.invoked \cup {s} \in SUBSET Systems
      BY <1>1, FieldsOf DEF SystemStates
    <3>. QED
      BY <1>1, <3>1 DEF RunRecord
  <2>. HIDE DEF q
  <2>5. r.stage = "open"
    BY <1>1, <1>2, RunIsOpen
  <2>6. PublicationSound(q)
    <3>1. HasCoordinator => Holds(r)
      BY <1>1, <1>2 DEF PublicationSound, Over
    <3>. QED
      BY <1>1, <1>2, <2>3, <2>4, <3>1, PublicationKept DEF SameCount
  <2>7. SystemsInOrder(q)
    BY <1>1, <1>2, <2>3, <2>4, OrderKept
  <2>8. OutcomeSound(q, closed')
    BY <1>1, <2>3, <2>5, OutcomeOpen DEF SameCount
  <2>9. ParticipantsCounted(q)
    <3>1. q.systems = [r.systems EXCEPT ![s] = "running"]
      BY <2>3 DEF SystemChanges
    <3>2. Cardinality(Working(q)) = Cardinality(Working(r))
      BY <1>1, <1>2, <2>4, <3>1, WorkingChanges
    <3>3. (Holds(q) <=> Holds(r)) /\ Buffers(q) = Buffers(r)
      BY <2>3 DEF Holds, Buffers, SamePublication, SameCount
    <3>. QED
      BY <1>1, <2>3, <3>2, <3>3 DEF ParticipantsCounted, SameCount
  <2>10. closed' \in BOOLEAN /\ (closed => closed') /\ guard' \in BOOLEAN
    BY <1>2 DEF RunsInv
  <2>11. GuardSound'
    <3>1. q.stage = runs[k].stage /\ guard' = guard
      BY <1>2, <2>2, <2>3 DEF SameCount
    <3>. QED
      BY <2>1, <3>1, GuardStays
  <2>12. WritesSound'
    <3>1. dirty' = dirty /\ q.stage = "open" /\ runs[k].invoked \subseteq q.invoked
      BY <1>2, <2>2, <2>3, <2>5 DEF SystemChanges, SameCount
    <3>2. HasCoordinator => WrittenBy(s) \subseteq DirtyOf(q)
      BY <2>3 DEF WrittenBy, DirtyOf
    <3>3. HasCoordinator => \A c \in written' :
             c \in written \/ (q.stage \in {"open", "commit"} /\ c \in DirtyOf(q))
      BY <2>1, <3>1, <3>2
    <3>. QED
      BY <2>1, <3>1, <3>3, WritesStay
  <2>. QED
    BY <2>1, <2>4, <2>6, <2>7, <2>8, <2>9, <2>10, <2>11, <2>12, RunMoves DEF RunSound
<1>. QED
  BY <1>3, <1>4

LEMMA LeaveMoves ==
  ASSUME RunsInv, NEW k \in DOMAIN runs, NEW s \in Systems, NEW throws \in BOOLEAN,
         LeaveSystem(k, s, throws)
  PROVE  RunsInv'
<1>. DEFINE r == runs[k]
            q == [r EXCEPT !.systems[s] = "ended", !.failed = r.failed \/ throws,
                           !.errors = IF throws THEN r.errors \cup {s} ELSE r.errors]
<1>1. /\ r \in RunRecord /\ ParticipantsCounted(r) /\ PublicationSound(r)
      /\ SystemsInOrder(r) /\ OutcomeSound(r, closed)
  BY RunsAre
<1>2. /\ r.systems[s] = "running" /\ Becomes(k, Ended(q))
      /\ UNCHANGED <<guard, closed, dirty, written>>
  BY DEF LeaveSystem
<1>. HIDE DEF r
<1>3. /\ \A p \in Dependencies(s) \cup HeldBy(s) : r.systems[p] = "ended"
      /\ s \in r.invoked
  BY <1>1, <1>2 DEF SystemsInOrder
<1>4. /\ SystemChanges(q, r, s, "ended") /\ SamePublication(q, r) /\ SameCount(q, r)
      /\ q.outcome = r.outcome /\ q.invoked = r.invoked
  BY <1>1 DEF RunRecord, SystemChanges, SamePublication, SameCount, Stopped
<1>5. q \in RunRecord
  <2>1. /\ [r.systems EXCEPT ![s] = "ended"] \in [Systems -> SystemStates]
        /\ (IF throws THEN r.errors \cup {s} ELSE r.errors) \in SUBSET Systems
        /\ (r.failed \/ throws) \in BOOLEAN
    BY <1>1, FieldsOf DEF SystemStates
  <2>. QED
    BY <1>1, <2>1 DEF RunRecord
<1>. HIDE DEF q
<1>. QED
  BY <1>2, <1>3, <1>4, <1>5, SystemEnds DEF r

(* An operation fails, or is cancelled, and nobody enters its system. *)
LEMMA OperationMoves ==
  ASSUME RunsInv, NEW k \in DOMAIN runs, NEW s \in Systems,
         OperationFails(k, s) \/ OperationCancelled(k, s)
  PROVE  RunsInv'
<1>. DEFINE r == runs[k]
<1>1. /\ r \in RunRecord /\ ParticipantsCounted(r) /\ PublicationSound(r)
      /\ SystemsInOrder(r) /\ OutcomeSound(r, closed)
  BY RunsAre
<1>2. PICK v \in {"failed", "cancelled"} :
        /\ Becomes(k, [r EXCEPT !.systems[s] = v]) /\ UNCHANGED <<guard, closed, dirty, written>>
        /\ v = "cancelled" => \E p \in Dependencies(s) \cup HeldBy(s) :
                                r.systems[p] \in {"failed", "cancelled"}
  BY DEF OperationFails, OperationCancelled
<1>3. HasCoordinator /\ r.systems[s] = "queued"
  BY DEF OperationFails, OperationCancelled
<1>. DEFINE q == [r EXCEPT !.systems[s] = v]
<1>4. Becomes(k, q)
  BY <1>2
<1>. HIDE DEF r
<1>5. v = "cancelled" => HasFailure(r)
  <2>1. Dependencies(s) \cup HeldBy(s) \subseteq Systems
    BY DEF Dependencies, HeldBy
  <2>. QED
    BY <1>1, <1>2, <2>1 DEF PublicationSound, FailuresSound, HasFailure
<1>6. /\ SystemChanges(q, r, s, v) /\ SamePublication(q, r) /\ SameCount(q, r)
      /\ q.outcome = r.outcome /\ q.invoked = r.invoked
  BY <1>1 DEF RunRecord, SystemChanges, SamePublication, SameCount, Stopped
<1>7. q \in RunRecord
  <2>1. [r.systems EXCEPT ![s] = v] \in [Systems -> SystemStates]
    BY <1>1, FieldsOf DEF SystemStates
  <2>. QED
    BY <1>1, <2>1 DEF RunRecord
<1>. HIDE DEF q
<1>8. r.stage = "open" /\ Holds(r)
  BY <1>1, <1>3, RunIsOpen DEF PublicationSound, Over
<1>9. PublicationSound(q)
  BY <1>1, <1>3, <1>5, <1>6, <1>7, <1>8, PublicationKept DEF SameCount
<1>10. SystemsInOrder(q)
  BY <1>1, <1>3, <1>6, <1>7, OrderKept
<1>11. OutcomeSound(q, closed')
  BY <1>1, <1>6, <1>8, OutcomeOpen DEF SameCount
<1>12. ParticipantsCounted(q)
  <2>1. (Holds(q) <=> Holds(r)) /\ Buffers(q) = Buffers(r)
    BY <1>6 DEF Holds, Buffers, SamePublication, SameCount
  <2>2. Working(q) = Working(r)
    BY <1>3 DEF Working
  <2>. QED
    BY <1>1, <1>6, <2>1, <2>2 DEF ParticipantsCounted, SameCount
<1>13. closed' \in BOOLEAN /\ (closed => closed') /\ UNCHANGED <<guard, dirty, written>>
  BY <1>2 DEF RunsInv
<1>14. runs[k].stage = q.stage /\ runs[k].invoked \subseteq q.invoked
  BY <1>6 DEF r, SameCount
<1>. QED
  BY <1>4, <1>7, <1>9, <1>10, <1>11, <1>12, <1>13, <1>14, QuietMove

-----------------------------------------------------------------------------
(* A buffer is created, submitted and dropped. *)

LEMMA CreateMoves ==
  ASSUME RunsInv, NEW k \in DOMAIN runs, NEW s \in Systems, CreateBuffer(k, s)
  PROVE  RunsInv'
<1>. DEFINE r == runs[k]
            q == [r EXCEPT !.tickets[s] = r.tickets[s] + 1, !.outstanding = r.outstanding + 1]
<1>1. /\ r \in RunRecord /\ ParticipantsCounted(r) /\ PublicationSound(r)
      /\ SystemsInOrder(r) /\ OutcomeSound(r, closed)
  BY RunsAre
<1>2. /\ r.systems[s] = "running" /\ Becomes(k, q) /\ r.tickets[s] < MaxTickets
      /\ UNCHANGED <<guard, closed, dirty, written>>
  BY DEF CreateBuffer
<1>. HIDE DEF r
<1>3. /\ SameStop(q, r) /\ SamePublication(q, r) /\ SameSystems(q, r) /\ SameOutcome(q, r)
      /\ q.stage = r.stage /\ q.outstanding = r.outstanding + 1
  BY <1>1 DEF RunRecord, SameStop, SamePublication, SameSystems, SameOutcome
<1>4. r.tickets[s] + 1 \in 0 .. MaxTickets /\ r.outstanding \in Nat
  BY <1>1, <1>2, FieldsOf, SystemRunsAssumption
<1>5. q.tickets = [r.tickets EXCEPT ![s] = r.tickets[s] + 1]
  BY <1>1 DEF RunRecord
<1>6. q \in RunRecord
  <2>1. [r.tickets EXCEPT ![s] = r.tickets[s] + 1] \in [Systems -> 0 .. MaxTickets]
    BY <1>1, <1>4, FieldsOf
  <2>2. r.outstanding + 1 \in Nat
    BY <1>4
  <2>. QED
    BY <1>1, <2>1, <2>2 DEF RunRecord
<1>. HIDE DEF q
<1>7. r.stage = "open"
  BY <1>1, <1>2, RunIsOpen
<1>8. Holds(q) <=> Holds(r)
  BY <1>3 DEF Holds, SamePublication
<1>9. ParticipantsCounted(q)
  <2>1. Working(q) = Working(r)
    BY <1>3 DEF Working, SameSystems
  <2>2. Cardinality(Buffers(q)) = Cardinality(Buffers(r)) + 1
    BY <1>1, <1>4, <1>5, <1>6, BuffersChange
  <2>3. Cardinality(Working(r)) \in Nat /\ Cardinality(Buffers(r)) \in Nat
    BY <1>1, ParticipantsAre
  <2>4. q.outstanding = (IF Holds(q) THEN 1 ELSE 0) + Cardinality(Working(q))
                        + Cardinality(Buffers(q))
    BY <1>1, <1>3, <1>8, <2>1, <2>2, <2>3 DEF ParticipantsCounted
  <2>. QED
    BY <1>3, <1>4, <1>7, <2>4 DEF ParticipantsCounted
<1>10. PublicationSound(q)
  BY <1>1, <1>3, <1>8 DEF PublicationSound, FailuresSound, HasFailure, Stopped, SameStop,
                          SamePublication, SameSystems
<1>11. SystemsInOrder(q)
  BY <1>1, <1>3 DEF SystemsInOrder, Stopped, SameStop, SameSystems
<1>12. OutcomeSound(q, closed')
  BY <1>1, <1>3, <1>7, OutcomeOpen DEF SameOutcome
<1>13. closed' \in BOOLEAN /\ (closed => closed') /\ UNCHANGED <<guard, dirty, written>>
  BY <1>2 DEF RunsInv
<1>14. Becomes(k, q) /\ runs[k].stage = q.stage /\ runs[k].invoked \subseteq q.invoked
  BY <1>2, <1>3 DEF r, SameSystems
<1>. QED
  BY <1>6, <1>9, <1>10, <1>11, <1>12, <1>13, <1>14, QuietMove

LEMMA BufferEndMoves ==
  ASSUME RunsInv, NEW k \in DOMAIN runs, NEW s \in Systems, NEW throws \in BOOLEAN,
         SubmitBuffer(k, s) \/ DropBuffer(k, s, throws)
  PROVE  RunsInv'
<1>. DEFINE r == runs[k]
<1>1. /\ r \in RunRecord /\ ParticipantsCounted(r) /\ PublicationSound(r)
      /\ SystemsInOrder(r) /\ OutcomeSound(r, closed)
  BY RunsAre
<1>2. PICK failed \in BOOLEAN, deferred \in SUBSET Systems :
         /\ r.failed => failed
         /\ Becomes(k, Retired([r EXCEPT !.tickets[s] = r.tickets[s] - 1, !.failed = failed,
                                         !.deferred = deferred]))
  <2>1. CASE SubmitBuffer(k, s)
    <3>1. [r EXCEPT !.tickets[s] = r.tickets[s] - 1, !.deferred = r.deferred \cup {s}]
          = [r EXCEPT !.tickets[s] = r.tickets[s] - 1, !.failed = r.failed,
                      !.deferred = r.deferred \cup {s}]
      BY <1>1 DEF RunRecord
    <3>2. r.failed \in BOOLEAN /\ r.deferred \cup {s} \in SUBSET Systems
      BY <1>1, FieldsOf
    <3>. QED
      BY <2>1, <3>1, <3>2 DEF SubmitBuffer
  <2>2. CASE DropBuffer(k, s, throws)
    <3>1. [r EXCEPT !.tickets[s] = r.tickets[s] - 1, !.failed = r.failed \/ throws]
          = [r EXCEPT !.tickets[s] = r.tickets[s] - 1, !.failed = r.failed \/ throws,
                      !.deferred = r.deferred]
      BY <1>1 DEF RunRecord
    <3>2. (r.failed \/ throws) \in BOOLEAN /\ r.deferred \in SUBSET Systems
      BY <1>1, FieldsOf
    <3>. QED
      BY <2>2, <3>1, <3>2 DEF DropBuffer
  <2>. QED
    BY <2>1, <2>2
<1>3. /\ r.tickets[s] > 0 /\ UNCHANGED <<guard, dirty, written>>
      /\ closed' \in BOOLEAN /\ (closed => closed')
  BY DEF SubmitBuffer, DropBuffer, RunsInv
<1>. DEFINE q == [r EXCEPT !.tickets[s] = r.tickets[s] - 1, !.failed = failed,
                           !.deferred = deferred]
<1>4. Becomes(k, Retired(q))
  BY <1>2
<1>. HIDE DEF r
<1>5. /\ SamePublication(q, r) /\ SameSystems(q, r) /\ q.cancelled = r.cancelled
      /\ q.failed = failed /\ q.outcome = r.outcome /\ q.publicationError = r.publicationError
      /\ q.stage = r.stage /\ q.outstanding = r.outstanding
  BY <1>1 DEF RunRecord, SamePublication, SameSystems
<1>6. r.tickets[s] - 1 \in 0 .. MaxTickets
  BY <1>1, <1>3, FieldsOf, SystemRunsAssumption
<1>7. q.tickets = [r.tickets EXCEPT ![s] = r.tickets[s] - 1]
  BY <1>1 DEF RunRecord
<1>8. q \in RunRecord
  <2>1. [r.tickets EXCEPT ![s] = r.tickets[s] - 1] \in [Systems -> 0 .. MaxTickets]
    BY <1>1, <1>6, FieldsOf
  <2>. QED
    BY <1>1, <1>2, <2>1 DEF RunRecord
<1>. HIDE DEF q
<1>9. r.stage = "open"
  BY <1>1, <1>3, RunIsOpen
<1>10. Holds(q) <=> Holds(r)
  BY <1>5 DEF Holds, SamePublication
<1>11. Counts(q, 1)
  <2>1. Working(q) = Working(r)
    BY <1>5 DEF Working, SameSystems
  <2>2. Cardinality(Buffers(q)) = Cardinality(Buffers(r)) - 1
    BY <1>1, <1>6, <1>7, <1>8, BuffersChange
  <2>3. Cardinality(Working(r)) \in Nat /\ Cardinality(Buffers(r)) \in Nat
    BY <1>1, ParticipantsAre
  <2>. QED
    BY <1>1, <1>5, <1>10, <2>1, <2>2, <2>3 DEF ParticipantsCounted, Counts
<1>12. Stopped(r) => Stopped(q)
  BY <1>2, <1>5 DEF Stopped
<1>13. PublicationSound(q)
  BY <1>1, <1>5, <1>10, <1>12 DEF PublicationSound, FailuresSound, HasFailure, SamePublication,
                                  SameSystems
<1>14. SystemsInOrder(q)
  BY <1>1, <1>5, <1>12 DEF SystemsInOrder, SameSystems
<1>15. OutcomeSound(q, closed')
  BY <1>1, <1>5, <1>9, OutcomeOpen
<1>16. /\ runs[k].stage = "open" /\ q.stage = "open" /\ runs[k].invoked \subseteq q.invoked
  BY <1>5, <1>9 DEF r, SameSystems
<1>. QED
  BY <1>3, <1>4, <1>8, <1>11, <1>13, <1>14, <1>15, <1>16, RetireMove

-----------------------------------------------------------------------------
(* The end of a run. *)

(* A run whose stage is past "open" has no participant. *)
LEMMA NobodyLeft ==
  ASSUME NEW r \in RunRecord, ParticipantsCounted(r), PublicationSound(r), r.stage # "open"
  PROVE  /\ r.outstanding = 0 /\ ~ Holds(r)
         /\ \A s \in Systems : /\ r.systems[s] \in Over
                               /\ r.tickets[s] = 0
<1>1. r.outstanding = 0
  BY DEF ParticipantsCounted
<1>2. ~ Holds(r) /\ Cardinality(Working(r)) = 0 /\ Cardinality(Buffers(r)) = 0
  BY <1>1, ParticipantsAre DEF ParticipantsCounted
<1>3. \A s \in Systems : ~ (r.systems[s] \in {"queued", "running"}) /\ ~ (r.tickets[s] > 0)
  BY <1>1, RunIsOpen
<1>4. \A s \in Systems : /\ r.systems[s] \in SystemStates
                         /\ r.tickets[s] \in 0 .. MaxTickets
  BY FieldsOf
<1>. QED
  BY <1>1, <1>2, <1>3, <1>4, SystemRunsAssumption DEF SystemStates, Over

(* A run that nothing stopped and that met no error has entered every system. *)
LEMMA AllInvoked ==
  ASSUME NEW r \in RunRecord, ParticipantsCounted(r), PublicationSound(r), SystemsInOrder(r),
         r.stage = "commit", ~ Stopped(r), ~ r.publicationError
  PROVE  r.invoked = Systems
<1>1. ~ Holds(r) /\ \A s \in Systems : r.systems[s] \in {"unpublished", "ended"}
  <2>1. ~ Holds(r) /\ \A s \in Systems : r.systems[s] \in Over
    BY NobodyLeft
  <2>2. \A s \in Systems : r.systems[s] \notin {"failed", "cancelled"}
    BY <2>1 DEF PublicationSound, FailuresSound, HasFailure
  <2>. QED
    BY <2>1, <2>2 DEF Over
<1>2. r.published = Count
  BY <1>1 DEF PublicationSound, Holds, AtWork
<1>3. ASSUME NEW s \in Systems
      PROVE  s \in r.invoked
  <2>1. Position(s) \in 1 .. Count /\ Order[Position(s)] = s
    BY OrderIs
  <2>2. r.systems[Order[Position(s)]] = "unpublished" <=> Position(s) > r.published
    BY <2>1 DEF PublicationSound
  <2>3. r.systems[s] # "unpublished"
    BY <1>2, <2>1, <2>2, OrderIs
  <2>. QED
    BY <1>1, <2>3 DEF SystemsInOrder
<1>. QED
  BY <1>3, FieldsOf

LEMMA CommitMoves ==
  ASSUME RunsInv, NEW k \in DOMAIN runs, NEW throws \in BOOLEAN, Commit(k, throws)
  PROVE  RunsInv'
<1>. DEFINE r == runs[k]
<1>1. /\ r \in RunRecord /\ ParticipantsCounted(r) /\ PublicationSound(r)
      /\ SystemsInOrder(r) /\ OutcomeSound(r, closed)
  BY RunsAre
<1>2. PICK applied : 
         /\ applied \in IF Verdict(r) # "COMPLETED" THEN {{}}
                        ELSE IF throws THEN SUBSET r.deferred ELSE {r.deferred}
         /\ Becomes(k, [r EXCEPT !.stage = "release", !.applied = applied,
                                 !.result = IF throws THEN "FAILED" ELSE Verdict(r)])
  BY DEF Commit
<1>3. /\ r.stage = "commit"
      /\ closed' = (closed \/ throws) /\ dirty' = dirty \cup DirtyOf(r)
      /\ UNCHANGED <<guard, written>>
  BY DEF Commit
<1>. DEFINE result == IF throws THEN "FAILED" ELSE Verdict(r)
            q == [r EXCEPT !.stage = "release", !.applied = applied, !.result = result]
<1>4. Becomes(k, q)
  BY <1>2
<1>5. runs[k].stage = "commit" /\ DirtyOf(runs[k]) = DirtyOf(r)
  BY <1>3
<1>6. result \in {"COMPLETED", "FAILED", "CANCELLED"} /\ applied \in SUBSET Systems
  BY <1>1, <1>2, FieldsOf DEF Verdict
<1>7. /\ result = "COMPLETED" => r.invoked = Systems /\ r.errors = {} /\ applied = r.deferred
      /\ r.errors # {} \/ HasFailure(r) => result = "FAILED"
      /\ applied # {} => result = "COMPLETED" \/ throws
  <2>1. result = "COMPLETED" => ~ throws /\ Verdict(r) = "COMPLETED"
    OBVIOUS
  <2>2. Verdict(r) = "COMPLETED" => r.errors = {} /\ ~ Stopped(r) /\ ~ r.publicationError
    BY DEF Verdict, Stopped
  <2>3. ~ Stopped(r) /\ ~ r.publicationError => r.invoked = Systems
    BY <1>1, <1>3, AllInvoked
  <2>4. r.errors # {} \/ HasFailure(r) => Verdict(r) = "FAILED"
    <3>1. HasFailure(r) => r.publicationError
      BY <1>1, <1>3, NobodyLeft DEF PublicationSound, FailuresSound
    <3>. QED
      BY <3>1 DEF Verdict
  <2>5. applied # {} => Verdict(r) = "COMPLETED"
    BY <1>2
  <2>6. ~ throws /\ Verdict(r) = "COMPLETED" => applied = r.deferred
    BY <1>2
  <2>. QED
    BY <2>1, <2>2, <2>3, <2>4, <2>5, <2>6
<1>. HIDE DEF r, result
<1>8. /\ SameStop(q, r) /\ SamePublication(q, r) /\ SameSystems(q, r)
      /\ q.outstanding = r.outstanding /\ q.tickets = r.tickets /\ q.outcome = r.outcome
      /\ q.errors = r.errors /\ q.deferred = r.deferred
      /\ q.stage = "release" /\ q.applied = applied /\ q.result = result
  BY <1>1 DEF RunRecord, SameStop, SamePublication, SameSystems
<1>9. q \in RunRecord
  BY <1>1, <1>6 DEF RunRecord, AtWork
<1>. HIDE DEF q
<1>10. Holds(q) <=> Holds(r)
  BY <1>8 DEF Holds, SamePublication
<1>11. ParticipantsCounted(q)
  <2>1. Working(q) = Working(r) /\ Buffers(q) = Buffers(r)
    BY <1>8 DEF Working, Buffers, SameSystems
  <2>. QED
    BY <1>1, <1>3, <1>8, <1>10, <2>1 DEF ParticipantsCounted
<1>12. PublicationSound(q)
  BY <1>1, <1>3, <1>8, <1>10 DEF PublicationSound, FailuresSound, HasFailure, Stopped, AtWork,
                                 SameStop, SamePublication, SameSystems
<1>13. SystemsInOrder(q)
  BY <1>1, <1>8 DEF SystemsInOrder, Stopped, SameStop, SameSystems
<1>14. OutcomeSound(q, closed')
  <2>1. r.outcome = "none"
    BY <1>1, <1>3 DEF OutcomeSound
  <2>. QED
    BY <1>3, <1>7, <1>8, <2>1 DEF OutcomeSound, HasFailure, SameSystems
<1>15. closed' \in BOOLEAN /\ (closed => closed') /\ guard' \in BOOLEAN
  BY <1>3 DEF RunsInv
<1>16. GuardSound'
  <2>1. (q.stage \in AtWork <=> runs[k].stage \in AtWork) /\ guard' = guard
    BY <1>3, <1>5, <1>8 DEF AtWork
  <2>. QED
    BY <1>4, <2>1, GuardStays
<1>17. WritesSound'
  <2>1. /\ DOMAIN runs' = DOMAIN runs /\ scoped' = scoped
        /\ \A j \in DOMAIN runs : runs'[j] = IF j = k THEN q ELSE runs[j]
    BY <1>4 DEF Becomes
  <2>2. HasCoordinator' <=> HasCoordinator
    BY <2>1 DEF HasCoordinator
  <2>3. \A j \in DOMAIN runs : DirtyOf(runs[j])' = DirtyOf(runs'[j])
    BY <2>1 DEF DirtyOf, HasCoordinator, IsExclusive
  <2>4. SUFFICES ASSUME HasCoordinator, NEW c \in written', c \notin dirty'
                 PROVE  \E j \in DOMAIN runs : /\ runs'[j].stage \in {"open", "commit"}
                                               /\ c \in DirtyOf(runs'[j])
    BY <2>1, <2>2, <2>3 DEF WritesSound
  <2>5. c \in written /\ c \notin dirty
    BY <1>3, <2>4
  <2>6. PICK j \in DOMAIN runs : runs[j].stage \in {"open", "commit"} /\ c \in DirtyOf(runs[j])
    BY <2>4, <2>5 DEF RunsInv, WritesSound
  <2>7. j # k
    BY <1>3, <1>5, <2>4, <2>6
  <2>. QED
    BY <2>1, <2>6, <2>7
<1>. QED
  BY <1>4, <1>9, <1>11, <1>12, <1>13, <1>14, <1>15, <1>16, <1>17, RunMoves DEF RunSound

(* Neither a fresh run nor one that has ended has systems or buffers. *)
LEMMA NothingThere ==
  ASSUME NEW r \in RunRecord, r.systems = [s \in Systems |-> "unpublished"],
         r.tickets = [s \in Systems |-> 0]
  PROVE  /\ Cardinality(Working(r)) = 0 /\ Cardinality(Buffers(r)) = 0
         /\ SystemsInOrder(r) /\ FailuresSound(r)
         /\ \A i \in 1 .. Count : r.systems[Order[i]] = "unpublished"
<1>1. Working(r) = {}
  BY DEF Working
<1>2. Buffers(r) = {}
  BY SystemRunsAssumption DEF Buffers
<1>3. SystemsInOrder(r)
  BY DEF SystemsInOrder
<1>4. \A i \in 1 .. Count : r.systems[Order[i]] = "unpublished"
  BY OrderIs
<1>5. FailuresSound(r)
  BY DEF FailuresSound, HasFailure
<1>. QED
  BY <1>1, <1>2, <1>3, <1>4, <1>5, FS_EmptySet

LEMMA FreshIs ==
  /\ Fresh \in RunRecord /\ RunSound(Fresh) /\ Fresh.stage = "open"
  /\ \A c : OutcomeSound(Fresh, c)
<1>. DEFINE r == Fresh
<1>1. r \in RunRecord
  BY OrderIs, SystemRunsAssumption DEF Fresh, RunRecord, SystemStates, AtWork
<1>2. /\ r.systems = [s \in Systems |-> "unpublished"] /\ r.tickets = [s \in Systems |-> 0]
      /\ ~ r.started /\ ~ r.publishing /\ ~ r.sealed /\ r.outstanding = 1 /\ r.stage = "open"
      /\ r.published = 0 /\ r.outcome = "none"
  BY DEF Fresh
<1>. HIDE DEF r
<1>3. /\ Cardinality(Working(r)) = 0 /\ Cardinality(Buffers(r)) = 0
      /\ SystemsInOrder(r) /\ FailuresSound(r)
      /\ \A i \in 1 .. Count : r.systems[Order[i]] = "unpublished"
  BY <1>1, <1>2, NothingThere
<1>4. Holds(r)
  BY <1>2 DEF Holds
<1>5. ParticipantsCounted(r)
  BY <1>2, <1>3, <1>4 DEF ParticipantsCounted
<1>6. PublicationSound(r)
  BY <1>2, <1>3, <1>4 DEF PublicationSound
<1>7. \A c : OutcomeSound(r, c)
  BY <1>2 DEF OutcomeSound
<1>. QED
  BY <1>1, <1>2, <1>3, <1>5, <1>6, <1>7 DEF RunSound, r

LEMMA ReleaseMoves ==
  ASSUME RunsInv, NEW k \in DOMAIN runs, ReleaseGuard(k)
  PROVE  RunsInv'
<1>. DEFINE result == runs[k].result
            q == [Fresh EXCEPT !.started = TRUE, !.outstanding = 0, !.stage = "outcome",
                               !.result = result]
<1>1. /\ runs[k] \in RunRecord
  BY RunsAre
<1>2. /\ Becomes(k, q) /\ UNCHANGED <<closed, dirty, written>> /\ ~ guard' /\ guard' \in BOOLEAN
      /\ runs[k].stage = "release"
  BY DEF ReleaseGuard
<1>3. result \in {"none", "COMPLETED", "FAILED", "CANCELLED"}
  BY <1>1 DEF RunRecord
<1>. HIDE DEF result
<1>4. q \in RunRecord
  <2>1. Fresh \in RunRecord
    BY FreshIs
  <2>. QED
    BY <1>3, <2>1 DEF RunRecord
<1>5. /\ q.systems = [s \in Systems |-> "unpublished"] /\ q.tickets = [s \in Systems |-> 0]
      /\ q.started /\ ~ q.publishing /\ ~ q.sealed /\ q.outstanding = 0 /\ q.stage = "outcome"
      /\ q.published = 0 /\ q.outcome = "none"
  BY DEF Fresh
<1>. HIDE DEF q
<1>6. /\ Cardinality(Working(q)) = 0 /\ Cardinality(Buffers(q)) = 0
      /\ SystemsInOrder(q) /\ FailuresSound(q)
      /\ \A i \in 1 .. Count : q.systems[Order[i]] = "unpublished"
  BY <1>4, <1>5, NothingThere
<1>7. ~ Holds(q)
  BY <1>5 DEF Holds
<1>8. ParticipantsCounted(q)
  BY <1>5, <1>6, <1>7 DEF ParticipantsCounted
<1>9. PublicationSound(q)
  BY <1>5, <1>6, <1>7 DEF PublicationSound, Over, AtWork
<1>10. OutcomeSound(q, closed')
  BY <1>5 DEF OutcomeSound
<1>11. OpenRuns = {k}
  <2>1. k \in OpenRuns
    BY <1>2 DEF OpenRuns, AtWork
  <2>. QED
    BY <2>1 DEF RunsInv, GuardSound
<1>12. /\ DOMAIN runs' = DOMAIN runs /\ scoped' = scoped
       /\ \A j \in DOMAIN runs : runs'[j] = IF j = k THEN q ELSE runs[j]
  BY <1>2 DEF Becomes
<1>13. GuardSound'
  <2>1. OpenRuns' = {}
    BY <1>5, <1>11, <1>12 DEF OpenRuns, AtWork
  <2>. QED
    BY <1>2, <2>1 DEF GuardSound
<1>14. WritesSound'
  <2>1. HasCoordinator' <=> HasCoordinator
    BY <1>12 DEF HasCoordinator
  <2>2. \A j \in DOMAIN runs : runs[j].stage \in {"open", "commit"} => j = k
    BY <1>11 DEF OpenRuns, AtWork
  <2>3. HasCoordinator => written \subseteq dirty
    BY <1>2, <2>2 DEF RunsInv, WritesSound
  <2>. QED
    BY <1>2, <2>1, <2>3 DEF WritesSound
<1>15. closed' \in BOOLEAN /\ (closed => closed')
  BY <1>2 DEF RunsInv
<1>. QED
  BY <1>2, <1>4, <1>6, <1>8, <1>9, <1>10, <1>13, <1>14, <1>15, RunMoves DEF RunSound

LEMMA OutcomeMoves ==
  ASSUME RunsInv, NEW k \in DOMAIN runs, PublishOutcome(k) \/ CallBack(k)
  PROVE  RunsInv'
<1>. DEFINE r == runs[k]
<1>1. /\ r \in RunRecord /\ ParticipantsCounted(r) /\ PublicationSound(r)
      /\ SystemsInOrder(r) /\ OutcomeSound(r, closed)
  BY RunsAre
<1>2. PICK q : 
        /\ Becomes(k, q) /\ UNCHANGED <<guard, closed, dirty, written>>
        /\ \/ r.stage = "outcome" /\ q = [r EXCEPT !.stage = "callback", !.outcome = r.result]
           \/ r.stage = "callback" /\ q = [r EXCEPT !.stage = "over", !.calls = r.calls + 1]
  BY DEF PublishOutcome, CallBack
<1>. HIDE DEF r
<1>3. /\ q \in RunRecord /\ SameStop(q, r) /\ SamePublication(q, r) /\ SameSystems(q, r)
      /\ q.outstanding = r.outstanding /\ q.tickets = r.tickets
      /\ q.stage \in {"callback", "over"} /\ r.stage \in {"outcome", "callback"}
      /\ q.outcome = q.result
  <2>1. CASE r.stage = "outcome" /\ q = [r EXCEPT !.stage = "callback", !.outcome = r.result]
    BY <1>1, <2>1 DEF RunRecord, SameStop, SamePublication, SameSystems
  <2>2. CASE r.stage = "callback" /\ q = [r EXCEPT !.stage = "over", !.calls = r.calls + 1]
    <3>1. r.calls + 1 \in Nat
      BY <1>1 DEF RunRecord
    <3>2. q \in RunRecord
      BY <1>1, <2>2, <3>1 DEF RunRecord
    <3>3. SameStop(q, r) /\ SamePublication(q, r) /\ SameSystems(q, r)
      BY <1>1, <2>2 DEF RunRecord, SameStop, SamePublication, SameSystems
    <3>4. /\ q.outstanding = r.outstanding /\ q.tickets = r.tickets /\ q.stage = "over"
          /\ q.outcome = r.outcome /\ q.result = r.result
      BY <1>1, <2>2 DEF RunRecord
    <3>5. r.outcome = r.result
      BY <1>1, <2>2 DEF OutcomeSound
    <3>. QED
      BY <2>2, <3>2, <3>3, <3>4, <3>5
  <2>. QED
    BY <1>2, <2>1, <2>2
<1>4. Holds(q) <=> Holds(r)
  BY <1>3 DEF Holds, SamePublication
<1>5. ParticipantsCounted(q)
  <2>1. Working(q) = Working(r) /\ Buffers(q) = Buffers(r)
    BY <1>3 DEF Working, Buffers, SameSystems
  <2>2. (q.stage = "open" <=> r.stage = "open") /\ q.outstanding = r.outstanding
    BY <1>3
  <2>. QED
    BY <1>1, <1>4, <2>1, <2>2 DEF ParticipantsCounted
<1>6. PublicationSound(q)
  BY <1>1, <1>3, <1>4 DEF PublicationSound, FailuresSound, HasFailure, Stopped, AtWork, SameStop,
                          SamePublication, SameSystems
<1>7. SystemsInOrder(q)
  BY <1>1, <1>3 DEF SystemsInOrder, Stopped, SameStop, SameSystems
<1>8. runs[k].stage \notin AtWork /\ q.stage \notin AtWork
  BY <1>3 DEF r, AtWork
<1>9. GuardSound'
  BY <1>2, <1>8, GuardStays
<1>10. WritesSound'
  <2>1. runs[k].stage \notin {"open", "commit"} /\ dirty' = dirty /\ written' = written
    BY <1>2, <1>8 DEF AtWork
  <2>. QED
    BY <1>2, <2>1, WritesStay
<1>11. closed' \in BOOLEAN /\ (closed => closed') /\ guard' \in BOOLEAN
  BY <1>2 DEF RunsInv
<1>12. OutcomeSound(q, closed')
  BY <1>3 DEF OutcomeSound
<1>. QED
  BY <1>2, <1>3, <1>5, <1>6, <1>7, <1>9, <1>10, <1>11, <1>12, RunMoves DEF RunSound

LEMMA PrepareMoves ==
  ASSUME RunsInv, Prepare
  PROVE  RunsInv'
<1>1. /\ ~ guard /\ guard' = TRUE /\ runs' = Append(runs, Fresh) /\ runs \in Seq(RunRecord)
      /\ UNCHANGED <<scoped, closed, dirty, written>>
  BY DEF Prepare, RunsInv
<1>. DEFINE n == Len(runs) + 1
<1>2. /\ runs' \in Seq(RunRecord) /\ DOMAIN runs = 1 .. Len(runs) /\ Len(runs) \in Nat
      /\ DOMAIN runs' = DOMAIN runs \cup {n} /\ n \notin DOMAIN runs
      /\ runs'[n] = Fresh /\ \A j \in DOMAIN runs : runs'[j] = runs[j]
  <2>1. Fresh \in RunRecord
    BY FreshIs
  <2>2. /\ Append(runs, Fresh) \in Seq(RunRecord) /\ Len(Append(runs, Fresh)) = Len(runs) + 1
        /\ \A i \in 1 .. Len(runs) : Append(runs, Fresh)[i] = runs[i]
        /\ Append(runs, Fresh)[Len(runs) + 1] = Fresh
    BY <1>1, <2>1, AppendProperties
  <2>3. Len(runs) \in Nat /\ DOMAIN runs = 1 .. Len(runs)
    BY <1>1, LenProperties
  <2>4. DOMAIN runs' = 1 .. Len(runs) + 1
    BY <1>1, <2>2, LenProperties
  <2>. QED
    BY <1>1, <2>2, <2>3, <2>4
<1>. HIDE DEF n
<1>3. ASSUME NEW j \in DOMAIN runs'
      PROVE  RunSound(runs[j])' /\ OutcomeSound(runs[j], closed)'
  <2>1. RunSound(runs'[j]) /\ OutcomeSound(runs'[j], closed')
    <3>1. CASE j = n
      BY <1>2, <3>1, FreshIs
    <3>2. CASE j \in DOMAIN runs
      <4>1. RunSound(runs[j]) /\ OutcomeSound(runs[j], closed)
        BY <3>2 DEF RunsInv
      <4>. QED
        BY <1>1, <1>2, <3>2, <4>1
    <3>. QED
      BY <1>2, <3>1, <3>2
  <2>. QED
    BY <1>1, <2>1, RecordLasts
<1>4. OpenRuns = {}
  BY <1>1 DEF RunsInv, GuardSound
<1>5. GuardSound'
  <2>1. OpenRuns' = {n}
    BY <1>2, <1>4, FreshIs DEF OpenRuns, AtWork
  <2>. QED
    BY <1>1, <1>2, <2>1 DEF GuardSound
<1>6. WritesSound'
  <2>1. HasCoordinator' <=> HasCoordinator
    BY <1>1 DEF HasCoordinator
  <2>2. HasCoordinator => written \subseteq dirty
    BY <1>4 DEF RunsInv, WritesSound, OpenRuns, AtWork
  <2>. QED
    BY <1>1, <2>1, <2>2 DEF WritesSound
<1>7. scoped' \in Layouts /\ guard' \in BOOLEAN /\ closed' \in BOOLEAN
  BY <1>1 DEF RunsInv
<1>. QED
  BY <1>2, <1>3, <1>5, <1>6, <1>7 DEF RunsInv

(* The records stay and whatever is written is taken along with its summary. *)
LEMMA SummaryMoves ==
  ASSUME RunsInv, TakeDirtySummary \/ UNCHANGED systemRunVars
  PROVE  RunsInv'
<1>1. /\ UNCHANGED <<scoped, runs, guard, closed>>
      /\ UNCHANGED <<dirty, written>> \/ written' = {}
  BY DEF TakeDirtySummary, systemRunVars
<1>2. ASSUME NEW j \in DOMAIN runs'
      PROVE  RunSound(runs[j])' /\ OutcomeSound(runs[j], closed)'
  <2>1. RunSound(runs'[j]) /\ OutcomeSound(runs'[j], closed')
    BY <1>1 DEF RunsInv
  <2>. QED
    BY <1>1, <2>1, RecordLasts
<1>3. GuardSound'
  BY <1>1 DEF RunsInv, GuardSound, OpenRuns
<1>4. WritesSound'
  <2>1. CASE written' = {}
    BY <2>1 DEF WritesSound
  <2>2. CASE UNCHANGED <<dirty, written>>
    BY <1>1, <2>2 DEF RunsInv, WritesSound, DirtyOf, HasCoordinator, IsExclusive
  <2>. QED
    BY <1>1, <2>1, <2>2
<1>. QED
  BY <1>1, <1>2, <1>3, <1>4 DEF RunsInv

-----------------------------------------------------------------------------
(* What the invariant says. *)

LEMMA RunsInitSound ==
  ASSUME SystemRunInit
  PROVE  RunsInv
<1>1. runs \in Seq(RunRecord) /\ DOMAIN runs = {}
  BY DEF SystemRunInit
<1>. QED
  BY <1>1 DEF SystemRunInit, RunsInv, GuardSound, OpenRuns, WritesSound

LEMMA RunsNextSound ==
  ASSUME RunsInv, [SystemRunNext]_systemRunVars
  PROVE  RunsInv'
<1>1. CASE Prepare
  BY <1>1, PrepareMoves
<1>2. CASE TakeDirtySummary \/ UNCHANGED systemRunVars
  BY <1>2, SummaryMoves
<1>3. ASSUME NEW k \in DOMAIN runs, OwnerSteps(k) \/ RequestCancel(k)
      PROVE  RunsInv'
  BY <1>3, StartMoves, AbandonMoves, CancelMoves DEF OwnerSteps
<1>4. ASSUME NEW k \in DOMAIN runs, NEW s \in Systems,
             \/ EnterSystem(k, s) \/ LeaveSystem(k, s, FALSE) \/ LeaveSystem(k, s, TRUE)
             \/ OperationFails(k, s) \/ OperationCancelled(k, s) \/ CreateBuffer(k, s)
             \/ SubmitBuffer(k, s) \/ DropBuffer(k, s, FALSE) \/ DropBuffer(k, s, TRUE)
      PROVE  RunsInv'
  BY <1>4, EnterMoves, LeaveMoves, OperationMoves, CreateMoves, BufferEndMoves
<1>5. ASSUME NEW k \in DOMAIN runs,
             \/ PublishNext(k) \/ PublishFails(k) \/ PublicationEnds(k) \/ Drained(k)
             \/ Commit(k, FALSE) \/ Commit(k, TRUE)
             \/ ReleaseGuard(k) \/ PublishOutcome(k) \/ CallBack(k)
      PROVE  RunsInv'
  BY <1>5, PublishMoves, CancelMoves, PublicationEndMoves, DrainedMoves, CommitMoves,
     ReleaseMoves, OutcomeMoves
<1>. QED
  BY <1>1, <1>2, <1>3, <1>4, <1>5 DEF SystemRunNext, RunSteps, BufferEnds

(* Of two systems one comes first, and the later one waits for it if their
   footprints meet: through the graph, or behind the coordinator. *)
LEMMA ConflictsWait ==
  ASSUME scoped \in Layouts, NEW s \in Systems, NEW t \in Systems,
         Position(s) < Position(t), FootprintsOverlap(s, t) \/ FootprintsOverlap(t, s)
  PROVE  s \in Dependencies(t) \cup HeldBy(t)
<1>1. FootprintsOverlap(s, t)
  BY DEF FootprintsOverlap
<1>2. CASE HasCoordinator
  BY <1>1, <1>2 DEF HeldBy
<1>3. CASE ~ HasCoordinator
  <2>1. ~ IsExclusive(s) /\ ~ IsExclusive(t) /\ scoped = {}
    BY <1>3 DEF IsExclusive, HasCoordinator
  <2>2. Conflict(s, t)
    BY <1>1, <2>1 DEF FootprintsOverlap, Conflict
  <2>. QED
    BY <2>1, <2>2 DEF Dependencies
<1>. QED
  BY <1>2, <1>3

LEMMA RunsInvIsSafe ==
  ASSUME RunsInv
  PROVE  RunsAreSafe
<1>1. AccessesAreExclusive
  <2>1. SUFFICES ASSUME NEW k \in DOMAIN runs, NEW s \in Systems, NEW t \in Systems
                 PROVE  LET state == runs[k].systems IN
                        /\ s # t /\ state[s] = "running" /\ state[t] = "running"
                              => ~ FootprintsOverlap(s, t)
                        /\ <<s, t>> \in Constraints /\ state[t] \in {"running", "ended"}
                              => state[s] = "ended"
    BY DEF AccessesAreExclusive
  <2>. DEFINE state == runs[k].systems
  <2>2. \A u \in Systems : state[u] \in {"running", "ended"} =>
           \A p \in Dependencies(u) \cup HeldBy(u) : state[p] = "ended"
    BY RunsAre DEF SystemsInOrder
  <2>. HIDE DEF state
  <2>3. ASSUME s # t, state[s] = "running", state[t] = "running", FootprintsOverlap(s, t)
        PROVE  FALSE
    <3>1. scoped \in Layouts
      BY DEF RunsInv
    <3>2. Position(s) < Position(t) \/ Position(t) < Position(s)
      <4>1. /\ Position(s) \in 1 .. Count /\ Order[Position(s)] = s
            /\ Position(t) \in 1 .. Count /\ Order[Position(t)] = t /\ Count \in Nat
        BY OrderIs
      <4>. QED
        BY <2>3, <4>1
    <3>3. CASE Position(s) < Position(t)
      BY <2>2, <2>3, <3>1, <3>3, ConflictsWait
    <3>4. CASE Position(t) < Position(s)
      BY <2>2, <2>3, <3>1, <3>4, ConflictsWait
    <3>. QED
      BY <3>2, <3>3, <3>4
  <2>4. ASSUME <<s, t>> \in Constraints, state[t] \in {"running", "ended"}
        PROVE  state[s] = "ended"
    <3>1. s \in Dependencies(t)
      BY <2>4 DEF Dependencies
    <3>. QED
      BY <2>2, <2>4, <3>1
  <2>. QED
    BY <2>3, <2>4 DEF state
<1>2. NothingOutlivesTheRun
  <2>1. SUFFICES ASSUME NEW k \in DOMAIN runs, runs[k].stage # "open"
                 PROVE  /\ ~ runs[k].publishing /\ runs[k].outstanding = 0
                        /\ \A s \in Systems : /\ runs[k].systems[s] \in Over
                                              /\ runs[k].tickets[s] = 0
    BY DEF NothingOutlivesTheRun
  <2>. DEFINE r == runs[k]
  <2>2. r \in RunRecord /\ ParticipantsCounted(r) /\ PublicationSound(r) /\ r.stage # "open"
    BY <2>1, RunsAre
  <2>. HIDE DEF r
  <2>3. /\ ~ Holds(r) /\ r.outstanding = 0
        /\ \A s \in Systems : r.systems[s] \in Over /\ r.tickets[s] = 0
    BY <2>2, NobodyLeft
  <2>. QED
    BY <2>3 DEF r, Holds
<1>3. OutcomesAreTrue
  <2>1. ASSUME NEW k \in DOMAIN runs
        PROVE  OutcomeSound(runs[k], closed)
    BY RunsAre
  <2>. QED
    BY <2>1 DEF OutcomesAreTrue, OutcomeSound
<1>4. RunsAreExclusive
  <2>1. OpenRuns = {k \in DOMAIN runs : runs[k].stage \in {"open", "commit", "release"}}
    BY DEF OpenRuns, AtWork
  <2>2. Cardinality(OpenRuns) = IF guard THEN 1 ELSE 0
    BY FS_Singleton, FS_EmptySet DEF RunsInv, GuardSound
  <2>. QED
    BY <2>1, <2>2 DEF RunsAreExclusive
<1>5. WritesAreReported
  <2>1. ASSUME HasCoordinator, ~ guard, NEW c \in written
        PROVE  c \in dirty
    <3>1. OpenRuns = {}
      BY <2>1 DEF RunsInv, GuardSound
    <3>. QED
      BY <2>1, <3>1 DEF RunsInv, WritesSound, OpenRuns, AtWork
  <2>. QED
    BY <2>1 DEF WritesAreReported
<1>. QED
  BY <1>1, <1>2, <1>3, <1>4, <1>5 DEF RunsAreSafe

(* A World's run keeps conflicting systems apart, leaves nothing of its own
   behind, reports the outcome that its systems had (those included that never
   ran since a submission failed) and every component they wrote, and works on
   the World alone, however its systems, buffers and owner interleave. *)
THEOREM RunsSafe == SystemRunSpec => []RunsAreSafe
<1>1. SystemRunInit => RunsInv
  BY RunsInitSound
<1>2. RunsInv /\ [SystemRunNext]_systemRunVars => RunsInv'
  BY RunsNextSound
<1>3. RunsInv => RunsAreSafe
  BY RunsInvIsSafe
<1>. QED
  BY <1>1, <1>2, <1>3, PTL DEF SystemRunSpec

=============================================================================
