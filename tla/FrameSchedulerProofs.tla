------------------------ MODULE FrameSchedulerProofs ------------------------
(***************************************************************************)
(* Proofs about the frame scheduler, for every ring size and every index    *)
(* range: its invariants, its action properties, and that it implements the *)
(* pipeline of FramePipeline.tla.  Then proofs about the hierarchy of a     *)
(* World, for every finite set of indices: its links stay a forest.         *)
(***************************************************************************)
EXTENDS FrameScheduler, Hierarchy, FiniteSetTheorems, FunctionTheorems, WellFoundedInduction, TLAPS

(* The inductive invariant.  The checkpoint can only be kept right because a
   frame without a draw signal is the newest one (UndrawnIsNewest), and frames
   can only stay in the window because each is in the slot of its index
   (OccupiedSlots) and slots are taken in ring order. *)
FreeSlots ==
  \A s \in Slot :
    /\ state[s] = "FREE" => app[s] = InvalidIndex /\ gpu[s] = "none" /\ arena[s] = {}
                            /\ draw[s] = 0
    /\ app[s] = InvalidIndex => state[s] = "FREE"

OccupiedSlots ==
  \A s \in Slot : state[s] # "FREE" =>
    /\ SlotOf(app[s]) = s
    /\ app[s] < nextFrame
    /\ nextFrame <= app[s] + MaxActiveFrames
    /\ arena[s] \subseteq {app[s]}

UndrawnIsNewest ==
  \A s \in Slot : state[s] # "FREE" /\ draw[s] = 0 => app[s] + 1 = nextFrame

FinalizedIsDrawn ==
  \A s \in Slot :
    state[s] \in {"FINALIZE", "SUBMITTED", "GPU_IN_FLIGHT", "COMPLETE"} => draw[s] # 0

PendingIsInFlight ==
  \A s \in Slot : gpu[s] = "pending" => state[s] \in {"SUBMITTED", "GPU_IN_FLIGHT"}

HandlesArePast ==
  /\ nextSim = nextFrame
  /\ \A s \in Slot : generation[s] <= nextFrame
  /\ \A h \in issued : h.app < nextFrame

IInv ==
  /\ TypeOK
  /\ FreeSlots
  /\ OccupiedSlots
  /\ UndrawnIsNewest
  /\ FinalizedIsDrawn
  /\ PendingIsInFlight
  /\ HandlesArePast
  /\ CheckpointAwaitsNewest

-----------------------------------------------------------------------------
(* Arithmetic of the ring. *)

(* Division with remainder. *)
LEMMA DivMod ==
  ASSUME NEW n \in Nat \ {0}, NEW f \in Nat
  PROVE  /\ f % n \in 0 .. n - 1
         /\ f \div n \in Nat
         /\ f = n * (f \div n) + (f % n)
BY SMT

(* A positive multiple of n is at least n. *)
LEMMA MultipleAtLeast ==
  ASSUME NEW n \in Nat \ {0}, NEW k \in Nat \ {0}
  PROVE  n * k >= n
BY SMT

(* Remainders are unique. *)
LEMMA RemainderUnique ==
  ASSUME NEW n \in Nat \ {0}, NEW q1 \in Nat, NEW q2 \in Nat,
         NEW r1 \in 0 .. n - 1, NEW r2 \in 0 .. n - 1,
         n * q1 + r1 = n * q2 + r2, q1 <= q2
  PROVE  r1 = r2
<1>1. CASE q1 = q2
  BY <1>1
<1>2. CASE q1 < q2
  <2>1. q2 - q1 \in Nat \ {0}
    BY <1>2
  <2>2. n * (q2 - q1) >= n
    BY <2>1, MultipleAtLeast
  <2>3. n * (q2 - q1) = n * q2 - n * q1
    BY SMT
  <2>. QED
    BY <2>2, <2>3
<1>. QED
  BY <1>1, <1>2

(* A frame has the slot of the frame that comes n frames later. *)
LEMMA ModShift ==
  ASSUME NEW n \in Nat \ {0}, NEW f \in Nat
  PROVE  (f + n) % n = f % n
<1>. DEFINE q == f \div n  r == f % n  qs == (f + n) \div n  rs == (f + n) % n
<1>1. f + n \in Nat
  OBVIOUS
<1>2. f = n * q + r /\ q \in Nat /\ r \in 0 .. n - 1
  BY DivMod
<1>3. f + n = n * qs + rs /\ qs \in Nat /\ rs \in 0 .. n - 1
  BY <1>1, DivMod
<1>. HIDE DEF q, r, qs, rs
<1>4. n * (q + 1) = n * q + n
  BY <1>2
<1>5. n * (q + 1) + r = n * qs + rs /\ q + 1 \in Nat
  BY <1>2, <1>3, <1>4
<1>6. q + 1 <= qs => r = rs
  BY <1>2, <1>3, <1>5, RemainderUnique
<1>7. qs <= q + 1 => r = rs
  BY <1>2, <1>3, <1>5, RemainderUnique
<1>8. r = rs
  BY <1>2, <1>3, <1>6, <1>7
<1>. QED
  BY <1>8 DEF r, rs

(* Every index has a slot, the one of the index MaxActiveFrames further. *)
LEMMA SlotOfIndex ==
  ASSUME NEW f \in Nat
  PROVE  SlotOf(f) \in Slot /\ SlotOf(f + MaxActiveFrames) = SlotOf(f)
BY DivMod, ModShift, FrameSchedulerAssumption DEF SlotOf, Slot

-----------------------------------------------------------------------------
(* The initial state satisfies the invariant. *)
LEMMA InitIInv == Init => IInv
BY FrameSchedulerAssumption
   DEF Init, IInv, TypeOK, FreeSlots, OccupiedSlots, UndrawnIsNewest,
       FinalizedIsDrawn, PendingIsInFlight, HandlesArePast,
       CheckpointAwaitsNewest, State, Index, Frame, Slot, Handle

(* The type part of what an issued handle is. *)
LEMMA IssuedHandle ==
  ASSUME TypeOK, NEW h \in issued
  PROVE  /\ h.app \in Frame /\ h.sim \in Frame /\ h.slot \in Slot
         /\ h.gen \in Nat \ {0}
         /\ h.app \in Nat /\ h.app # InvalidIndex
BY FrameSchedulerAssumption DEF TypeOK, Handle, Frame

(* A step from one stage to another keeps the invariant, if it respects what
   finalized frames and pending futures require. *)
LEMMA TransitionIInv ==
  ASSUME IInv, NEW h \in issued,
         NEW from \in State \ {"FREE"}, NEW to \in State \ {"FREE"},
         Transition(h, from, to), UNCHANGED restVars,
         gpu' \in [Slot -> {"none", "pending", "ready"}],
         \A s \in Slot : s # h.slot => gpu'[s] = gpu[s],
         to \in {"FINALIZE", "SUBMITTED", "GPU_IN_FLIGHT", "COMPLETE"}
           => draw[h.slot] # 0,
         gpu'[h.slot] = "pending" => to \in {"SUBMITTED", "GPU_IN_FLIGHT"}
  PROVE  IInv'
<1>. USE IssuedHandle DEF IInv, Transition, restVars
<1>1. h.slot \in Slot /\ state[h.slot] # "FREE" /\ state' = [state EXCEPT ![h.slot] = to]
  OBVIOUS
<1>2. /\ state' \in [Slot -> State]
      /\ \A s \in Slot : state'[s] = IF s = h.slot THEN to ELSE state[s]
  BY <1>1 DEF TypeOK
<1>3. \A s \in Slot : state'[s] = "FREE" <=> state[s] = "FREE"
  BY <1>1, <1>2
<1>4. TypeOK'
  BY <1>2 DEF TypeOK
<1>5. FreeSlots'
  BY <1>1, <1>2, <1>3 DEF FreeSlots
<1>6. OccupiedSlots'
  BY <1>3 DEF OccupiedSlots, SlotOf
<1>7. UndrawnIsNewest'
  BY <1>3 DEF UndrawnIsNewest
<1>8. FinalizedIsDrawn'
  BY <1>2 DEF FinalizedIsDrawn
<1>9. PendingIsInFlight'
  BY <1>2 DEF PendingIsInFlight
<1>10. HandlesArePast'
  BY DEF HandlesArePast
<1>11. CheckpointAwaitsNewest'
  BY <1>3 DEF CheckpointAwaitsNewest
<1>. QED
  BY <1>4, <1>5, <1>6, <1>7, <1>8, <1>9, <1>10, <1>11 DEF IInv

(* Two slots never hold frames of the same index. *)
LEMMA FramesAreDistinct ==
  ASSUME IInv, NEW s \in Slot, NEW t \in Slot,
         state[s] # "FREE", state[t] # "FREE", app[s] = app[t]
  PROVE  s = t
BY DEF IInv, OccupiedSlots

(* Recycling and aborting empty the slot; the checkpoint is released when the
   frame was the newest one and not yet drawn. *)
LEMMA ResetIInv ==
  ASSUME IInv, NEW h \in issued, Valid(h), state[h.slot] # "FREE",
         ResetFrameData(h.slot),
         checkpoint' = IF ReleasesCheckpoint(h) THEN "UPDATE" ELSE checkpoint,
         UNCHANGED <<nextFrame, nextSim, issued>>
  PROVE  IInv'
<1>. USE IssuedHandle DEF IInv, ResetFrameData
<1>1. h.slot \in Slot /\ InvalidIndex \in Index
  BY DEF Index
<1>2. /\ state' \in [Slot -> State]
      /\ \A s \in Slot : state'[s] = IF s = h.slot THEN "FREE" ELSE state[s]
  BY <1>1 DEF TypeOK, State
<1>3. /\ app' \in [Slot -> Index]
      /\ \A s \in Slot : app'[s] = IF s = h.slot THEN InvalidIndex ELSE app[s]
  BY <1>1 DEF TypeOK
<1>4. /\ draw' \in [Slot -> Index]
      /\ \A s \in Slot : draw'[s] = IF s = h.slot THEN 0 ELSE draw[s]
  BY <1>1, FrameSchedulerAssumption DEF TypeOK, Index, Frame
<1>5. /\ gpu' \in [Slot -> {"none", "pending", "ready"}]
      /\ \A s \in Slot : gpu'[s] = IF s = h.slot THEN "none" ELSE gpu[s]
  BY <1>1 DEF TypeOK
<1>6. /\ arena' \in [Slot -> SUBSET Frame]
      /\ \A s \in Slot : arena'[s] = IF s = h.slot THEN {} ELSE arena[s]
  BY <1>1 DEF TypeOK
<1>7. TypeOK'
  BY <1>1, <1>2, <1>3, <1>4, <1>5, <1>6, FrameSchedulerAssumption
     DEF TypeOK, Index, Frame
<1>8. FreeSlots'
  BY <1>2, <1>3, <1>4, <1>5, <1>6 DEF FreeSlots
<1>9. OccupiedSlots'
  BY <1>2, <1>3, <1>6 DEF OccupiedSlots, SlotOf
<1>10. UndrawnIsNewest'
  BY <1>2, <1>3, <1>4 DEF UndrawnIsNewest
<1>11. FinalizedIsDrawn'
  BY <1>2, <1>4 DEF FinalizedIsDrawn
<1>12. PendingIsInFlight'
  BY <1>2, <1>5 DEF PendingIsInFlight
<1>13. HandlesArePast'
  BY DEF HandlesArePast
<1>14. CheckpointAwaitsNewest'
  <2>1. CASE ReleasesCheckpoint(h)
    <3>1. \A s \in Slot : state[s] # "FREE" /\ draw[s] = 0 => s = h.slot
      <4>. TAKE s \in Slot
      <4>. HAVE state[s] # "FREE" /\ draw[s] = 0
      <4>1. app[s] + 1 = nextFrame /\ app[h.slot] + 1 = nextFrame
        BY <2>1 DEF ReleasesCheckpoint, UndrawnIsNewest
      <4>2. app[s] \in Nat /\ app[h.slot] \in Nat
        BY <1>1, FrameSchedulerAssumption DEF TypeOK, Index, Frame
      <4>. QED
        BY <4>1, <4>2, <1>1, FramesAreDistinct
    <3>. QED
      BY <2>1, <3>1, <1>2, <1>4 DEF CheckpointAwaitsNewest
  <2>2. CASE ~ ReleasesCheckpoint(h)
    BY <2>2, <1>1, <1>2, <1>3, <1>4 DEF CheckpointAwaitsNewest, ReleasesCheckpoint
  <2>. QED
    BY <2>1, <2>2
<1>. QED
  BY <1>7, <1>8, <1>9, <1>10, <1>11, <1>12, <1>13, <1>14

(* A new frame takes the slot of the frame MaxActiveFrames before it, which is
   free, so that the others stay in the window. *)
LEMMA AcquireIInv ==
  ASSUME IInv, TryAcquireFrame
  PROVE  IInv'
<1>. DEFINE new == SlotOf(nextFrame)
            g == generation[new] + 1
<1>. USE DEF IInv
<1>1. /\ nextFrame \in Frame /\ nextSim = nextFrame /\ nextFrame \in Nat
      /\ checkpoint = "UPDATE" /\ checkpoint' = "DRAW"
      /\ nextFrame' = nextFrame + 1 /\ nextSim' = nextFrame'
  BY FrameSchedulerAssumption
     DEF TryAcquireFrame, IndicesLeft, TypeOK, Index, Frame, HandlesArePast
<1>2. new \in Slot
  BY <1>1, SlotOfIndex
<1>3. g \in 1 .. InvalidIndex /\ g <= nextFrame + 1
  BY <1>1, <1>2, FrameSchedulerAssumption
     DEF TryAcquireFrame, TypeOK, Index, Frame, HandlesArePast
<1>4. /\ state[new] = "FREE"
      /\ \A s \in Slot : state'[s] = IF s = new THEN "ACQUIRED" ELSE state[s]
      /\ \A s \in Slot : app'[s] = IF s = new THEN nextFrame ELSE app[s]
      /\ \A s \in Slot : generation'[s] = IF s = new THEN g ELSE generation[s]
      /\ \A s \in Slot : draw'[s] = IF s = new THEN 0 ELSE draw[s]
      /\ gpu' = gpu /\ arena' = arena
  BY <1>2 DEF TryAcquireFrame, TypeOK
<1>5. issued' = issued \cup
        {[app |-> nextFrame, sim |-> nextSim, slot |-> new, gen |-> g]}
  BY DEF TryAcquireFrame
<1>6. TypeOK'
  <2>1. /\ g \in Index /\ 0 \in Index /\ nextFrame \in Index
        /\ nextFrame + 1 \in Index
        /\ nextFrame \in Nat
    BY <1>1, <1>3, FrameSchedulerAssumption DEF Index, Frame
  <2>2. /\ state' \in [Slot -> State] /\ app' \in [Slot -> Index]
        /\ sim' \in [Slot -> Index] /\ generation' \in [Slot -> Index]
        /\ update' \in [Slot -> Index] /\ draw' \in [Slot -> Index]
    BY <2>1, <1>1, <1>2 DEF TryAcquireFrame, TypeOK, State
  <2>3. [app |-> nextFrame, sim |-> nextSim, slot |-> new, gen |-> g] \in Handle
    BY <1>1, <1>2, <1>3, FrameSchedulerAssumption DEF Handle
  <2>. QED
    BY <2>1, <2>2, <2>3, <1>1, <1>4, <1>5 DEF TypeOK
<1>7. FreeSlots'
  BY <1>1, <1>4, FrameSchedulerAssumption DEF FreeSlots, Frame
<1>8. OccupiedSlots'
  <2>. SUFFICES ASSUME NEW s \in Slot, state'[s] # "FREE"
                PROVE  /\ SlotOf(app'[s]) = s
                       /\ app'[s] < nextFrame'
                       /\ nextFrame' <= app'[s] + MaxActiveFrames
                       /\ arena'[s] \subseteq {app'[s]}
    BY DEF OccupiedSlots, SlotOf
  <2>1. CASE s = new
    BY <2>1, <1>1, <1>4, FrameSchedulerAssumption DEF FreeSlots
  <2>2. CASE s # new
    <3>1. /\ state[s] # "FREE" /\ SlotOf(app[s]) = s /\ app[s] < nextFrame
          /\ nextFrame <= app[s] + MaxActiveFrames /\ app[s] \in Nat
      BY <2>2, <1>1, <1>4, FrameSchedulerAssumption
         DEF OccupiedSlots, TypeOK, Index, Frame
    <3>2. nextFrame # app[s] + MaxActiveFrames
      BY <3>1, <2>2, SlotOfIndex
    <3>. QED
      BY <3>1, <3>2, <2>2, <1>1, <1>4, FrameSchedulerAssumption DEF OccupiedSlots
  <2>. QED
    BY <2>1, <2>2
<1>9. \A s \in Slot : state[s] # "FREE" => draw[s] # 0
  BY <1>1 DEF CheckpointAwaitsNewest, UndrawnIsNewest
<1>10. UndrawnIsNewest'
  BY <1>1, <1>4, <1>9 DEF UndrawnIsNewest
<1>11. FinalizedIsDrawn'
  BY <1>4 DEF FinalizedIsDrawn
<1>12. PendingIsInFlight'
  BY <1>4 DEF PendingIsInFlight
<1>13. HandlesArePast'
  <2>1. \A h \in issued : h.app \in Nat
    BY IssuedHandle
  <2>2. \A h \in issued' : h.app < nextFrame'
    BY <2>1, <1>1, <1>5 DEF HandlesArePast
  <2>3. \A s \in Slot : generation'[s] <= nextFrame'
    BY <1>1, <1>3, <1>4, FrameSchedulerAssumption
       DEF HandlesArePast, TypeOK, Index, Frame
  <2>. QED
    BY <2>2, <2>3, <1>1 DEF HandlesArePast
<1>14. CheckpointAwaitsNewest'
  BY <1>1, <1>2, <1>4 DEF CheckpointAwaitsNewest
<1>. QED
  BY <1>6, <1>7, <1>8, <1>10, <1>11, <1>12, <1>13, <1>14

(* The draw signal of the newest frame releases the checkpoint. *)
LEMMA SignalDrawIInv ==
  ASSUME IInv, NEW h \in issued, SignalDraw(h)
  PROVE  IInv'
<1>. USE IssuedHandle DEF IInv, SignalDraw, Valid
<1>1. /\ h.slot \in Slot /\ app[h.slot] # InvalidIndex /\ state[h.slot] # "FREE"
      /\ generation[h.slot] \in Index /\ generation[h.slot] # 0
  BY DEF FreeSlots, TypeOK
<1>2. \A s \in Slot : draw'[s] = IF s = h.slot THEN generation[s] ELSE draw[s]
  BY <1>1 DEF TypeOK
<1>3. TypeOK'
  BY <1>1 DEF TypeOK
<1>4. FreeSlots'
  BY <1>1, <1>2 DEF FreeSlots
<1>5. OccupiedSlots'
  BY DEF OccupiedSlots, SlotOf
<1>6. UndrawnIsNewest'
  BY <1>1, <1>2 DEF UndrawnIsNewest
<1>7. FinalizedIsDrawn'
  BY <1>1, <1>2 DEF FinalizedIsDrawn
<1>8. PendingIsInFlight' /\ HandlesArePast'
  BY DEF PendingIsInFlight, HandlesArePast
<1>9. CheckpointAwaitsNewest'
  <2>1. \A s \in Slot : state[s] # "FREE" /\ draw[s] = 0 => s = h.slot
    <3>. TAKE s \in Slot
    <3>. HAVE state[s] # "FREE" /\ draw[s] = 0
    <3>1. app[s] + 1 = nextFrame /\ app[h.slot] + 1 = nextFrame
      BY <1>1 DEF UndrawnIsNewest
    <3>2. app[s] \in Nat /\ app[h.slot] \in Nat
      BY <1>1, FrameSchedulerAssumption DEF TypeOK, Index, Frame
    <3>. QED
      BY <3>1, <3>2, <1>1, FramesAreDistinct
  <2>. QED
    BY <2>1, <1>1, <1>2 DEF CheckpointAwaitsNewest
<1>. QED
  BY <1>3, <1>4, <1>5, <1>6, <1>7, <1>8, <1>9

(* Emplacing an object touches the arena of the frame only. *)
LEMMA EmplaceIInv ==
  ASSUME IInv, NEW h \in issued, Emplace(h)
  PROVE  IInv'
<1>. USE IssuedHandle DEF IInv, Emplace, Valid
<1>1. h.slot \in Slot /\ state[h.slot] # "FREE" /\ app[h.slot] = h.app
  BY DEF FreeSlots
<1>2. /\ arena' \in [Slot -> SUBSET Frame]
      /\ \A s \in Slot : arena'[s] = IF s = h.slot THEN arena[s] \cup {h.app} ELSE arena[s]
  BY <1>1 DEF TypeOK
<1>3. TypeOK'
  BY <1>2 DEF TypeOK
<1>4. FreeSlots'
  BY <1>1, <1>2 DEF FreeSlots
<1>5. OccupiedSlots'
  BY <1>1, <1>2 DEF OccupiedSlots, SlotOf
<1>. QED
  BY <1>3, <1>4, <1>5
     DEF UndrawnIsNewest, FinalizedIsDrawn, PendingIsInFlight, HandlesArePast,
         CheckpointAwaitsNewest

(* Every step keeps the invariant. *)
LEMMA NextIInv == IInv /\ [Next]_vars => IInv'
<1>. SUFFICES ASSUME IInv, [Next]_vars
              PROVE  IInv'
  OBVIOUS
<1>1. CASE TryAcquireFrame
  BY <1>1, AcquireIInv
<1>2. ASSUME NEW h \in issued, Call(h)
      PROVE  IInv'
  <2>. USE <1>2, IssuedHandle DEF IInv
  <2>0. h.slot \in Slot /\ h.gen # 0 /\ (Valid(h) => state[h.slot] # "FREE")
    BY DEF Valid, FreeSlots
  <2>1. CASE SignalDraw(h)
    BY <2>1, SignalDrawIInv
  <2>2. CASE ArmFrame(h)
    BY <2>2, <2>0, TransitionIInv
       DEF ArmFrame, State, TypeOK, Transition, PendingIsInFlight
  <2>3. CASE BeginUpdate(h)
    BY <2>3, <2>0, TransitionIInv
       DEF BeginUpdate, State, TypeOK, Transition, PendingIsInFlight
  <2>4. CASE EndUpdate(h)
    BY <2>4, <2>0, TransitionIInv
       DEF EndUpdate, State, TypeOK, Transition, PendingIsInFlight
  <2>5. CASE BeginFinalize(h)
    BY <2>5, <2>0, TransitionIInv
       DEF BeginFinalize, State, TypeOK, Transition, PendingIsInFlight
  <2>6. CASE CompleteFrame(h)
    BY <2>6, <2>0, TransitionIInv
       DEF CompleteFrame, State, TypeOK, Transition, PendingIsInFlight,
           FinalizedIsDrawn
  <2>7. CASE MarkSubmitted(h)
    <3>1. /\ gpu' \in [Slot -> {"none", "pending", "ready"}]
          /\ \A s \in Slot : s # h.slot => gpu'[s] = gpu[s]
      BY <2>7, <2>0 DEF MarkSubmitted, TypeOK
    <3>2. draw[h.slot] # 0 /\ Transition(h, "FINALIZE", "SUBMITTED") /\ UNCHANGED restVars
      BY <2>7, <2>0 DEF MarkSubmitted, Transition, FinalizedIsDrawn
    <3>. QED
      BY <3>1, <3>2, TransitionIInv DEF State
  <2>8. CASE BeginGpu(h)
    BY <2>8, <2>0, TransitionIInv
       DEF BeginGpu, State, TypeOK, Transition, PendingIsInFlight, FinalizedIsDrawn
  <2>9. CASE CompleteGpu(h)
    BY <2>9, <2>0, TransitionIInv
       DEF CompleteGpu, State, TypeOK, Transition, FinalizedIsDrawn
  <2>10. CASE RecycleFrame(h)
    <3>1. ~ ReleasesCheckpoint(h)
      BY <2>10, <2>0 DEF RecycleFrame, FinalizedIsDrawn, ReleasesCheckpoint
    <3>. QED
      BY <2>10, <2>0, <3>1, ResetIInv DEF RecycleFrame
  <2>11. CASE AbortFrame(h)
    <3>1. CASE state[h.slot] \notin {"FREE", "SUBMITTED", "GPU_IN_FLIGHT"}
      BY <2>11, <3>1, <2>0, ResetIInv DEF AbortFrame
    <3>2. CASE state[h.slot] \in {"FREE", "SUBMITTED", "GPU_IN_FLIGHT"}
      <4>1. ~ ReleasesCheckpoint(h)
        BY <2>11, <3>2, <2>0
           DEF AbortFrame, FinalizedIsDrawn, ReleasesCheckpoint
      <4>2. UNCHANGED vars
        BY <2>11, <3>2, <4>1 DEF AbortFrame, vars
      <4>. QED
        BY <4>2
           DEF vars, slotVars, TypeOK, FreeSlots, OccupiedSlots, UndrawnIsNewest,
               FinalizedIsDrawn, PendingIsInFlight, HandlesArePast,
               CheckpointAwaitsNewest, SlotOf
    <3>. QED
      BY <3>1, <3>2
  <2>12. CASE Emplace(h)
    BY <2>12, EmplaceIInv
  <2>. QED
    BY <2>1, <2>2, <2>3, <2>4, <2>5, <2>6, <2>7, <2>8, <2>9, <2>10, <2>11, <2>12
       DEF Call
<1>3. ASSUME NEW s \in Slot, GpuSignals(s)
      PROVE  IInv'
  <2>1. /\ gpu' \in [Slot -> {"none", "pending", "ready"}]
        /\ \A t \in Slot : gpu'[t] = IF t = s THEN "ready" ELSE gpu[t]
        /\ gpu[s] = "pending"
    BY <1>3 DEF GpuSignals, IInv, TypeOK
  <2>. QED
    BY <1>3, <2>1
       DEF GpuSignals, restVars, IInv, TypeOK, FreeSlots, OccupiedSlots,
           UndrawnIsNewest, FinalizedIsDrawn, PendingIsInFlight, HandlesArePast,
           CheckpointAwaitsNewest, SlotOf
<1>4. CASE UNCHANGED vars
  BY <1>4
     DEF vars, slotVars, IInv, TypeOK, FreeSlots, OccupiedSlots, UndrawnIsNewest,
         FinalizedIsDrawn, PendingIsInFlight, HandlesArePast,
         CheckpointAwaitsNewest, SlotOf
<1>. QED
  BY <1>1, <1>2, <1>3, <1>4 DEF Next

(* The invariant holds in every reachable state. *)
THEOREM Invariance == Spec => []IInv
<1>. QED
  BY InitIInv, NextIInv, PTL DEF Spec

-----------------------------------------------------------------------------
(* Type correctness of FrameScheduler. *)
THEOREM TypeCorrect == Spec => []TypeOK
<1>1. IInv => TypeOK
  BY DEF IInv
<1>. QED
  BY <1>1, Invariance, PTL

(* The draw checkpoint waits exactly for the newest frame (TryAcquireFrame,
   SignalDraw and AbortFrame of frame_scheduler.cpp). *)
THEOREM CheckpointCorrect == Spec => []CheckpointAwaitsNewest
<1>1. IInv => CheckpointAwaitsNewest
  BY DEF IInv
<1>. QED
  BY <1>1, Invariance, PTL

(* A slow frame is never overtaken by more than the ring allows. *)
THEOREM WindowCorrect == Spec => []FramesInWindow
<1>1. IInv => FramesInWindow
  BY DEF IInv, OccupiedSlots, FramesInWindow
<1>. QED
  BY <1>1, Invariance, PTL

(* Nothing of an earlier frame is left in the arena of a slot. *)
THEOREM ArenaCorrect == Spec => []ArenaIsOfFrame
<1>1. IInv => ArenaIsOfFrame
  BY DEF IInv, FreeSlots, OccupiedSlots, ArenaIsOfFrame
<1>. QED
  BY <1>1, Invariance, PTL

(* The generations of a slot last as long as the frame indices. *)
THEOREM GenerationsSuffice == Spec => []GenerationsLast
<1>1. IInv => GenerationsLast
  BY FrameSchedulerAssumption
     DEF IInv, HandlesArePast, GenerationsLast, TypeOK, Index, Frame
<1>. QED
  BY <1>1, Invariance, PTL

-----------------------------------------------------------------------------
(* What a step can do to the identity of a slot: give it the next frame, empty
   it, or leave it alone. *)
LEMMA IdentityStep ==
  ASSUME IInv, [Next]_vars, NEW s \in Slot
  PROVE  \/ app'[s] \in {nextFrame, InvalidIndex}
         \/ app'[s] = app[s] /\ sim'[s] = sim[s] /\ generation'[s] = generation[s]
<1>1. CASE TryAcquireFrame
  BY <1>1 DEF TryAcquireFrame, IInv, TypeOK
<1>2. ASSUME NEW h \in issued, RecycleFrame(h) \/ AbortFrame(h)
      PROVE  \/ app'[s] = InvalidIndex
             \/ app'[s] = app[s] /\ sim'[s] = sim[s] /\ generation'[s] = generation[s]
  BY <1>2 DEF RecycleFrame, AbortFrame, ResetFrameData, slotVars, IInv, TypeOK
<1>3. ASSUME NEW h \in issued, Call(h), ~ (RecycleFrame(h) \/ AbortFrame(h))
      PROVE  UNCHANGED <<app, sim, generation>>
  BY <1>3 DEF Call, SignalDraw, ArmFrame, BeginUpdate, EndUpdate, BeginFinalize,
              CompleteFrame, MarkSubmitted, BeginGpu, CompleteGpu, Emplace, restVars
<1>4. ASSUME NEW t \in Slot, GpuSignals(t)
      PROVE  UNCHANGED <<app, sim, generation>>
  BY <1>4 DEF GpuSignals, restVars
<1>5. CASE UNCHANGED vars
  BY <1>5 DEF vars, slotVars
<1>. QED
  BY <1>1, <1>2, <1>3, <1>4, <1>5 DEF Next

(* A handle whose frame is gone stays refused for ever: Validate never accepts
   it again, whatever frames its slot gets later. *)
THEOREM StaleHandlesStayStale == Spec => StaleStaysStale
<1>1. IInv /\ [Next]_vars =>
        [\A h \in issued : ~ Valid(h) => ~ Valid(h)']_vars
  <2>. SUFFICES ASSUME IInv, [Next]_vars, NEW h \in issued, ~ Valid(h), Valid(h)'
                PROVE  FALSE
    OBVIOUS
  <2>1. h.slot \in Slot /\ h.app \in Nat /\ h.app # InvalidIndex /\ h.app < nextFrame
    BY IssuedHandle DEF IInv, HandlesArePast
  <2>2. app'[h.slot] = h.app /\ sim'[h.slot] = h.sim /\ generation'[h.slot] = h.gen
    BY DEF Valid
  <2>3. app'[h.slot] \notin {nextFrame, InvalidIndex}
    BY <2>1, <2>2
  <2>. QED
    BY <2>1, <2>2, <2>3, IdentityStep DEF Valid
<1>. QED
  BY <1>1, Invariance, PTL DEF Spec, StaleStaysStale

(* The GPU never loses the slot it works on. *)
THEOREM GpuSlotIsKept == Spec => GpuKeepsSlot
<1>. DEFINE Kept(s) == /\ app'[s] = app[s] /\ generation'[s] = generation[s]
                       /\ arena[s] \subseteq arena'[s]
<1>1. ASSUME IInv, [Next]_vars, NEW s \in Slot, gpu[s] = "pending"
      PROVE  Kept(s)
  <2>0. state[s] \in {"SUBMITTED", "GPU_IN_FLIGHT"}
    BY <1>1 DEF IInv, PendingIsInFlight
  <2>1. CASE TryAcquireFrame
    BY <2>0, <2>1, <1>1 DEF TryAcquireFrame, IInv, TypeOK
  <2>2. ASSUME NEW h \in issued, RecycleFrame(h) \/ AbortFrame(h)
        PROVE  Kept(s)
    BY <2>0, <2>2, <1>1
       DEF RecycleFrame, AbortFrame, ResetFrameData, slotVars, IInv, TypeOK
  <2>3. ASSUME NEW h \in issued, Emplace(h)
        PROVE  Kept(s)
    BY <2>3, <1>1 DEF Emplace, IInv, TypeOK
  <2>4. ASSUME NEW h \in issued, Call(h),
               ~ (RecycleFrame(h) \/ AbortFrame(h) \/ Emplace(h))
        PROVE  UNCHANGED <<app, generation, arena>>
    BY <2>4 DEF Call, SignalDraw, ArmFrame, BeginUpdate, EndUpdate, BeginFinalize,
                CompleteFrame, MarkSubmitted, BeginGpu, CompleteGpu, restVars
  <2>5. ASSUME NEW t \in Slot, GpuSignals(t)
        PROVE  UNCHANGED <<app, generation, arena>>
    BY <2>5 DEF GpuSignals, restVars
  <2>6. CASE UNCHANGED vars
    BY <2>6 DEF vars, slotVars
  <2>. QED
    BY <1>1, <2>1, <2>2, <2>3, <2>4, <2>5, <2>6 DEF Next
<1>2. IInv /\ [Next]_vars =>
        [\A s \in Slot : gpu[s] = "pending" =>
           /\ app'[s] = app[s] /\ generation'[s] = generation[s]
           /\ arena[s] \subseteq arena'[s]]_vars
  BY <1>1
<1>. QED
  BY <1>2, Invariance, PTL DEF Spec, GpuKeepsSlot

-----------------------------------------------------------------------------
(* Refinement: the ring of slots implements FramePipeline.tla. *)

(* The frame in an occupied slot is the one the mapping shows at that stage,
   and no other frame maps to the slot. *)
LEMMA HeldFrame ==
  ASSUME IInv, NEW s \in Slot, state[s] # "FREE"
  PROVE  /\ app[s] \in Frame /\ app[s] < nextFrame /\ SlotOf(app[s]) = s
         /\ StageOf(app[s]) = state[s]
         /\ \A f \in Frame : SlotOf(f) = s /\ Holds(f) => f = app[s]
BY FrameSchedulerAssumption
   DEF IInv, FreeSlots, OccupiedSlots, TypeOK, Index, Frame, StageOf, Holds

LEMMA FrameFacts ==
  ASSUME TypeOK, NEW f \in Frame
  PROVE  /\ f \in Nat /\ f # InvalidIndex /\ SlotOf(f) \in Slot
         /\ state[SlotOf(f)] \in State
         /\ StageOf(f) = "unborn" <=> f >= nextFrame
<1>1. f \in Nat /\ f # InvalidIndex
  BY FrameSchedulerAssumption DEF Frame
<1>2. SlotOf(f) \in Slot
  BY <1>1, SlotOfIndex
<1>. QED
  BY <1>1, <1>2 DEF TypeOK, StageOf, State

(* A step that leaves the stages, the indices and the draw signals alone is a
   stutter of the pipeline. *)
LEMMA StutterRefines ==
  ASSUME UNCHANGED <<state, app, draw, nextFrame>>
  PROVE  UNCHANGED Pipeline!vars
BY DEF Pipeline!vars, StageOf, Holds, SlotOf

LEMMA TransitionRefines ==
  ASSUME IInv, NEW h \in issued, NEW from \in State \ {"FREE"},
         NEW to \in State \ {"FREE"},
         Transition(h, from, to), UNCHANGED restVars,
         <<from, to>> \in Pipeline!Successors,
         to = "FINALIZE" => draw[h.slot] # 0
  PROVE  Pipeline!Next
<1>. DEFINE s == h.slot  f == h.app
<1>1. /\ TypeOK /\ s \in Slot /\ f \in Frame /\ app[s] = f
      /\ state[s] = from /\ state[s] # "FREE"
  BY IssuedHandle DEF IInv, Transition, Valid
<1>2. \A t \in Slot : state'[t] = IF t = s THEN to ELSE state[t]
  BY <1>1 DEF Transition, TypeOK
<1>3. /\ f < nextFrame /\ SlotOf(f) = s /\ StageOf(f) = from /\ Holds(f)
      /\ \A e \in Frame : SlotOf(e) = s /\ Holds(e) => e = f
  BY <1>1, HeldFrame DEF Holds
<1>4. \A e \in Frame : StageOf(e)' = IF e = f THEN to ELSE StageOf(e)
  <2>. TAKE e \in Frame
  <2>1. SlotOf(e) \in Slot /\ SlotOf(e)' = SlotOf(e)
    BY <1>1, FrameFacts DEF SlotOf
  <2>2. app' = app /\ nextFrame' = nextFrame
    BY DEF restVars
  <2>3. f \in Nat /\ nextFrame \in Nat /\ f < nextFrame
    BY <1>1, <1>3, FrameFacts, FrameSchedulerAssumption DEF TypeOK, Index, Frame
  <2>4. CASE e = f
    BY <2>1, <2>2, <2>3, <2>4, <1>1, <1>2, <1>3 DEF StageOf, Holds
  <2>5. CASE e # f
    BY <2>1, <2>2, <2>5, <1>2, <1>3 DEF StageOf, Holds
  <2>. QED
    BY <2>4, <2>5
<1>5. Pipeline!Advance(f)
  <2>1. UNCHANGED {e \in Frame : Holds(e) /\ draw[SlotOf(e)] # 0}
    BY DEF Holds, SlotOf, restVars
  <2>2. [e \in Frame |-> StageOf(e)]' = [[e \in Frame |-> StageOf(e)] EXCEPT ![f] = to]
    BY <1>4
  <2>3. [e \in Frame |-> StageOf(e)][f] = from
    BY <1>1, <1>3
  <2>4. to \in {pair[2] : pair \in Pipeline!Successors}
    BY DEF Pipeline!Successors
  <2>5. to = "FINALIZE" => f \in {e \in Frame : Holds(e) /\ draw[SlotOf(e)] # 0}
    BY <1>1, <1>3
  <2>. HIDE DEF f
  <2>. QED
    BY <2>1, <2>2, <2>3, <2>4, <2>5 DEF Pipeline!Advance
<1>. QED
  BY <1>1, <1>5 DEF Pipeline!Next, Pipeline!Frame, Frame

LEMMA ResetRefines ==
  ASSUME IInv, NEW h \in issued, Valid(h),
         state[h.slot] \notin {"FREE", "SUBMITTED", "GPU_IN_FLIGHT"},
         ResetFrameData(h.slot), UNCHANGED nextFrame
  PROVE  Pipeline!Next
<1>. DEFINE s == h.slot  f == h.app
            Stage == [e \in Frame |-> StageOf(e)]
            Signalled == {e \in Frame : Holds(e) /\ draw[SlotOf(e)] # 0}
<1>1. TypeOK /\ s \in Slot /\ f \in Frame /\ app[s] = f /\ state[s] # "FREE"
  BY IssuedHandle DEF IInv, Valid
<1>2. \A t \in Slot : /\ state'[t] = IF t = s THEN "FREE" ELSE state[t]
                      /\ app'[t] = IF t = s THEN InvalidIndex ELSE app[t]
                      /\ draw'[t] = IF t = s THEN 0 ELSE draw[t]
  BY <1>1 DEF ResetFrameData, TypeOK
<1>3. /\ f < nextFrame /\ SlotOf(f) = s /\ StageOf(f) = state[s] /\ Holds(f)
      /\ \A e \in Frame : SlotOf(e) = s /\ Holds(e) => e = f
  BY <1>1, HeldFrame DEF Holds
<1>4. \A e \in Frame : /\ SlotOf(e) \in Slot /\ e # InvalidIndex
                       /\ Holds(e)' <=> (Holds(e) /\ e # f)
  <2>. TAKE e \in Frame
  <2>1. SlotOf(e) \in Slot /\ e # InvalidIndex
    BY <1>1, FrameFacts
  <2>. QED
    BY <2>1, <1>2, <1>3 DEF Holds, SlotOf
<1>5. \A e \in Frame : StageOf(e)' = IF e = f THEN "gone" ELSE StageOf(e)
  <2>. TAKE e \in Frame
  <2>1. f \in Nat /\ nextFrame \in Nat /\ f < nextFrame
    BY <1>1, <1>3, FrameFacts, FrameSchedulerAssumption DEF TypeOK, Index, Frame
  <2>2. CASE e = f
    BY <2>1, <2>2, <1>4 DEF StageOf
  <2>3. CASE e # f
    <3>1. Holds(e) => SlotOf(e) # s
      BY <2>3, <1>3
    <3>. QED
      BY <2>3, <3>1, <1>2, <1>4 DEF StageOf, SlotOf
  <2>. QED
    BY <2>2, <2>3
<1>6. Signalled' = Signalled \ {f}
  <2>1. \A e \in Frame : Holds(e)' /\ draw'[SlotOf(e)] # 0
                        <=> Holds(e) /\ draw[SlotOf(e)] # 0 /\ e # f
    BY <1>2, <1>3, <1>4
  <2>. QED
    BY <2>1 DEF SlotOf
<1>7. Pipeline!Leave(f)
  <2>1. Stage' = [Stage EXCEPT ![f] = "gone"]
    BY <1>5
  <2>2. Stage[f] = state[s] /\ state[s] \in State \ {"FREE", "SUBMITTED", "GPU_IN_FLIGHT"}
    BY <1>1, <1>3 DEF TypeOK
  <2>3. Stage[f] \notin {"unborn", "gone", "SUBMITTED", "GPU_IN_FLIGHT"}
    BY <2>2 DEF State
  <2>. HIDE DEF f
  <2>. QED
    BY <2>1, <2>3, <1>6 DEF Pipeline!Leave, Pipeline!Active
<1>. QED
  BY <1>1, <1>7 DEF Pipeline!Next, Pipeline!Frame, Frame

LEMMA SignalDrawRefines ==
  ASSUME IInv, NEW h \in issued, SignalDraw(h)
  PROVE  Pipeline!Next
<1>. DEFINE s == h.slot  f == h.app
            Stage == [e \in Frame |-> StageOf(e)]
            Signalled == {e \in Frame : Holds(e) /\ draw[SlotOf(e)] # 0}
<1>1. /\ TypeOK /\ s \in Slot /\ f \in Frame /\ app[s] = f /\ state[s] # "FREE"
      /\ draw[s] = 0 /\ generation[s] # 0
  BY IssuedHandle DEF IInv, SignalDraw, Valid, FreeSlots
<1>2. /\ SlotOf(f) = s /\ StageOf(f) = state[s] /\ Holds(f)
      /\ \A e \in Frame : SlotOf(e) = s /\ Holds(e) => e = f
      /\ f + 1 = nextFrame
  BY <1>1, HeldFrame DEF Holds, IInv, UndrawnIsNewest
<1>3. \A t \in Slot : draw'[t] = IF t = s THEN generation[s] ELSE draw[t]
  BY <1>1 DEF SignalDraw, TypeOK
<1>4. UNCHANGED Stage
  BY DEF SignalDraw, StageOf, Holds, SlotOf
<1>5. Signalled' = Signalled \cup {f}
  <2>1. \A e \in Frame : Holds(e)' <=> Holds(e)
    BY DEF SignalDraw, Holds, SlotOf
  <2>2. \A e \in Frame : Holds(e) => (draw'[SlotOf(e)] # 0 <=> draw[SlotOf(e)] # 0 \/ e = f)
    BY <1>1, <1>2, <1>3, FrameFacts
  <2>. QED
    BY <2>1, <2>2, <1>1, <1>2 DEF SlotOf
<1>6. f \notin Signalled
  BY <1>1, <1>2
<1>7. \A e \in Frame : e > f => Stage[e] = "unborn"
  <2>. TAKE e \in Frame
  <2>. HAVE e > f
  <2>1. e \in Nat /\ f \in Nat /\ e >= nextFrame
    BY <1>1, <1>2, FrameFacts
  <2>. QED
    BY <2>1, <1>1, FrameFacts
<1>8. Stage[f] \notin {"unborn", "gone"}
  BY <1>1, <1>2 DEF TypeOK, State
<1>9. Pipeline!Draw(f)
  <2>. HIDE DEF f
  <2>. QED
    BY <1>4, <1>5, <1>6, <1>7, <1>8
       DEF Pipeline!Draw, Pipeline!Active, Pipeline!Frame, Frame
<1>. QED
  BY <1>1, <1>9 DEF Pipeline!Next, Pipeline!Frame, Frame

LEMMA AcquireRefines ==
  ASSUME IInv, TryAcquireFrame
  PROVE  Pipeline!Next
<1>. DEFINE f == nextFrame  s == SlotOf(f)
            Stage == [e \in Frame |-> StageOf(e)]
            Signalled == {e \in Frame : Holds(e) /\ draw[SlotOf(e)] # 0}
<1>1. /\ TypeOK /\ f \in Frame /\ f \in Nat /\ f # InvalidIndex
      /\ checkpoint = "UPDATE" /\ nextFrame' = f + 1
  BY FrameSchedulerAssumption
     DEF IInv, TryAcquireFrame, IndicesLeft, TypeOK, Index, Frame
<1>2. s \in Slot
  BY <1>1, FrameFacts
<1>3. /\ state[s] = "FREE" /\ app[s] = InvalidIndex
      /\ \A t \in Slot : state'[t] = IF t = s THEN "ACQUIRED" ELSE state[t]
      /\ \A t \in Slot : app'[t] = IF t = s THEN f ELSE app[t]
      /\ \A t \in Slot : draw'[t] = IF t = s THEN 0 ELSE draw[t]
  BY <1>1, <1>2 DEF TryAcquireFrame, TypeOK, IInv, FreeSlots
<1>4. \A t \in Slot : state[t] # "FREE" => draw[t] # 0
  BY <1>1 DEF IInv, CheckpointAwaitsNewest, UndrawnIsNewest
<1>5. \A e \in Frame :
        /\ e \in Nat /\ e # InvalidIndex /\ SlotOf(e) \in Slot
        /\ SlotOf(e) = s => ~ Holds(e)
        /\ Holds(e)' <=> Holds(e) \/ e = f
  <2>. TAKE e \in Frame
  <2>1. e \in Nat /\ e # InvalidIndex /\ SlotOf(e) \in Slot
    BY <1>1, FrameFacts
  <2>2. SlotOf(e) = s => ~ Holds(e)
    BY <2>1, <1>3 DEF Holds
  <2>3. Holds(e)' <=> Holds(e) \/ e = f
    BY <2>1, <2>2, <1>2, <1>3 DEF Holds, SlotOf
  <2>. QED
    BY <2>1, <2>2, <2>3
<1>6. \A e \in Frame : StageOf(e)' = IF e = f THEN "ACQUIRED" ELSE StageOf(e)
  <2>. TAKE e \in Frame
  <2>1. CASE e = f
    BY <2>1, <1>1, <1>2, <1>3, <1>5 DEF StageOf, SlotOf
  <2>2. CASE e # f
    <3>1. e >= nextFrame' <=> e >= nextFrame
      BY <2>2, <1>1, <1>5
    <3>2. Holds(e) => state'[SlotOf(e)] = state[SlotOf(e)]
      BY <1>3, <1>5
    <3>. QED
      BY <2>2, <3>1, <3>2, <1>5 DEF StageOf, SlotOf
  <2>. QED
    BY <2>1, <2>2
<1>7. UNCHANGED Signalled
  <2>1. \A e \in Frame : Holds(e)' /\ draw'[SlotOf(e)] # 0
                         <=> Holds(e) /\ draw[SlotOf(e)] # 0
    BY <1>3, <1>5
  <2>. QED
    BY <2>1 DEF SlotOf
<1>8. Pipeline!Birth(f)
  <2>1. Stage[f] = "unborn"
    BY <1>1, FrameFacts
  <2>2. \A e \in Frame : e < f => Stage[e] # "unborn"
    BY <1>1, <1>5, FrameFacts
  <2>3. \A e \in Frame : e + MaxActiveFrames = f => Stage[e] = "gone"
    <3>. TAKE e \in Frame
    <3>. HAVE e + MaxActiveFrames = f
    <3>1. SlotOf(e) = s
      BY <1>5, SlotOfIndex
    <3>2. ~ (e >= nextFrame)
      BY <1>5, FrameSchedulerAssumption
    <3>. QED
      BY <3>1, <3>2, <1>5 DEF StageOf
  <2>4. \A e \in Frame : e + 1 = f /\ Stage[e] \notin {"unborn", "gone"} => e \in Signalled
    <3>. TAKE e \in Frame
    <3>. HAVE e + 1 = f /\ Stage[e] \notin {"unborn", "gone"}
    <3>1. Holds(e) /\ app[SlotOf(e)] # InvalidIndex
      BY <1>5 DEF StageOf, Holds
    <3>2. state[SlotOf(e)] # "FREE"
      BY <3>1, <1>5 DEF IInv, FreeSlots
    <3>. QED
      BY <3>1, <3>2, <1>4, <1>5
  <2>5. Stage' = [Stage EXCEPT ![f] = "ACQUIRED"]
    BY <1>6
  <2>. HIDE DEF f
  <2>. QED
    BY <2>1, <2>2, <2>3, <2>4, <2>5, <1>7
       DEF Pipeline!Birth, Pipeline!Active, Pipeline!Frame, Frame
<1>. QED
  BY <1>1, <1>8 DEF Pipeline!Next, Pipeline!Frame, Frame

(* Every step of the scheduler is a step or a stutter of the pipeline. *)
LEMMA StepRefines == IInv /\ [Next]_vars => [Pipeline!Next]_(Pipeline!vars)
<1>. SUFFICES ASSUME IInv, [Next]_vars
              PROVE  [Pipeline!Next]_(Pipeline!vars)
  OBVIOUS
<1>1. CASE TryAcquireFrame
  BY <1>1, AcquireRefines
<1>2. ASSUME NEW h \in issued, Call(h)
      PROVE  [Pipeline!Next]_(Pipeline!vars)
  <2>0. h.slot \in Slot /\ h.gen # 0 /\ (Valid(h) => state[h.slot] # "FREE")
    BY IssuedHandle DEF IInv, Valid, FreeSlots
  <2>1. CASE SignalDraw(h)
    BY <2>1, SignalDrawRefines
  <2>2. CASE ArmFrame(h)
    BY <2>2, TransitionRefines DEF ArmFrame, State, Pipeline!Successors
  <2>3. CASE BeginUpdate(h)
    BY <2>3, TransitionRefines DEF BeginUpdate, State, Pipeline!Successors
  <2>4. CASE EndUpdate(h)
    BY <2>4, TransitionRefines DEF EndUpdate, State, Pipeline!Successors
  <2>5. CASE BeginFinalize(h)
    BY <2>5, <2>0, TransitionRefines DEF BeginFinalize, State, Pipeline!Successors
  <2>6. CASE CompleteFrame(h)
    BY <2>6, TransitionRefines DEF CompleteFrame, State, Pipeline!Successors
  <2>7. CASE MarkSubmitted(h)
    BY <2>7, TransitionRefines DEF MarkSubmitted, State, Pipeline!Successors
  <2>8. CASE BeginGpu(h)
    BY <2>8, TransitionRefines DEF BeginGpu, State, Pipeline!Successors
  <2>9. CASE CompleteGpu(h)
    BY <2>9, TransitionRefines DEF CompleteGpu, State, Pipeline!Successors
  <2>10. CASE RecycleFrame(h)
    BY <2>10, ResetRefines DEF RecycleFrame
  <2>11. CASE AbortFrame(h)
    BY <2>11, ResetRefines, StutterRefines DEF AbortFrame, slotVars
  <2>12. CASE Emplace(h)
    BY <2>12, StutterRefines DEF Emplace
  <2>. QED
    BY <1>2, <2>1, <2>2, <2>3, <2>4, <2>5, <2>6, <2>7, <2>8, <2>9, <2>10, <2>11, <2>12
       DEF Call
<1>3. ASSUME NEW s \in Slot, GpuSignals(s)
      PROVE  [Pipeline!Next]_(Pipeline!vars)
  BY <1>3, StutterRefines DEF GpuSignals, restVars
<1>4. CASE UNCHANGED vars
  BY <1>4, StutterRefines DEF vars, slotVars
<1>. QED
  BY <1>1, <1>2, <1>3, <1>4 DEF Next

LEMMA InitRefines == Init => Pipeline!Init
<1>. SUFFICES ASSUME Init
              PROVE  Pipeline!Init
  OBVIOUS
<1>1. \A f \in Frame : f \in Nat /\ StageOf(f) = "unborn"
  BY FrameSchedulerAssumption DEF Init, Frame, StageOf
<1>2. \A f \in Frame : SlotOf(f) \in Slot /\ f # InvalidIndex
  BY <1>1, SlotOfIndex, FrameSchedulerAssumption DEF Frame
<1>3. \A f \in Frame : ~ Holds(f)
  BY <1>2 DEF Init, Holds
<1>. QED
  BY <1>1, <1>3 DEF Pipeline!Init, Pipeline!Frame, Frame

(* The frame scheduler implements the pipeline: frames are born in order, go
   through their stages once, are drawn only while they are the newest and
   leave for good, although slots, indices and generations are all reused. *)
THEOREM PipelineImplemented == Spec => ImplementsPipeline
<1>. QED
  BY InitRefines, StepRefines, Invariance, PTL DEF Spec, Pipeline!Spec, ImplementsPipeline

(***************************************************************************)
(* The hierarchy.  Detach and Attach are described first by what they       *)
(* change (DetachedFrom, AttachedTo), then shown to keep a forest; walks    *)
(* over the links end because every parent is nearer to a root.             *)
(***************************************************************************)

NodeRecords ==
  [identity : References, parent : References, first : References, last : References,
   previous : References, next : References, local : Int]
Trees == [Nodes -> NodeRecords]

(* The children of a node in order, as their links give them. *)
ListOf(t, e, s) ==
  /\ \A c \in Alive(t) : Get(t, c).parent = e <=> \E k \in 1 .. Len(s) : s[k] = c
  /\ \A j, k \in 1 .. Len(s) : s[j] = s[k] => j = k
  /\ \A k \in 1 .. Len(s) :
        /\ Get(t, s[k]).next = IF k < Len(s) THEN s[k + 1] ELSE None
        /\ Get(t, s[k]).previous = IF k > 1 THEN s[k - 1] ELSE None
  /\ Get(t, e).first = IF Len(s) = 0 THEN None ELSE s[1]
  /\ Get(t, e).last = IF Len(s) = 0 THEN None ELSE s[Len(s)]

(* Parents are nearer to a root. *)
Falls(t, d) == \A e \in Alive(t) : Get(t, e).parent # None => d[Get(t, e).parent] < d[e]

Rooted(t) ==
  /\ t \in Trees
  /\ \A i \in Nodes : t[i].identity # None => t[i].identity[1] = i
  /\ \A e \in Alive(t) :
        /\ Get(t, e).parent \in Alive(t) \cup {None}
        /\ Get(t, e).parent = None => Get(t, e).previous = None /\ Get(t, e).next = None
Listed(t) == \A e \in Alive(t) : \E s \in Seq(Alive(t)) : ListOf(t, e, s)
Acyclic(t) == \E d \in [Alive(t) -> Nat] : Falls(t, d)
Forest(t) == Rooted(t) /\ Listed(t) /\ Acyclic(t)

(* References that are not empty name an index and a generation. *)
LEMMA ReferenceIs ==
  /\ None \in References
  /\ \A e \in References : e # None => e[1] \in Nodes /\ e[2] \in Nat \ {0} /\ e = <<e[1], e[2]>>
<1>1. MaxGenerations \in Nat
  BY HierarchyAssumption
<1>2. \A e \in Nodes \X (1 .. MaxGenerations) : e[1] \in Nodes /\ e[2] \in Nat \ {0} /\ e = <<e[1], e[2]>>
  BY <1>1
<1>. QED
  BY <1>2 DEF References

(* No two nodes that are alive share an index. *)
LEMMA AliveIs ==
  ASSUME NEW t
  PROVE  /\ Alive(t) \subseteq References /\ None \notin Alive(t)
         /\ \A e \in Alive(t) : e[1] \in Nodes /\ t[e[1]].identity = e
         /\ \A e, f \in Alive(t) : e[1] = f[1] => e = f
         /\ \A e \in References : e # None /\ t[e[1]].identity = e => e \in Alive(t)
  BY ReferenceIs DEF Alive, IsAlive

(* One field of one node changes. *)
SetTo(t, u, i, field, v) ==
  /\ u \in Trees
  /\ \A j \in Nodes :
       /\ u[j].identity = t[j].identity
       /\ u[j].parent = IF field = "parent" /\ j = i THEN v ELSE t[j].parent
       /\ u[j].first = IF field = "first" /\ j = i THEN v ELSE t[j].first
       /\ u[j].last = IF field = "last" /\ j = i THEN v ELSE t[j].last
       /\ u[j].previous = IF field = "previous" /\ j = i THEN v ELSE t[j].previous
       /\ u[j].next = IF field = "next" /\ j = i THEN v ELSE t[j].next
       /\ u[j].local = IF field = "local" /\ j = i THEN v ELSE t[j].local

(* EXCEPT sets the field it names, of the node it names, and no other. *)
LEMMA SettingParent ==
  \A t \in Trees, i \in Nodes, v \in References : SetTo(t, [t EXCEPT ![i].parent = v], i, "parent", v)
  BY DEF SetTo, Trees, NodeRecords

LEMMA SettingFirst ==
  \A t \in Trees, i \in Nodes, v \in References : SetTo(t, [t EXCEPT ![i].first = v], i, "first", v)
  BY DEF SetTo, Trees, NodeRecords

LEMMA SettingLast ==
  \A t \in Trees, i \in Nodes, v \in References : SetTo(t, [t EXCEPT ![i].last = v], i, "last", v)
  BY DEF SetTo, Trees, NodeRecords

LEMMA SettingPrevious ==
  \A t \in Trees, i \in Nodes, v \in References : SetTo(t, [t EXCEPT ![i].previous = v], i, "previous", v)
  BY DEF SetTo, Trees, NodeRecords

LEMMA SettingNext ==
  \A t \in Trees, i \in Nodes, v \in References : SetTo(t, [t EXCEPT ![i].next = v], i, "next", v)
  BY DEF SetTo, Trees, NodeRecords

LEMMA SettingLocal ==
  \A t \in Trees, i \in Nodes, v \in Int : SetTo(t, [t EXCEPT ![i].local = v], i, "local", v)
  BY DEF SetTo, Trees, NodeRecords

(* What Detach changes. *)
DetachedFrom(t, u, e) ==
  LET n == Get(t, e)
  IN  /\ u \in Trees /\ Alive(u) = Alive(t)
      /\ \A i \in Nodes : u[i].identity = t[i].identity
      /\ \A x \in Alive(t) :
           /\ Get(u, x).local = Get(t, x).local
           /\ Get(u, x).parent = IF x = e THEN None ELSE Get(t, x).parent
           /\ Get(u, x).next = IF x = e THEN None ELSE IF x = n.previous THEN n.next ELSE Get(t, x).next
           /\ Get(u, x).previous = IF x = e THEN None ELSE IF x = n.next THEN n.previous
                                   ELSE Get(t, x).previous
           /\ Get(u, x).first = IF n.previous = None /\ x = n.parent THEN n.next ELSE Get(t, x).first
           /\ Get(u, x).last = IF n.next = None /\ x = n.parent THEN n.previous ELSE Get(t, x).last

(* Identities decide who is alive. *)
LEMMA SameAlive ==
  ASSUME NEW t, NEW u, \A i \in Nodes : u[i].identity = t[i].identity
  PROVE  Alive(u) = Alive(t)
  BY ReferenceIs, Zenon DEF Alive, IsAlive

(* A node is not its own sibling or parent, and its links are alive. *)
LEMMA LinksAre ==
  ASSUME NEW t, Forest(t), NEW e \in Alive(t)
  PROVE  /\ {Get(t, e).parent, Get(t, e).first, Get(t, e).last, Get(t, e).previous, Get(t, e).next}
               \subseteq Alive(t) \cup {None}
         /\ Get(t, e).parent # e /\ Get(t, e).previous # e /\ Get(t, e).next # e
<1>1. Get(t, e).parent \in Alive(t) \cup {None} /\ Get(t, e).parent # e
  <2>1. PICK d \in [Alive(t) -> Nat] : Falls(t, d)
    BY DEF Forest, Acyclic
  <2>2. Get(t, e).parent = e => d[e] < d[e]
    BY <2>1, AliveIs DEF Falls
  <2>3. ~(d[e] < d[e])
    BY <2>1
  <2>. QED
    BY <2>2, <2>3 DEF Forest, Rooted
<1>2. {Get(t, e).first, Get(t, e).last} \subseteq Alive(t) \cup {None}
  <2>1. PICK s \in Seq(Alive(t)) : ListOf(t, e, s)
    BY DEF Forest, Listed
  <2>. QED
    BY <2>1 DEF ListOf
<1>3. /\ {Get(t, e).previous, Get(t, e).next} \subseteq Alive(t) \cup {None}
      /\ Get(t, e).previous # e /\ Get(t, e).next # e
  <2>0. e # None
    BY AliveIs
  <2>1. CASE Get(t, e).parent = None
    BY <2>0, <2>1 DEF Forest, Rooted
  <2>2. CASE Get(t, e).parent # None
    <3> DEFINE p == Get(t, e).parent
    <3>1. PICK s \in Seq(Alive(t)) : ListOf(t, p, s)
      BY <1>1, <2>2 DEF Forest, Listed
    <3>2. PICK k \in 1 .. Len(s) : s[k] = e
      BY <3>1 DEF ListOf
    <3>3. Len(s) \in Nat /\ \A j \in 1 .. Len(s) : s[j] \in Alive(t)
      OBVIOUS
    <3>4. /\ Get(t, e).next = IF k < Len(s) THEN s[k + 1] ELSE None
          /\ Get(t, e).previous = IF k > 1 THEN s[k - 1] ELSE None
      BY <3>1, <3>2 DEF ListOf
    <3>5. k < Len(s) => k + 1 \in 1 .. Len(s) /\ s[k + 1] # s[k]
      BY <3>1, <3>3 DEF ListOf
    <3>6. k > 1 => k - 1 \in 1 .. Len(s) /\ s[k - 1] # s[k]
      BY <3>1, <3>3 DEF ListOf
    <3>. QED
      BY <2>0, <3>2, <3>3, <3>4, <3>5, <3>6
  <2>. QED
    BY <2>1, <2>2
<1>. QED
  BY <1>1, <1>2, <1>3

(* Detach, field by field. *)
LEMMA DetachIs ==
  ASSUME NEW t, Forest(t), NEW e \in Alive(t)
  PROVE  DetachedFrom(t, Detach(t, e), e)
<1> DEFINE n == Get(t, e)
           a == [t EXCEPT ![e[1]].parent = None]
           b == [a EXCEPT ![e[1]].next = None]
           left == [b EXCEPT ![e[1]].previous = None]
           unlinked == IF n.previous # None THEN [left EXCEPT ![n.previous[1]].next = n.next]
                       ELSE IF n.parent # None THEN [left EXCEPT ![n.parent[1]].first = n.next]
                       ELSE left
           u == IF n.next # None THEN [unlinked EXCEPT ![n.next[1]].previous = n.previous]
                ELSE IF n.parent # None THEN [unlinked EXCEPT ![n.parent[1]].last = n.previous]
                ELSE unlinked
<1>1. t \in Trees /\ e[1] \in Nodes /\ None \in References
  BY AliveIs, ReferenceIs DEF Forest, Rooted
<1>2. /\ {n.parent, n.previous, n.next} \subseteq Alive(t) \cup {None}
      /\ {n.parent, n.previous, n.next} \subseteq References
      /\ n.parent # e /\ n.previous # e /\ n.next # e
  BY LinksAre, AliveIs, ReferenceIs
<1>3. \A x \in {n.parent, n.previous, n.next} :
        x # None => x \in Alive(t) /\ x[1] \in Nodes /\ x[1] # e[1]
  BY <1>2, AliveIs
<1>4. Detach(t, e) = u
  BY DEF Detach
<1>5. SetTo(t, a, e[1], "parent", None)
  BY <1>1, SettingParent, Zenon
<1>6. SetTo(a, b, e[1], "next", None)
  <2>1. a \in Trees
    BY <1>5 DEF SetTo
  <2> HIDE DEF a
  <2>. QED
    BY <1>1, <2>1, SettingNext, Zenon
<1>7. SetTo(b, left, e[1], "previous", None)
  <2>1. b \in Trees
    BY <1>6 DEF SetTo
  <2> HIDE DEF a, b
  <2>. QED
    BY <1>1, <2>1, SettingPrevious, Zenon
<1> HIDE DEF a, b, left, n
<1>8. /\ left \in Trees
      /\ \A j \in Nodes :
           /\ left[j].identity = t[j].identity /\ left[j].local = t[j].local
           /\ left[j].first = t[j].first /\ left[j].last = t[j].last
           /\ left[j].parent = IF j = e[1] THEN None ELSE t[j].parent
           /\ left[j].previous = IF j = e[1] THEN None ELSE t[j].previous
           /\ left[j].next = IF j = e[1] THEN None ELSE t[j].next
  BY <1>5, <1>6, <1>7 DEF SetTo
<1>9. /\ unlinked \in Trees
      /\ \A j \in Nodes :
           /\ unlinked[j].identity = t[j].identity /\ unlinked[j].local = t[j].local
           /\ unlinked[j].parent = left[j].parent /\ unlinked[j].previous = left[j].previous
           /\ unlinked[j].last = left[j].last
           /\ unlinked[j].first = IF n.previous = None /\ n.parent # None /\ j = n.parent[1] THEN n.next
                                  ELSE left[j].first
           /\ unlinked[j].next = IF n.previous # None /\ j = n.previous[1] THEN n.next ELSE left[j].next
  <2>1. CASE n.previous # None
    <3>1. SetTo(left, [left EXCEPT ![n.previous[1]].next = n.next], n.previous[1], "next", n.next)
      <4>1. left \in Trees /\ n.previous[1] \in Nodes /\ n.next \in References
        BY <1>2, <1>3, <1>8, <2>1
      <4>. QED
        BY <4>1, SettingNext, Zenon
    <3>. QED
      BY <1>8, <2>1, <3>1 DEF SetTo
  <2>2. CASE n.previous = None /\ n.parent # None
    <3>1. SetTo(left, [left EXCEPT ![n.parent[1]].first = n.next], n.parent[1], "first", n.next)
      <4>1. left \in Trees /\ n.parent[1] \in Nodes /\ n.next \in References
        BY <1>2, <1>3, <1>8, <2>2
      <4>. QED
        BY <4>1, SettingFirst, Zenon
    <3>. QED
      BY <1>8, <2>2, <3>1 DEF SetTo
  <2>3. CASE n.previous = None /\ n.parent = None
    BY <1>8, <2>3
  <2>. QED
    BY <2>1, <2>2, <2>3
<1> HIDE DEF unlinked
<1>10. /\ u \in Trees
       /\ \A j \in Nodes :
            /\ u[j].identity = t[j].identity /\ u[j].local = t[j].local
            /\ u[j].parent = unlinked[j].parent /\ u[j].next = unlinked[j].next
            /\ u[j].first = unlinked[j].first
            /\ u[j].last = IF n.next = None /\ n.parent # None /\ j = n.parent[1] THEN n.previous
                           ELSE unlinked[j].last
            /\ u[j].previous = IF n.next # None /\ j = n.next[1] THEN n.previous ELSE unlinked[j].previous
  <2>1. CASE n.next # None
    <3>1. SetTo(unlinked, [unlinked EXCEPT ![n.next[1]].previous = n.previous], n.next[1],
                "previous", n.previous)
      <4>1. unlinked \in Trees /\ n.next[1] \in Nodes /\ n.previous \in References
        BY <1>2, <1>3, <1>9, <2>1
      <4>. QED
        BY <4>1, SettingPrevious, Zenon
    <3>. QED
      BY <1>9, <2>1, <3>1 DEF SetTo
  <2>2. CASE n.next = None /\ n.parent # None
    <3>1. SetTo(unlinked, [unlinked EXCEPT ![n.parent[1]].last = n.previous], n.parent[1],
                "last", n.previous)
      <4>1. unlinked \in Trees /\ n.parent[1] \in Nodes /\ n.previous \in References
        BY <1>2, <1>3, <1>9, <2>2
      <4>. QED
        BY <4>1, SettingLast, Zenon
    <3>. QED
      BY <1>9, <2>2, <3>1 DEF SetTo
  <2>3. CASE n.next = None /\ n.parent = None
    BY <1>9, <2>3
  <2>. QED
    BY <2>1, <2>2, <2>3
<1> HIDE DEF u
<1>11. Alive(u) = Alive(t)
  BY <1>10, SameAlive
<1>12. ASSUME NEW x \in Alive(t)
       PROVE  /\ x[1] \in Nodes /\ Get(u, x) = u[x[1]] /\ Get(t, x) = t[x[1]] /\ x # None
              /\ x[1] = e[1] <=> x = e
              /\ \A y \in {n.parent, n.previous, n.next} : y # None => (x[1] = y[1] <=> x = y)
  BY <1>3, AliveIs DEF Get
<1>13. ASSUME NEW x \in Alive(t)
       PROVE  /\ Get(u, x).local = Get(t, x).local
              /\ Get(u, x).parent = IF x = e THEN None ELSE Get(t, x).parent
              /\ Get(u, x).next = IF x = e THEN None ELSE IF x = n.previous THEN n.next ELSE Get(t, x).next
              /\ Get(u, x).previous = IF x = e THEN None ELSE IF x = n.next THEN n.previous
                                      ELSE Get(t, x).previous
              /\ Get(u, x).first = IF n.previous = None /\ x = n.parent THEN n.next ELSE Get(t, x).first
              /\ Get(u, x).last = IF n.next = None /\ x = n.parent THEN n.previous ELSE Get(t, x).last
  <2> DEFINE i == x[1]
  <2>1. /\ i \in Nodes /\ Get(u, x) = u[i] /\ Get(t, x) = t[i] /\ x # None
        /\ i = e[1] <=> x = e
        /\ n.previous # None => (i = n.previous[1] <=> x = n.previous)
        /\ n.next # None => (i = n.next[1] <=> x = n.next)
        /\ n.parent # None => (i = n.parent[1] <=> x = n.parent)
    BY <1>12
  <2> HIDE DEF i
  <2>. QED
    BY <1>2, <1>8, <1>9, <1>10, <2>1
<1>. QED
  BY <1>4, <1>10, <1>11, <1>13 DEF DetachedFrom, n
(* What Attach changes of a root without siblings. *)
AttachedTo(t, u, c, p, l) ==
  /\ u \in Trees /\ Alive(u) = Alive(t)
  /\ \A i \in Nodes : u[i].identity = t[i].identity
  /\ \A x \in Alive(t) :
       /\ Get(u, x).local = IF x = c THEN l ELSE Get(t, x).local
       /\ Get(u, x).parent = IF x = c THEN p ELSE Get(t, x).parent
       /\ Get(u, x).previous = IF x = c /\ p # None THEN Get(t, p).last ELSE Get(t, x).previous
       /\ Get(u, x).last = IF x = p THEN c ELSE Get(t, x).last
       /\ Get(u, x).next = IF p # None /\ x = Get(t, p).last THEN c ELSE Get(t, x).next
       /\ Get(u, x).first = IF x = p /\ Get(t, x).last = None THEN c ELSE Get(t, x).first

(* Attach, field by field. *)
LEMMA AttachIs ==
  ASSUME NEW t, Forest(t), NEW c \in Alive(t), Get(t, c).parent = None,
         NEW p \in Alive(t) \cup {None}, p # c, NEW l \in Int
  PROVE  AttachedTo(t, Attach(t, c, p, l), c, p, l)
<1> DEFINE a == [t EXCEPT ![c[1]].local = l]
           alone == [a EXCEPT ![c[1]].parent = p]
           last == Get(t, p).last
           b == [alone EXCEPT ![c[1]].previous = last]
           linked == [b EXCEPT ![p[1]].last = c]
           u == IF p = None THEN alone
                ELSE IF last # None THEN [linked EXCEPT ![last[1]].next = c]
                     ELSE [linked EXCEPT ![p[1]].first = c]
<1>1. /\ t \in Trees /\ c[1] \in Nodes /\ None \in References /\ p \in References /\ c \in References
      /\ c # None
  BY AliveIs, ReferenceIs DEF Forest, Rooted
<1>2. Attach(t, c, p, l) = u
  BY DEF Attach
<1>3. /\ p # None => p[1] \in Nodes /\ p[1] # c[1] /\ last \in Alive(t) \cup {None}
      /\ p # None /\ last # None => last[1] \in Nodes /\ last[1] # c[1] /\ last \in References
  <2>1. p # None => p[1] \in Nodes /\ p[1] # c[1] /\ last \in Alive(t) \cup {None}
    BY LinksAre, AliveIs
  <2>2. ASSUME p # None, last = c PROVE FALSE
    <3>1. PICK s \in Seq(Alive(t)) : ListOf(t, p, s)
      BY <2>2 DEF Forest, Listed
    <3>2. Len(s) \in Nat /\ (Len(s) # 0 => Len(s) \in 1 .. Len(s))
      OBVIOUS
    <3>3. \E k \in 1 .. Len(s) : s[k] = c
      BY <2>2, <3>1, <3>2, <1>1 DEF ListOf
    <3>4. Get(t, c).parent = p
      BY <3>1, <3>3 DEF ListOf
    <3>. QED
      BY <2>2, <3>4
  <2>. QED
    BY <2>1, <2>2, AliveIs
<1>4. a \in Trees /\ SetTo(t, a, c[1], "local", l)
  <2>1. SetTo(t, a, c[1], "local", l)
    BY <1>1, SettingLocal, Zenon
  <2>. QED
    BY <2>1 DEF SetTo
<1> HIDE DEF a, last
<1>5. alone \in Trees /\ SetTo(a, alone, c[1], "parent", p)
  <2>1. SetTo(a, alone, c[1], "parent", p)
    BY <1>1, <1>4, SettingParent, Zenon
  <2>. QED
    BY <2>1 DEF SetTo
<1> HIDE DEF alone
<1>6. /\ alone \in Trees
      /\ \A j \in Nodes :
           /\ alone[j].identity = t[j].identity
           /\ alone[j].local = IF j = c[1] THEN l ELSE t[j].local
           /\ alone[j].parent = IF j = c[1] THEN p ELSE t[j].parent
           /\ alone[j].first = t[j].first /\ alone[j].last = t[j].last
           /\ alone[j].previous = t[j].previous /\ alone[j].next = t[j].next
  BY <1>4, <1>5 DEF SetTo
<1>7. ASSUME p # None
      PROVE  /\ linked \in Trees
             /\ \A j \in Nodes :
                  /\ linked[j].identity = t[j].identity
                  /\ linked[j].local = IF j = c[1] THEN l ELSE t[j].local
                  /\ linked[j].parent = IF j = c[1] THEN p ELSE t[j].parent
                  /\ linked[j].first = t[j].first /\ linked[j].next = t[j].next
                  /\ linked[j].previous = IF j = c[1] THEN last ELSE t[j].previous
                  /\ linked[j].last = IF j = p[1] THEN c ELSE t[j].last
  <2>1. last \in References
    BY <1>1, <1>3, <1>7
  <2>2. SetTo(alone, b, c[1], "previous", last)
    BY <1>1, <1>5, <2>1, SettingPrevious, Zenon
  <2>3. b \in Trees
    BY <2>2 DEF SetTo
  <2> HIDE DEF b
  <2>4. p[1] \in Nodes
    BY <1>3, <1>7
  <2>5. SetTo(b, linked, p[1], "last", c)
    BY <1>1, <2>3, <2>4, SettingLast, Zenon
  <2> HIDE DEF linked
  <2>. QED
    BY <1>6, <2>2, <2>5 DEF SetTo
<1> HIDE DEF linked
<1>8. /\ u \in Trees
      /\ \A j \in Nodes :
           /\ u[j].identity = t[j].identity
           /\ u[j].local = IF j = c[1] THEN l ELSE t[j].local
           /\ u[j].parent = IF j = c[1] THEN p ELSE t[j].parent
           /\ u[j].previous = IF j = c[1] /\ p # None THEN last ELSE t[j].previous
           /\ u[j].last = IF p # None /\ j = p[1] THEN c ELSE t[j].last
           /\ u[j].next = IF p # None /\ last # None /\ j = last[1] THEN c ELSE t[j].next
           /\ u[j].first = IF p # None /\ last = None /\ j = p[1] THEN c ELSE t[j].first
  <2>1. CASE p = None
    BY <1>6, <2>1
  <2>2. CASE p # None /\ last # None
    <3>1. linked \in Trees /\ last[1] \in Nodes
      BY <1>3, <1>7, <2>2
    <3>2. SetTo(linked, [linked EXCEPT ![last[1]].next = c], last[1], "next", c)
      BY <1>1, <3>1, SettingNext, Zenon
    <3>3. u = [linked EXCEPT ![last[1]].next = c]
      BY <2>2
    <3> HIDE DEF u
    <3>4. SetTo(linked, u, last[1], "next", c)
      BY <3>2, <3>3
    <3>. QED
      BY <1>7, <2>2, <3>4 DEF SetTo
  <2>3. CASE p # None /\ last = None
    <3>1. linked \in Trees /\ p[1] \in Nodes
      BY <1>3, <1>7, <2>3
    <3>2. SetTo(linked, [linked EXCEPT ![p[1]].first = c], p[1], "first", c)
      BY <1>1, <3>1, SettingFirst, Zenon
    <3>3. u = [linked EXCEPT ![p[1]].first = c]
      BY <2>3
    <3> HIDE DEF u
    <3>4. SetTo(linked, u, p[1], "first", c)
      BY <3>2, <3>3
    <3>. QED
      BY <1>7, <2>3, <3>4 DEF SetTo
  <2>. QED
    BY <2>1, <2>2, <2>3
<1> HIDE DEF u
<1>9. Alive(u) = Alive(t)
  BY <1>8, SameAlive
<1>10. ASSUME NEW x \in Alive(t)
       PROVE  /\ Get(u, x).local = IF x = c THEN l ELSE Get(t, x).local
              /\ Get(u, x).parent = IF x = c THEN p ELSE Get(t, x).parent
              /\ Get(u, x).previous = IF x = c /\ p # None THEN last ELSE Get(t, x).previous
              /\ Get(u, x).last = IF x = p THEN c ELSE Get(t, x).last
              /\ Get(u, x).next = IF p # None /\ x = last THEN c ELSE Get(t, x).next
              /\ Get(u, x).first = IF x = p /\ Get(t, x).last = None THEN c ELSE Get(t, x).first
  <2> DEFINE i == x[1]
  <2>1. /\ i \in Nodes /\ Get(u, x) = u[i] /\ Get(t, x) = t[i] /\ x # None
        /\ i = c[1] <=> x = c
        /\ p # None => (i = p[1] <=> x = p)
        /\ p # None /\ last # None => (i = last[1] <=> x = last)
        /\ p # None => last = t[p[1]].last
    BY <1>3, AliveIs DEF Get, last
  <2> HIDE DEF i
  <2>. QED
    BY <1>8, <2>1
<1>. QED
  BY <1>2, <1>8, <1>9, <1>10 DEF AttachedTo, last
(* The place of a node among its siblings. *)
PlacedIn(t, e, s, k) ==
  /\ s \in Seq(Alive(t)) /\ ListOf(t, Get(t, e).parent, s) /\ k \in 1 .. Len(s) /\ s[k] = e
  /\ Get(t, e).next = IF k < Len(s) THEN s[k + 1] ELSE None
  /\ Get(t, e).previous = IF k > 1 THEN s[k - 1] ELSE None

(* A node with a parent is in the list of its parent once. *)
LEMMA PlaceExists ==
  ASSUME NEW t, Forest(t), NEW e \in Alive(t), Get(t, e).parent # None
  PROVE  \E s \in Seq(Alive(t)) : \E k \in 1 .. Len(s) : PlacedIn(t, e, s, k)
<1> DEFINE p == Get(t, e).parent
<1>1. p \in Alive(t)
  BY DEF Forest, Rooted
<1>2. PICK s \in Seq(Alive(t)) : ListOf(t, p, s)
  BY <1>1 DEF Forest, Listed
<1>3. PICK k \in 1 .. Len(s) : s[k] = e
  BY <1>2 DEF ListOf
<1>4. /\ Get(t, e).next = IF k < Len(s) THEN s[k + 1] ELSE None
      /\ Get(t, e).previous = IF k > 1 THEN s[k - 1] ELSE None
  BY <1>2, <1>3 DEF ListOf
<1>. QED
  BY <1>2, <1>3, <1>4 DEF PlacedIn

(* Neighbours have the same parent. *)
LEMMA SiblingsShare ==
  ASSUME NEW t, Forest(t), NEW e \in Alive(t)
  PROVE  /\ Get(t, e).next # None => Get(t, Get(t, e).next).parent = Get(t, e).parent
         /\ Get(t, e).previous # None => Get(t, Get(t, e).previous).parent = Get(t, e).parent
<1>1. CASE Get(t, e).parent = None
  BY <1>1 DEF Forest, Rooted
<1>2. CASE Get(t, e).parent # None
  <2>1. PICK s \in Seq(Alive(t)) : \E k \in 1 .. Len(s) : PlacedIn(t, e, s, k)
    BY <1>2, PlaceExists
  <2>2. PICK k \in 1 .. Len(s) : PlacedIn(t, e, s, k)
    BY <2>1
  <2>3. Len(s) \in Nat /\ \A j \in 1 .. Len(s) : s[j] \in Alive(t)
    OBVIOUS
  <2>4. \A j \in 1 .. Len(s) : Get(t, s[j]).parent = Get(t, e).parent
    BY <2>2, <2>3 DEF PlacedIn, ListOf
  <2>5. /\ k < Len(s) => k + 1 \in 1 .. Len(s)
        /\ k > 1 => k - 1 \in 1 .. Len(s)
    BY <2>3
  <2>. QED
    BY <2>2, <2>4, <2>5 DEF PlacedIn
<1>. QED
  BY <1>1, <1>2

(* The list without its k-th node. *)
Spared(s, k) == [j \in 1 .. Len(s) - 1 |-> IF j < k THEN s[j] ELSE s[j + 1]]

LEMMA SparedIs ==
  ASSUME NEW S, NEW s \in Seq(S), NEW k \in 1 .. Len(s)
  PROVE  /\ Spared(s, k) \in Seq(S) /\ Len(Spared(s, k)) = Len(s) - 1
         /\ \A j \in 1 .. Len(s) - 1 : Spared(s, k)[j] = IF j < k THEN s[j] ELSE s[j + 1]
<1>1. Len(s) \in Nat /\ Len(s) - 1 \in Nat
  OBVIOUS
<1>2. \A j \in 1 .. Len(s) - 1 : (IF j < k THEN s[j] ELSE s[j + 1]) \in S
  BY <1>1
<1>. QED
  BY <1>1, <1>2 DEF Spared

(* A list of children that e is not in stays. *)
LEMMA OtherListsStay ==
  ASSUME NEW t, Forest(t), NEW e \in Alive(t), NEW u, DetachedFrom(t, u, e),
         NEW x \in Alive(t), Get(t, e).parent # x, NEW s \in Seq(Alive(t)), ListOf(t, x, s)
  PROVE  ListOf(u, x, s)
<1>1. Alive(u) = Alive(t) /\ x # None /\ Len(s) \in Nat
  BY AliveIs DEF DetachedFrom
<1>2. ASSUME NEW k \in 1 .. Len(s)
      PROVE  /\ s[k] \in Alive(t) /\ Get(t, s[k]).parent = x
             /\ s[k] # e /\ s[k] # Get(t, e).previous /\ s[k] # Get(t, e).next
  <2>1. s[k] \in Alive(t) /\ s[k] # None
    BY AliveIs
  <2>2. Get(t, s[k]).parent = x
    BY <2>1 DEF ListOf
  <2>. QED
    BY <2>1, <2>2, SiblingsShare
<1>3. \A k \in 1 .. Len(s) : Get(u, s[k]).next = Get(t, s[k]).next
                             /\ Get(u, s[k]).previous = Get(t, s[k]).previous
  BY <1>2 DEF DetachedFrom
<1>4. Get(u, x).first = Get(t, x).first /\ Get(u, x).last = Get(t, x).last
  BY DEF DetachedFrom
<1>5. \A c \in Alive(t) : Get(u, c).parent = x <=> Get(t, c).parent = x
  BY <1>1 DEF DetachedFrom
<1>. QED
  BY <1>1, <1>3, <1>4, <1>5 DEF ListOf

(* The list of e's parent loses it. *)
LEMMA ListLoses ==
  ASSUME NEW t, Forest(t), NEW e \in Alive(t), NEW u, DetachedFrom(t, u, e),
         Get(t, e).parent # None, NEW s \in Seq(Alive(t)), NEW k \in 1 .. Len(s), PlacedIn(t, e, s, k)
  PROVE  ListOf(u, Get(t, e).parent, Spared(s, k))
<1> DEFINE p == Get(t, e).parent
           q == Spared(s, k)
           m == Len(s)
           n == Get(t, e)
<1>1. Alive(u) = Alive(t) /\ p \in Alive(t) /\ m \in Nat /\ p # e /\ e # None
  BY AliveIs, LinksAre DEF DetachedFrom
<1>2. /\ q \in Seq(Alive(t)) /\ Len(q) = m - 1
      /\ \A j \in 1 .. m - 1 : q[j] = IF j < k THEN s[j] ELSE s[j + 1]
  BY SparedIs
<1>3. /\ \A j \in 1 .. m : s[j] \in Alive(t) /\ s[j] # None
      /\ \A i, j \in 1 .. m : s[i] = s[j] => i = j
      /\ \A c \in Alive(t) : Get(t, c).parent = p <=> \E j \in 1 .. m : s[j] = c
      /\ \A j \in 1 .. m :
           /\ Get(t, s[j]).next = IF j < m THEN s[j + 1] ELSE None
           /\ Get(t, s[j]).previous = IF j > 1 THEN s[j - 1] ELSE None
      /\ Get(t, p).first = s[1] /\ Get(t, p).last = s[m]
  <2>1. \A j \in 1 .. m : s[j] \in Alive(t) /\ s[j] # None
    BY AliveIs
  <2>. QED
    BY <1>1, <2>1 DEF PlacedIn, ListOf
<1>4. /\ s[k] = e
      /\ n.next = IF k < m THEN s[k + 1] ELSE None
      /\ n.previous = IF k > 1 THEN s[k - 1] ELSE None
  BY DEF PlacedIn
<1> HIDE DEF q, n
<1>5. /\ \A x \in Alive(t) :
           /\ Get(u, x).parent = IF x = e THEN None ELSE Get(t, x).parent
           /\ Get(u, x).next = IF x = e THEN None ELSE IF x = n.previous THEN n.next ELSE Get(t, x).next
           /\ Get(u, x).previous = IF x = e THEN None ELSE IF x = n.next THEN n.previous
                                   ELSE Get(t, x).previous
      /\ Get(u, p).first = IF n.previous = None THEN n.next ELSE Get(t, p).first
      /\ Get(u, p).last = IF n.next = None THEN n.previous ELSE Get(t, p).last
  BY <1>1 DEF DetachedFrom, n
<1> HIDE DEF p, m
<1>6. ASSUME NEW c \in Alive(t)
      PROVE  Get(u, c).parent = p <=> \E j \in 1 .. m - 1 : q[j] = c
  <2>1. ASSUME NEW j \in 1 .. m - 1, q[j] = c PROVE Get(u, c).parent = p
    <3>1. PICK i \in 1 .. m : s[i] = c /\ i # k
      BY <1>1, <1>2, <2>1 DEF m
    <3>2. c # e
      BY <1>3, <1>4, <3>1 DEF m
    <3>3. Get(t, c).parent = p
      BY <1>3, <3>1
    <3>. QED
      BY <1>5, <3>2, <3>3
  <2>2. ASSUME Get(u, c).parent = p PROVE \E j \in 1 .. m - 1 : q[j] = c
    <3>1. c # e /\ Get(t, c).parent = p
      BY <1>1, <1>5, <2>2, AliveIs
    <3>2. PICK i \in 1 .. m : s[i] = c
      BY <1>3, <3>1
    <3>3. i # k
      BY <1>4, <3>1, <3>2
    <3>4. CASE i < k
      BY <1>1, <1>2, <3>2, <3>4 DEF m
    <3>5. CASE i > k
      <4>1. i - 1 \in 1 .. m - 1 /\ ~(i - 1 < k) /\ (i - 1) + 1 = i
        BY <1>1, <3>5 DEF m
      <4>. QED
        BY <1>2, <3>2, <4>1
    <3>. QED
      BY <3>3, <3>4, <3>5 DEF m
  <2>. QED
    BY <2>1, <2>2
<1>7. \A i, j \in 1 .. m - 1 : q[i] = q[j] => i = j
  BY <1>1, <1>2, <1>3 DEF m
<1>8. ASSUME NEW j \in 1 .. m - 1
      PROVE  /\ Get(u, q[j]).next = IF j < m - 1 THEN q[j + 1] ELSE None
             /\ Get(u, q[j]).previous = IF j > 1 THEN q[j - 1] ELSE None
  <2> DEFINE i == IF j < k THEN j ELSE j + 1
  <2>1. /\ q[j] = s[i] /\ i \in 1 .. m /\ i # k
        /\ i < k <=> j < k
        /\ j < k => i = j
        /\ j >= k => i = j + 1
    BY <1>1, <1>2 DEF m
  <2>2. s[i] # e /\ s[i] \in Alive(t)
    BY <1>3, <1>4, <2>1 DEF m
  <2>3. s[i] = n.previous <=> k > 1 /\ i = k - 1
    BY <1>1, <1>3, <1>4, <2>1 DEF m
  <2>4. s[i] = n.next <=> k < m /\ i = k + 1
    BY <1>1, <1>3, <1>4, <2>1 DEF m
  <2>5. /\ j < m - 1 => q[j + 1] = IF j + 1 < k THEN s[j + 1] ELSE s[j + 2]
        /\ j > 1 => q[j - 1] = IF j - 1 < k THEN s[j - 1] ELSE s[j]
    <3>1. /\ (j + 1) + 1 = j + 2 /\ (j - 1) + 1 = j
          /\ j < m - 1 => j + 1 \in 1 .. m - 1
          /\ j > 1 => j - 1 \in 1 .. m - 1
      BY <1>1 DEF m
    <3> HIDE DEF m
    <3>. QED
      BY <1>2, <3>1
  <2> HIDE DEF i
  <2>6. /\ Get(u, s[i]).next = IF k > 1 /\ i = k - 1 THEN n.next
                               ELSE IF i < m THEN s[i + 1] ELSE None
        /\ Get(u, s[i]).previous = IF k < m /\ i = k + 1 THEN n.previous
                                   ELSE IF i > 1 THEN s[i - 1] ELSE None
    BY <1>3, <1>5, <2>1, <2>2, <2>3, <2>4
  <2>7. CASE j < k
    BY <1>1, <1>4, <2>1, <2>5, <2>6, <2>7 DEF m
  <2>8. CASE j >= k
    BY <1>1, <1>4, <2>1, <2>5, <2>6, <2>8 DEF m
  <2>. QED
    BY <2>7, <2>8 DEF m
<1>9. /\ Get(u, p).first = IF m - 1 = 0 THEN None ELSE q[1]
      /\ Get(u, p).last = IF m - 1 = 0 THEN None ELSE q[m - 1]
  <2>1. n.previous = None <=> k = 1
    BY <1>1, <1>3, <1>4 DEF m
  <2>2. n.next = None <=> k = m
    BY <1>1, <1>3, <1>4 DEF m
  <2>3. m - 1 # 0 => q[1] = (IF 1 < k THEN s[1] ELSE s[2]) /\ q[m - 1] = (IF m - 1 < k THEN s[m - 1] ELSE s[m])
    <3>1. /\ (m - 1) + 1 = m /\ 1 + 1 = 2
          /\ m - 1 # 0 => 1 \in 1 .. m - 1 /\ m - 1 \in 1 .. m - 1
      <4>1. m \in Nat /\ m >= 1
        BY <1>1 DEF m
      <4>. QED
        BY <4>1
    <3>2. ASSUME m - 1 # 0
          PROVE  q[1] = IF 1 < k THEN s[1] ELSE s[2]
      BY <1>2, <3>1, <3>2
    <3>3. ASSUME m - 1 # 0
          PROVE  q[m - 1] = IF m - 1 < k THEN s[m - 1] ELSE s[m]
      <4>1. q[m - 1] = IF m - 1 < k THEN s[m - 1] ELSE s[(m - 1) + 1]
        BY <1>2, <3>1, <3>3
      <4>. QED
        BY <3>1, <4>1
    <3>. QED
      BY <3>2, <3>3
  <2>4. k \in 1 .. m /\ m \in Nat
    BY <1>1 DEF m
  <2>5. Get(u, p).first = IF k = 1 THEN (IF k < m THEN s[k + 1] ELSE None) ELSE s[1]
    BY <1>3, <1>4, <1>5, <2>1
  <2>6. Get(u, p).last = IF k = m THEN (IF k > 1 THEN s[k - 1] ELSE None) ELSE s[m]
    BY <1>3, <1>4, <1>5, <2>2
  <2>7. Get(u, p).first = IF m - 1 = 0 THEN None ELSE q[1]
    BY <2>3, <2>4, <2>5
  <2>8. Get(u, p).last = IF m - 1 = 0 THEN None ELSE q[m - 1]
    BY <2>3, <2>4, <2>6
  <2>. QED
    BY <2>7, <2>8
<1>. QED
  BY <1>1, <1>2, <1>6, <1>7, <1>8, <1>9 DEF ListOf, p, q

(* Detach leaves a forest in which e is a root. *)
LEMMA DetachSound ==
  ASSUME NEW t, Forest(t), NEW e \in Alive(t), NEW u, u = Detach(t, e)
  PROVE  /\ DetachedFrom(t, u, e) /\ Forest(u) /\ Get(u, e).parent = None
         /\ \A d \in [Alive(t) -> Nat] : Falls(t, d) => Falls(u, d)
<1>1. DetachedFrom(t, u, e)
  BY DetachIs
<1>2. Alive(u) = Alive(t) /\ e # None /\ Get(u, e).parent = None
  BY <1>1, AliveIs DEF DetachedFrom
<1>3. ASSUME NEW d \in [Alive(t) -> Nat], Falls(t, d)
      PROVE  Falls(u, d)
  BY <1>1, <1>2, <1>3 DEF DetachedFrom, Falls
<1>4. Acyclic(u)
  BY <1>2, <1>3 DEF Forest, Acyclic
<1>5. Rooted(u)
  <2>1. u \in Trees /\ \A i \in Nodes : u[i].identity # None => u[i].identity[1] = i
    BY <1>1 DEF DetachedFrom, Forest, Rooted
  <2>2. ASSUME NEW x \in Alive(t)
        PROVE  /\ Get(u, x).parent \in Alive(t) \cup {None}
               /\ Get(u, x).parent = None => Get(u, x).previous = None /\ Get(u, x).next = None
    <3>1. CASE x = e
      BY <1>1, <3>1 DEF DetachedFrom
    <3>2. CASE x # e
      <4>1. Get(u, x).parent = Get(t, x).parent /\ Get(t, x).parent \in Alive(t) \cup {None}
        BY <1>1, <3>2 DEF DetachedFrom, Forest, Rooted
      <4>2. ASSUME Get(t, x).parent = None
            PROVE  Get(u, x).previous = None /\ Get(u, x).next = None
        <5>1. Get(t, x).previous = None /\ Get(t, x).next = None /\ x # None
          BY <4>2, AliveIs DEF Forest, Rooted
        <5>2. x # Get(t, e).next /\ x # Get(t, e).previous
          <6>1. x = Get(t, e).next \/ x = Get(t, e).previous => Get(t, e).parent = None
            BY <4>2, <5>1, SiblingsShare
          <6>2. Get(t, e).parent = None => Get(t, e).next = None /\ Get(t, e).previous = None
            BY DEF Forest, Rooted
          <6>. QED
            BY <5>1, <6>1, <6>2
        <5>. QED
          BY <1>1, <5>1, <5>2, <3>2 DEF DetachedFrom
      <4>. QED
        BY <4>1, <4>2
    <3>. QED
      BY <3>1, <3>2
  <2>. QED
    BY <1>2, <2>1, <2>2 DEF Rooted
<1>6. Listed(u)
  <2>1. ASSUME NEW x \in Alive(t)
        PROVE  \E s \in Seq(Alive(t)) : ListOf(u, x, s)
    <3>1. CASE Get(t, e).parent = x
      <4>0. Get(t, e).parent # None
        BY <3>1, AliveIs
      <4>1. PICK s \in Seq(Alive(t)) : \E k \in 1 .. Len(s) : PlacedIn(t, e, s, k)
        BY <4>0, PlaceExists
      <4>2. PICK k \in 1 .. Len(s) : PlacedIn(t, e, s, k)
        BY <4>1
      <4>3. ListOf(u, x, Spared(s, k))
        BY <1>1, <3>1, <4>0, <4>2, ListLoses
      <4>. QED
        BY <4>3, SparedIs
    <3>2. CASE Get(t, e).parent # x
      <4>1. PICK s \in Seq(Alive(t)) : ListOf(t, x, s)
        BY DEF Forest, Listed
      <4>. QED
        BY <1>1, <3>2, <4>1, OtherListsStay
    <3>. QED
      BY <3>1, <3>2
  <2>. QED
    BY <1>2, <2>1 DEF Listed
<1>. QED
  BY <1>1, <1>2, <1>3, <1>4, <1>5, <1>6 DEF Forest

(* A list that grows at its end. *)
LEMMA AppendIs ==
  ASSUME NEW S, NEW s \in Seq(S), NEW c \in S
  PROVE  /\ Append(s, c) \in Seq(S) /\ Len(Append(s, c)) = Len(s) + 1
         /\ \A j \in 1 .. Len(s) : Append(s, c)[j] = s[j]
         /\ Append(s, c)[Len(s) + 1] = c
  OBVIOUS

(* A list of children that c does not join stays. *)
LEMMA OtherListsRemain ==
  ASSUME NEW t, Forest(t), NEW c \in Alive(t), Get(t, c).parent = None,
         NEW p \in Alive(t) \cup {None}, NEW l, NEW u, AttachedTo(t, u, c, p, l),
         NEW x \in Alive(t), p # x, NEW s \in Seq(Alive(t)), ListOf(t, x, s)
  PROVE  ListOf(u, x, s)
<1>1. Alive(u) = Alive(t) /\ x # None /\ Len(s) \in Nat
  BY AliveIs DEF AttachedTo
<1>2. ASSUME NEW k \in 1 .. Len(s)
      PROVE  s[k] \in Alive(t) /\ s[k] # c /\ (p # None => s[k] # Get(t, p).last)
  <2>1. s[k] \in Alive(t) /\ s[k] # None
    BY AliveIs
  <2>2. Get(t, s[k]).parent = x
    BY <2>1 DEF ListOf
  <2>3. ASSUME p # None, s[k] = Get(t, p).last PROVE FALSE
    <3>1. PICK q \in Seq(Alive(t)) : ListOf(t, p, q)
      BY <2>3 DEF Forest, Listed
    <3>2. Len(q) \in Nat /\ (Len(q) # 0 => Len(q) \in 1 .. Len(q))
      OBVIOUS
    <3>3. \E j \in 1 .. Len(q) : q[j] = s[k]
      BY <2>1, <2>3, <3>1, <3>2 DEF ListOf
    <3>4. Get(t, s[k]).parent = p
      BY <2>1, <3>1, <3>3 DEF ListOf
    <3>. QED
      BY <2>2, <3>4
  <2>. QED
    BY <1>1, <2>1, <2>2, <2>3
<1>3. \A k \in 1 .. Len(s) : Get(u, s[k]).next = Get(t, s[k]).next
                             /\ Get(u, s[k]).previous = Get(t, s[k]).previous
  BY <1>2 DEF AttachedTo
<1>4. Get(u, x).first = Get(t, x).first /\ Get(u, x).last = Get(t, x).last
  BY DEF AttachedTo
<1>5. \A y \in Alive(t) : Get(u, y).parent = x <=> Get(t, y).parent = x
  BY <1>1 DEF AttachedTo
<1>. QED
  BY <1>1, <1>3, <1>4, <1>5 DEF ListOf

(* The list of the new parent ends with c. *)
LEMMA ListGains ==
  ASSUME NEW t, Forest(t), NEW c \in Alive(t), Get(t, c).parent = None,
         NEW p \in Alive(t), p # c, NEW l, NEW u, AttachedTo(t, u, c, p, l),
         NEW s \in Seq(Alive(t)), ListOf(t, p, s)
  PROVE  ListOf(u, p, Append(s, c))
<1> DEFINE q == Append(s, c)
           m == Len(s)
           last == Get(t, p).last
<1>1. Alive(u) = Alive(t) /\ m \in Nat /\ p # None /\ c # None
  BY AliveIs DEF AttachedTo
<1>2. /\ Len(q) = m + 1
      /\ \A j \in 1 .. m : q[j] = s[j]
      /\ q[m + 1] = c
  BY AppendIs
<1>3. /\ \A j \in 1 .. m : s[j] \in Alive(t) /\ s[j] # None /\ s[j] # c
      /\ \A i, j \in 1 .. m : s[i] = s[j] => i = j
      /\ \A y \in Alive(t) : Get(t, y).parent = p <=> \E j \in 1 .. m : s[j] = y
      /\ \A j \in 1 .. m :
           /\ Get(t, s[j]).next = IF j < m THEN s[j + 1] ELSE None
           /\ Get(t, s[j]).previous = IF j > 1 THEN s[j - 1] ELSE None
      /\ Get(t, p).first = IF m = 0 THEN None ELSE s[1]
      /\ last = IF m = 0 THEN None ELSE s[m]
  <2>1. \A j \in 1 .. m : s[j] \in Alive(t) /\ s[j] # None
    BY AliveIs
  <2>2. \A j \in 1 .. m : s[j] # c
    BY <1>1 DEF ListOf
  <2>. QED
    BY <2>1, <2>2 DEF ListOf
<1>4. Get(t, c).next = None /\ Get(t, c).previous = None
  BY DEF Forest, Rooted
<1> HIDE DEF q, last
<1>5. /\ \A x \in Alive(t) :
           /\ Get(u, x).parent = IF x = c THEN p ELSE Get(t, x).parent
           /\ Get(u, x).previous = IF x = c THEN last ELSE Get(t, x).previous
           /\ Get(u, x).next = IF x = last THEN c ELSE Get(t, x).next
      /\ Get(u, p).last = c
      /\ Get(u, p).first = IF last = None THEN c ELSE Get(t, p).first
  BY <1>1 DEF AttachedTo, last
<1> HIDE DEF m
<1>6. ASSUME NEW y \in Alive(t)
      PROVE  Get(u, y).parent = p <=> \E j \in 1 .. m + 1 : q[j] = y
  <2>1. CASE y = c
    BY <1>1, <1>2, <1>5, <2>1
  <2>2. CASE y # c
    <3>1. (\E j \in 1 .. m + 1 : q[j] = y) <=> \E j \in 1 .. m : s[j] = y
      BY <1>1, <1>2, <2>2
    <3>. QED
      BY <1>3, <1>5, <2>2, <3>1
  <2>. QED
    BY <2>1, <2>2
<1>7. \A i, j \in 1 .. m + 1 : q[i] = q[j] => i = j
  <2>1. \A j \in 1 .. m + 1 : j = m + 1 \/ j \in 1 .. m
    BY <1>1
  <2>2. \A j \in 1 .. m : q[j] = s[j] /\ q[j] # c
    BY <1>2, <1>3
  <2>. QED
    BY <1>2, <1>3, <2>1, <2>2
<1>8. ASSUME NEW j \in 1 .. m + 1
      PROVE  /\ Get(u, q[j]).next = IF j < m + 1 THEN q[j + 1] ELSE None
             /\ Get(u, q[j]).previous = IF j > 1 THEN q[j - 1] ELSE None
  <2>1. CASE j = m + 1
    <3>1. c # last /\ (j > 1 => q[j - 1] = s[m] /\ m # 0) /\ (~(j > 1) => m = 0)
      BY <1>1, <1>2, <1>3, <2>1
    <3>. QED
      BY <1>1, <1>2, <1>3, <1>4, <1>5, <2>1, <3>1
  <2>2. CASE j # m + 1
    <3>1. j \in 1 .. m /\ q[j] = s[j] /\ j < m + 1 /\ m # 0 /\ s[j] \in Alive(t) /\ s[j] # c
      BY <1>1, <1>2, <1>3, <2>2
    <3>2. s[j] = last <=> j = m
      BY <1>1, <1>3, <3>1
    <3>3. /\ q[j + 1] = IF j = m THEN c ELSE s[j + 1]
          /\ j > 1 => q[j - 1] = s[j - 1]
      BY <1>1, <1>2, <3>1
    <3>4. Get(u, s[j]).next = IF j = m THEN c ELSE IF j < m THEN s[j + 1] ELSE None
      BY <1>3, <1>5, <3>1, <3>2
    <3>5. Get(u, s[j]).previous = IF j > 1 THEN s[j - 1] ELSE None
      BY <1>3, <1>5, <3>1
    <3>. QED
      BY <1>1, <3>1, <3>3, <3>4, <3>5
  <2>. QED
    BY <2>1, <2>2
<1>9. /\ Get(u, p).first = q[1]
      /\ Get(u, p).last = q[m + 1]
  <2>1. CASE m = 0
    BY <1>1, <1>2, <1>3, <1>5, <2>1
  <2>2. CASE m # 0
    <3>1. 1 \in 1 .. m /\ m \in 1 .. m
      BY <1>1, <2>2
    <3>. QED
      BY <1>2, <1>3, <1>5, <2>2, <3>1
  <2>. QED
    BY <2>1, <2>2
<1>10. m + 1 # 0
  BY <1>1
<1>. QED
  BY <1>1, <1>2, <1>6, <1>7, <1>8, <1>9, <1>10 DEF ListOf, q

(* The nodes below c: c itself and those whose parent is below it. *)
Under(t, c, B) ==
  /\ B \in SUBSET Alive(t) /\ c \in B
  /\ \A x \in Alive(t) : x # c => (x \in B <=> Get(t, x).parent \in B)

(* A root becomes a child of a node that is not below it: the depths below it grow. *)
LEMMA AttachSound ==
  ASSUME NEW t, Forest(t), NEW c \in Alive(t), Get(t, c).parent = None,
         NEW p \in Alive(t) \cup {None}, NEW l \in Int, NEW B, Under(t, c, B), p \notin B,
         NEW u, u = Attach(t, c, p, l)
  PROVE  AttachedTo(t, u, c, p, l) /\ Forest(u)
<1>0. p # c
  BY DEF Under
<1>1. AttachedTo(t, u, c, p, l)
  BY <1>0, AttachIs
<1>2. Alive(u) = Alive(t) /\ c # None
  BY <1>1, AliveIs DEF AttachedTo
<1>3. Acyclic(u)
  <2>1. PICK d \in [Alive(t) -> Nat] : Falls(t, d)
    BY DEF Forest, Acyclic
  <2> DEFINE more == IF p = None THEN 0 ELSE d[p] + 1
             f == [x \in Alive(t) |-> IF x \in B THEN d[x] + more ELSE d[x]]
  <2>2. more \in Nat /\ (p # None => more > d[p] /\ p \in Alive(t))
    BY <2>1
  <2>3. /\ f \in [Alive(t) -> Nat]
        /\ \A x \in Alive(t) : f[x] = IF x \in B THEN d[x] + more ELSE d[x]
    BY <2>1, <2>2
  <2> HIDE DEF f, more
  <2>4. ASSUME NEW x \in Alive(t), Get(u, x).parent # None
        PROVE  f[Get(u, x).parent] < f[x]
    <3>1. CASE x = c
      <4>1. Get(u, x).parent = p /\ c \in B
        BY <1>1, <3>1 DEF AttachedTo, Under
      <4>. QED
        BY <2>1, <2>2, <2>3, <2>4, <3>1, <4>1
    <3>2. CASE x # c
      <4> DEFINE y == Get(t, x).parent
      <4>1. Get(u, x).parent = y /\ y \in Alive(t)
        BY <1>1, <2>4, <3>2 DEF AttachedTo, Forest, Rooted
      <4>2. d[y] < d[x] /\ (x \in B <=> y \in B)
        BY <2>1, <2>4, <3>2, <4>1 DEF Falls, Under
      <4> HIDE DEF y
      <4>. QED
        BY <2>1, <2>2, <2>3, <4>1, <4>2
    <3>. QED
      BY <3>1, <3>2
  <2>. QED
    BY <1>2, <2>3, <2>4 DEF Acyclic, Falls
<1>4. Rooted(u)
  <2>1. u \in Trees /\ \A i \in Nodes : u[i].identity # None => u[i].identity[1] = i
    BY <1>1 DEF AttachedTo, Forest, Rooted
  <2>2. ASSUME NEW x \in Alive(t)
        PROVE  /\ Get(u, x).parent \in Alive(t) \cup {None}
               /\ Get(u, x).parent = None => Get(u, x).previous = None /\ Get(u, x).next = None
    <3>1. Get(u, x).parent \in Alive(t) \cup {None}
      BY <1>1 DEF AttachedTo, Forest, Rooted
    <3>2. ASSUME Get(u, x).parent = None
          PROVE  Get(u, x).previous = None /\ Get(u, x).next = None
      <4>1. Get(t, x).parent = None /\ (x = c => p = None)
        BY <1>1, <3>2 DEF AttachedTo
      <4>2. Get(t, x).previous = None /\ Get(t, x).next = None
        BY <4>1 DEF Forest, Rooted
      <4>3. ASSUME p # None, x = Get(t, p).last PROVE FALSE
        <5>1. PICK q \in Seq(Alive(t)) : ListOf(t, p, q)
          BY <4>3 DEF Forest, Listed
        <5>2. x # None /\ Len(q) \in Nat /\ (Len(q) # 0 => Len(q) \in 1 .. Len(q))
          BY AliveIs
        <5>3. \E j \in 1 .. Len(q) : q[j] = x
          BY <4>3, <5>1, <5>2 DEF ListOf
        <5>. QED
          BY <4>1, <4>3, <5>1, <5>3 DEF ListOf
      <4>. QED
        BY <1>1, <4>1, <4>2, <4>3 DEF AttachedTo
    <3>. QED
      BY <3>1, <3>2
  <2>. QED
    BY <1>2, <2>1, <2>2 DEF Rooted
<1>5. Listed(u)
  <2>1. ASSUME NEW x \in Alive(t)
        PROVE  \E s \in Seq(Alive(t)) : ListOf(u, x, s)
    <3>1. PICK s \in Seq(Alive(t)) : ListOf(t, x, s)
      BY DEF Forest, Listed
    <3>2. CASE p = x
      BY <1>0, <1>1, <3>1, <3>2, ListGains, AppendIs
    <3>3. CASE p # x
      BY <1>1, <3>1, <3>3, OtherListsRemain
    <3>. QED
      BY <3>2, <3>3
  <2>. QED
    BY <1>2, <2>1 DEF Listed
<1>. QED
  BY <1>1, <1>3, <1>4, <1>5 DEF Forest

(***************************************************************************)
(* Walks up the tree.                                                      *)
(***************************************************************************)

(* A nonempty set of naturals has a smallest element. *)
LEMMA SmallestOf ==
  ASSUME NEW T \in SUBSET Nat, T # {}
  PROVE  \E x \in T : \A y \in T : x <= y
<1>. DEFINE R == {ss \in Nat \X Nat : ss[1] < ss[2]}
<1>1. IsWellFoundedOn(R, Nat)
  BY NatLessThanWellFounded, Zenon DEF OpToRel
<1>2. \E x \in T : \A y \in T : ~ (<<y, x>> \in R)
  <2>. HIDE DEF R
  <2>. QED BY <1>1, WFMin
<1>3. PICK x \in T : \A y \in T : ~ (<<y, x>> \in R)
  BY <1>2
<1>4. ASSUME NEW y \in T, y < x
      PROVE  <<y, x>> \in R
  BY <1>4
<1>. HIDE DEF R
<1>5. \A y \in T : ~ (y < x)
  BY <1>3, <1>4
<1>. QED
  BY <1>5

(* Induction up to a bound, over a set. *)
LEMMA UpTo ==
  ASSUME NEW n \in Nat, NEW S, 0 \in S, \A k \in 0 .. n - 1 : k \in S => k + 1 \in S
  PROVE  0 .. n \subseteq S
<1> SUFFICES ASSUME (0 .. n) \ S # {} PROVE FALSE
  OBVIOUS
<1>0. (0 .. n) \ S \in SUBSET Nat
  OBVIOUS
<1>1. PICK x \in (0 .. n) \ S : \A y \in (0 .. n) \ S : x <= y
  BY <1>0, SmallestOf
<1>2. x - 1 \in 0 .. n - 1 /\ (x - 1) + 1 = x
  BY <1>1
<1>3. x - 1 \in S
  BY <1>1, <1>2
<1>. QED
  BY <1>1, <1>2, <1>3

(* n steps of g from base *)
Steps(n, base, g, h) == h[0] = base /\ \A k \in 1 .. n : h[k] = g[h[k - 1]]

(* The sequence of n steps exists, *)
LEMMA StepsExist ==
  ASSUME NEW A, NEW n \in Nat, NEW base \in A, NEW g \in [A -> A]
  PROVE  \E h \in [0 .. n -> A] : Steps(n, base, g, h)
<1> DEFINE S == {k \in 0 .. n : \E h \in [0 .. k -> A] : Steps(k, base, g, h)}
<1>1. 0 \in S
  <2> DEFINE h == [k \in 0 .. 0 |-> base]
  <2>1. h \in [0 .. 0 -> A] /\ h[0] = base /\ 1 .. 0 = {} /\ 0 \in 0 .. n
    OBVIOUS
  <2> HIDE DEF h
  <2>. QED
    BY <2>1 DEF Steps
<1>2. ASSUME NEW k \in 0 .. n - 1, k \in S
      PROVE  k + 1 \in S
  <2>1. PICK h \in [0 .. k -> A] : Steps(k, base, g, h)
    BY <1>2
  <2> DEFINE f == [i \in 0 .. k + 1 |-> IF i = k + 1 THEN g[h[k]] ELSE h[i]]
  <2>2. k \in Nat /\ k \in 0 .. k /\ k + 1 \in 0 .. n /\ g[h[k]] \in A /\ k # k + 1
    BY <2>1
  <2>3. \A i \in 0 .. k + 1 : i # k + 1 => i \in 0 .. k
    BY <2>2
  <2>4. f \in [0 .. k + 1 -> A]
    <3>1. \A i \in 0 .. k + 1 : (IF i = k + 1 THEN g[h[k]] ELSE h[i]) \in A
      BY <2>1, <2>2, <2>3
    <3>. QED
      BY <3>1
  <2>5. f[k + 1] = g[h[k]] /\ \A i \in 0 .. k : f[i] = h[i]
    BY <2>2
  <2> HIDE DEF f
  <2>6. f[0] = base
    BY <2>1, <2>2, <2>5 DEF Steps
  <2>7. ASSUME NEW i \in 1 .. k + 1
        PROVE  f[i] = g[f[i - 1]]
    <3>1. CASE i = k + 1
      BY <2>2, <2>5, <3>1
    <3>2. CASE i # k + 1
      <4>1. i \in 1 .. k /\ i \in 0 .. k /\ i - 1 \in 0 .. k
        BY <2>2, <3>2
      <4>. QED
        BY <2>1, <2>5, <4>1 DEF Steps
    <3>. QED
      BY <3>1, <3>2
  <2>8. Steps(k + 1, base, g, f)
    BY <2>6, <2>7 DEF Steps
  <2>. QED
    BY <2>2, <2>4, <2>8
<1>3. n \in S
  <2> HIDE DEF S
  <2>1. 0 .. n \subseteq S
    BY <1>1, <1>2, UpTo
  <2>. QED
    BY <2>1
<1>. QED
  BY <1>3

(* and whatever takes these steps stays in the set they stay in. *)
LEMMA Follows ==
  ASSUME NEW A, NEW n \in Nat, NEW base \in A, NEW g \in [A -> A], NEW f,
         f[0] = base, \A k \in 1 .. n : f[k - 1] \in A => f[k] = g[f[k - 1]]
  PROVE  Steps(n, base, g, f) /\ \A k \in 0 .. n : f[k] \in A
<1> DEFINE S == {k \in 0 .. n : f[k] \in A}
<1>1. 0 \in S
  OBVIOUS
<1>2. ASSUME NEW k \in 0 .. n - 1, k \in S
      PROVE  k + 1 \in S
  <2>1. k + 1 \in 1 .. n /\ k + 1 \in 0 .. n /\ (k + 1) - 1 = k
    OBVIOUS
  <2>2. f[k + 1] = g[f[k]]
    BY <1>2, <2>1
  <2>. QED
    BY <1>2, <2>1, <2>2
<1>3. 0 .. n \subseteq S
  <2> HIDE DEF S
  <2>. QED
    BY <1>1, <1>2, UpTo
<1>4. \A k \in 0 .. n : f[k] \in A
  BY <1>3
<1>5. \A k \in 1 .. n : k - 1 \in 0 .. n
  OBVIOUS
<1>. QED
  BY <1>4, <1>5 DEF Steps

(* The nodes the parents lead to, one after the other. *)
UpFrom(t, e) ==
  CHOOSE up : up = [k \in 0 .. Cardinality(Nodes) |->
                      IF k = 0 THEN e
                      ELSE IF up[k - 1] = None THEN None ELSE Get(t, up[k - 1]).parent]

LEMMA AncestorsAre ==
  ASSUME NEW t, NEW e
  PROVE  Ancestors(t, e) = {UpFrom(t, e)[k] : k \in 0 .. Cardinality(Nodes)} \ {None}
  BY DEF Ancestors, UpFrom

(* Walks have a bound. *)
LEMMA NodesAreFinite == Cardinality(Nodes) \in Nat
  BY HierarchyAssumption, FS_CardinalityType

(* The fields of a node. *)
LEMMA FieldsAre ==
  ASSUME NEW t \in Trees, NEW e \in References, e # None
  PROVE  /\ Get(t, e).parent \in References /\ Get(t, e).first \in References
         /\ Get(t, e).last \in References /\ Get(t, e).previous \in References
         /\ Get(t, e).next \in References /\ Get(t, e).local \in Int
<1>1. e[1] \in Nodes
  BY ReferenceIs
<1>2. t[e[1]] \in NodeRecords
  BY <1>1 DEF Trees
<1>. QED
  BY <1>2 DEF Get, NodeRecords

(* A recursive walk takes the steps of its definition. *)
LEMMA UpIs ==
  ASSUME NEW t \in Trees, NEW e \in References
  PROVE  /\ UpFrom(t, e)[0] = e
         /\ \A k \in 0 .. Cardinality(Nodes) : UpFrom(t, e)[k] \in References
         /\ \A k \in 1 .. Cardinality(Nodes) :
              UpFrom(t, e)[k] = IF UpFrom(t, e)[k - 1] = None THEN None
                                ELSE Get(t, UpFrom(t, e)[k - 1]).parent
<1> DEFINE n == Cardinality(Nodes)
           up(r) == IF r = None THEN None ELSE Get(t, r).parent
           g == [r \in References |-> up(r)]
           body(f) == [k \in 0 .. n |-> IF k = 0 THEN e ELSE up(f[k - 1])]
           F == CHOOSE f : f = body(f)
<1>1. UpFrom(t, e) = F
  BY DEF UpFrom
<1>2. n \in Nat
  BY NodesAreFinite
<1>3. \A r \in References : up(r) \in References
  BY ReferenceIs, FieldsAre
<1>4. g \in [References -> References] /\ \A r \in References : g[r] = up(r)
  BY <1>3
<1> HIDE DEF g, up, n
<1>5. PICK h \in [0 .. n -> References] : Steps(n, e, g, h)
  BY <1>2, <1>4, StepsExist
<1>6. h = body(h)
  <2>1. \A k \in 1 .. n : k # 0 /\ k \in 0 .. n /\ k - 1 \in 0 .. n /\ h[k - 1] \in References
    BY <1>2, <1>5
  <2>2. \A k \in 1 .. n : h[k] = up(h[k - 1])
    BY <1>4, <1>5, <2>1 DEF Steps
  <2>3. h[0] = e /\ \A k \in 0 .. n : k = 0 \/ k \in 1 .. n
    BY <1>2, <1>5 DEF Steps
  <2>. QED
    BY <1>5, <2>2, <2>3
<1>7. F = body(F)
  <2> HIDE DEF body
  <2>. QED
    BY <1>6
<1>8. F[0] = e /\ \A k \in 1 .. n : F[k] = up(F[k - 1])
  <2> HIDE DEF F
  <2>1. 0 \in 0 .. n /\ \A k \in 1 .. n : k # 0 /\ k \in 0 .. n
    BY <1>2
  <2>. QED
    BY <1>7, <2>1
<1> HIDE DEF F
<1>9. \A k \in 0 .. n : F[k] \in References
  <2>1. \A k \in 1 .. n : F[k - 1] \in References => F[k] = g[F[k - 1]]
    BY <1>4, <1>8
  <2>. QED
    BY <1>2, <1>4, <1>8, <2>1, Follows
<1>. QED
  BY <1>1, <1>8, <1>9 DEF up, n

(* In a forest the parents lead to a root. *)
LEMMA UpEnds ==
  ASSUME NEW t, Forest(t), NEW e \in Alive(t)
  PROVE  /\ \A k \in 0 .. Cardinality(Nodes) : UpFrom(t, e)[k] \in Alive(t) \cup {None}
         /\ UpFrom(t, e)[Cardinality(Nodes)] = None
<1> DEFINE n == Cardinality(Nodes)
           F == UpFrom(t, e)
<1>1. t \in Trees /\ e \in References /\ n \in Nat
  BY AliveIs, NodesAreFinite DEF Forest, Rooted
<1>2. /\ F[0] = e
      /\ \A k \in 1 .. n : F[k] = IF F[k - 1] = None THEN None ELSE Get(t, F[k - 1]).parent
  BY <1>1, UpIs
<1> HIDE DEF F, n
<1>3. PICK d \in [Alive(t) -> Nat] : Falls(t, d)
  BY DEF Forest, Acyclic
<1> DEFINE Far(k) == /\ F[k] \in Alive(t) \cup {None}
                     /\ F[k] # None => \A i \in 0 .. k - 1 : F[i] \in Alive(t) /\ d[F[k]] < d[F[i]]
           S == {k \in 0 .. n : Far(k)}
<1>4. 0 \in S
  BY <1>1, <1>2
<1>5. ASSUME NEW k \in 0 .. n - 1, k \in S
      PROVE  k + 1 \in S
  <2>1. k + 1 \in 1 .. n /\ k + 1 \in 0 .. n /\ (k + 1) - 1 = k /\ k \in Nat
    BY <1>1
  <2>2. F[k + 1] = IF F[k] = None THEN None ELSE Get(t, F[k]).parent
    BY <1>2, <2>1
  <2>3. F[k] # None => F[k] \in Alive(t) /\ Get(t, F[k]).parent \in Alive(t) \cup {None}
    BY <1>5 DEF Forest, Rooted
  <2>4. F[k + 1] \in Alive(t) \cup {None}
    BY <2>2, <2>3
  <2>5. ASSUME F[k + 1] # None, NEW i \in 0 .. k
        PROVE  F[i] \in Alive(t) /\ d[F[k + 1]] < d[F[i]]
    <3>1. F[k] # None /\ F[k] \in Alive(t) /\ F[k + 1] = Get(t, F[k]).parent /\ F[k + 1] \in Alive(t)
      BY <2>2, <2>3, <2>4, <2>5
    <3>2. d[F[k + 1]] < d[F[k]]
      BY <1>3, <2>5, <3>1 DEF Falls
    <3>3. CASE i = k
      BY <3>1, <3>2, <3>3
    <3>4. CASE i # k
      <4>1. i \in 0 .. k - 1
        BY <2>1, <3>4
      <4>2. F[i] \in Alive(t) /\ d[F[k]] < d[F[i]]
        BY <1>5, <3>1, <4>1
      <4>3. d[F[k + 1]] \in Nat /\ d[F[k]] \in Nat /\ d[F[i]] \in Nat
        BY <1>3, <3>1, <4>2
      <4>. QED
        BY <3>2, <4>2, <4>3
    <3>. QED
      BY <3>3, <3>4
  <2>6. (k + 1) - 1 = k
    BY <2>1
  <2>7. Far(k + 1)
    BY <2>4, <2>5, <2>6
  <2>. QED
    BY <2>1, <2>7
<1>6. \A k \in 0 .. n : Far(k)
  <2>1. 0 .. n \subseteq S
    <3> HIDE DEF S
    <3>. QED
      BY <1>1, <1>4, <1>5, UpTo
  <2>. QED
    BY <2>1
<1>7. ASSUME F[n] # None
      PROVE  FALSE
  <2> DEFINE f == [k \in 0 .. n |-> F[k][1]]
  <2>1. \A k \in 0 .. n : F[k] \in Alive(t)
    <3>1. n \in 0 .. n /\ \A k \in 0 .. n : k # n => k \in 0 .. n - 1
      BY <1>1
    <3>. QED
      BY <1>6, <1>7, <3>1
  <2>2. \A i, j \in 0 .. n : i < j => d[F[j]] < d[F[i]] /\ d[F[i]] \in Nat /\ d[F[j]] \in Nat
    <3>1. \A i, j \in 0 .. n : i < j => i \in 0 .. j - 1
      BY <1>1
    <3>2. \A k \in 0 .. n : F[k] # None /\ d[F[k]] \in Nat
      BY <1>3, <2>1, AliveIs
    <3>. QED
      BY <1>6, <3>1, <3>2
  <2>3. \A i, j \in 0 .. n : F[i] = F[j] => i = j
    <3>1. \A i, j \in 0 .. n : i = j \/ i < j \/ j < i
      BY <1>1
    <3>. QED
      BY <2>2, <3>1
  <2>4. f \in Injection(0 .. n, Nodes)
    <3>1. \A k \in 0 .. n : f[k] = F[k][1] /\ f[k] \in Nodes
      BY <2>1, AliveIs
    <3>2. \A i, j \in 0 .. n : f[i] = f[j] => i = j
      BY <2>1, <2>3, <3>1, AliveIs
    <3>3. f \in [0 .. n -> Nodes]
      BY <3>1
    <3> HIDE DEF f
    <3>. QED
      BY <3>2, <3>3 DEF Injection, IsInjective
  <2>5. Cardinality(0 .. n) <= Cardinality(Nodes)
    BY <2>4, FS_Injection, HierarchyAssumption
  <2>6. Cardinality(0 .. n) = n + 1
    BY <1>1, FS_Interval
  <2>. QED
    BY <1>1, <2>5, <2>6 DEF n
<1>. QED
  BY <1>6, <1>7 DEF F, n

(* One step down the walk. *)
LEMMA UpShifts ==
  ASSUME NEW t, Forest(t), NEW e \in Alive(t), Get(t, e).parent # None
  PROVE  \A k \in 0 .. Cardinality(Nodes) - 1 :
            UpFrom(t, Get(t, e).parent)[k] = UpFrom(t, e)[k + 1]
<1> DEFINE n == Cardinality(Nodes)
           y == Get(t, e).parent
           F == UpFrom(t, e)
           G == UpFrom(t, y)
           S == {k \in 0 .. n : k <= n - 1 => G[k] = F[k + 1]}
<1>1. t \in Trees /\ e \in References /\ e # None /\ n \in Nat /\ y \in References
  BY AliveIs, NodesAreFinite, FieldsAre DEF Forest, Rooted
<1>2. /\ F[0] = e
      /\ \A k \in 1 .. n : F[k] = IF F[k - 1] = None THEN None ELSE Get(t, F[k - 1]).parent
  BY <1>1, UpIs
<1>3. /\ G[0] = y
      /\ \A k \in 1 .. n : G[k] = IF G[k - 1] = None THEN None ELSE Get(t, G[k - 1]).parent
  BY <1>1, UpIs
<1> HIDE DEF F, G, n
<1>4. 0 \in S
  <2>1. 0 <= n - 1 => 1 \in 1 .. n /\ 1 - 1 = 0 /\ 0 + 1 = 1
    BY <1>1
  <2>2. 0 <= n - 1 => F[1] = Get(t, e).parent
    BY <1>1, <1>2, <2>1
  <2>. QED
    BY <1>1, <1>3, <2>1, <2>2
<1>5. ASSUME NEW k \in 0 .. n - 1, k \in S
      PROVE  k + 1 \in S
  <2>1. /\ k + 1 \in 0 .. n /\ k + 1 \in 1 .. n /\ (k + 1) - 1 = k /\ k <= n - 1
        /\ k + 1 <= n - 1 => (k + 1) + 1 \in 1 .. n /\ ((k + 1) + 1) - 1 = k + 1
    BY <1>1
  <2>2. G[k] = F[k + 1]
    BY <1>5, <2>1
  <2>. QED
    BY <1>2, <1>3, <2>1, <2>2
<1>6. 0 .. n \subseteq S
  <2> HIDE DEF S
  <2>. QED
    BY <1>1, <1>4, <1>5, UpTo
<1>7. \A k \in 0 .. n - 1 : k \in 0 .. n /\ k <= n - 1
  BY <1>1
<1>. QED
  BY <1>6, <1>7 DEF F, G, n

(* The ancestors of a node are itself and its parent's ancestors. *)
LEMMA AncestorsStep ==
  ASSUME NEW t, Forest(t), NEW e \in Alive(t)
  PROVE  /\ Ancestors(t, e) \subseteq Alive(t)
         /\ Get(t, e).parent = None => Ancestors(t, e) = {e}
         /\ Get(t, e).parent # None => Ancestors(t, e) = {e} \cup Ancestors(t, Get(t, e).parent)
<1> DEFINE n == Cardinality(Nodes)
           y == Get(t, e).parent
           F == UpFrom(t, e)
           G == UpFrom(t, y)
<1>1. t \in Trees /\ e \in References /\ e # None /\ n \in Nat /\ n > 0
  <2>1. e[1] \in Nodes /\ e \in References /\ e # None
    BY AliveIs
  <2>2. Cardinality(Nodes) # 0
    BY <2>1, FS_EmptySet, HierarchyAssumption
  <2>. QED
    BY <2>1, <2>2, NodesAreFinite DEF Forest, Rooted
<1>2. /\ F[0] = e
      /\ \A k \in 1 .. n : F[k] = IF F[k - 1] = None THEN None ELSE Get(t, F[k - 1]).parent
  BY <1>1, UpIs
<1>3. /\ \A k \in 0 .. n : F[k] \in Alive(t) \cup {None}
      /\ F[n] = None
  BY UpEnds
<1>4. Ancestors(t, e) = {F[k] : k \in 0 .. n} \ {None}
  BY AncestorsAre
<1>5. Ancestors(t, e) \subseteq Alive(t) /\ e \in Ancestors(t, e)
  BY <1>1, <1>2, <1>3, <1>4
<1> HIDE DEF F, n
<1>6. ASSUME y = None
      PROVE  Ancestors(t, e) = {e}
  <2> DEFINE S == {k \in 0 .. n : k > 0 => F[k] = None}
  <2>1. 0 \in S
    BY <1>1
  <2>2. ASSUME NEW k \in 0 .. n - 1, k \in S
        PROVE  k + 1 \in S
    <3>1. k + 1 \in 0 .. n /\ k + 1 \in 1 .. n /\ (k + 1) - 1 = k /\ (k > 0 \/ k = 0)
      BY <1>1
    <3>2. F[k + 1] = IF F[k] = None THEN None ELSE Get(t, F[k]).parent
      BY <1>2, <3>1
    <3>3. CASE k = 0
      BY <1>1, <1>2, <1>6, <3>1, <3>2, <3>3
    <3>4. CASE k > 0
      BY <2>2, <3>1, <3>2, <3>4
    <3>. QED
      BY <3>1, <3>3, <3>4
  <2>3. 0 .. n \subseteq S
    <3> HIDE DEF S
    <3>. QED
      BY <1>1, <2>1, <2>2, UpTo
  <2>4. \A k \in 0 .. n : F[k] = None \/ F[k] = e
    <3>1. \A k \in 0 .. n : k = 0 \/ k > 0
      BY <1>1
    <3>. QED
      BY <1>2, <2>3, <3>1
  <2>. QED
    BY <1>4, <1>5, <2>4
<1>7. ASSUME y # None
      PROVE  Ancestors(t, e) = {e} \cup Ancestors(t, y)
  <2>0. y \in Alive(t)
    BY <1>7 DEF Forest, Rooted
  <2>1. Ancestors(t, y) = {G[k] : k \in 0 .. n} \ {None} /\ G[n] = None
    BY <2>0, AncestorsAre, UpEnds DEF n
  <2>2. \A k \in 0 .. n - 1 : G[k] = F[k + 1]
    BY <1>7, UpShifts DEF F, n
  <2> HIDE DEF G, y
  <2>3. ASSUME NEW z \in Ancestors(t, e)
        PROVE  z \in {e} \cup Ancestors(t, y)
    <3>1. PICK k \in 0 .. n : z = F[k]
      BY <1>4
    <3>2. z # None
      BY <1>4
    <3>3. CASE k = 0
      BY <1>2, <3>1, <3>3
    <3>4. CASE k # 0
      <4>1. k - 1 \in 0 .. n - 1 /\ k - 1 \in 0 .. n /\ (k - 1) + 1 = k
        BY <1>1, <3>4
      <4>2. G[k - 1] = z
        BY <2>2, <3>1, <4>1
      <4>. QED
        BY <2>1, <3>2, <4>1, <4>2
    <3>. QED
      BY <3>3, <3>4
  <2>4. ASSUME NEW z \in Ancestors(t, y)
        PROVE  z \in Ancestors(t, e)
    <3>1. PICK k \in 0 .. n : z = G[k]
      BY <2>1
    <3>2. z # None
      BY <2>1
    <3>3. k # n
      BY <2>1, <3>1, <3>2
    <3>4. k \in 0 .. n - 1 /\ k + 1 \in 0 .. n
      BY <1>1, <3>3
    <3>5. z = F[k + 1]
      BY <2>2, <3>1, <3>4
    <3>. QED
      BY <1>4, <3>2, <3>4, <3>5
  <2>. QED
    BY <1>5, <2>3, <2>4
<1>. QED
  BY <1>5, <1>6, <1>7 DEF y

Below(t, c) == {x \in Alive(t) : c \in Ancestors(t, x)}

(* What has c among its ancestors is what is below c. *)
LEMMA BelowIs ==
  ASSUME NEW t, Forest(t), NEW c \in Alive(t)
  PROVE  Under(t, c, Below(t, c))
<1>1. c \in Below(t, c) /\ Below(t, c) \in SUBSET Alive(t)
  BY AncestorsStep DEF Below
<1>2. ASSUME NEW x \in Alive(t), x # c
      PROVE  x \in Below(t, c) <=> Get(t, x).parent \in Below(t, c)
  <2>1. CASE Get(t, x).parent = None
    BY <1>2, <2>1, AncestorsStep, AliveIs DEF Below
  <2>2. CASE Get(t, x).parent # None
    <3>1. Get(t, x).parent \in Alive(t)
      BY <2>2 DEF Forest, Rooted
    <3>2. Ancestors(t, x) = {x} \cup Ancestors(t, Get(t, x).parent)
      BY <2>2, AncestorsStep
    <3>. QED
      BY <1>2, <3>1, <3>2 DEF Below
  <2>. QED
    BY <2>1, <2>2
<1>. QED
  BY <1>1, <1>2 DEF Under

(* The walk of Resolve. *)
WalkFrom(t, e) ==
  CHOOSE walk : walk =
    [k \in 0 .. Cardinality(Nodes) |->
       IF k = 0 THEN [at |-> e, world |-> 0]
       ELSE LET so == walk[k - 1]
            IN  IF so.at = None THEN so
                ELSE [at |-> Get(t, so.at).parent, world |-> Get(t, so.at).local + so.world]]

LEMMA ResolveWalks ==
  ASSUME NEW t, NEW e
  PROVE  Resolve(t, e) = WalkFrom(t, e)[Cardinality(Nodes)].world % Ring
  BY DEF Resolve, WalkFrom

Stops == [at : References, world : Int]

LEMMA WalkIs ==
  ASSUME NEW t \in Trees, NEW e \in References
  PROVE  LET W == WalkFrom(t, e)
         IN  /\ W[0] = [at |-> e, world |-> 0]
             /\ \A k \in 0 .. Cardinality(Nodes) : W[k] \in Stops
             /\ \A k \in 1 .. Cardinality(Nodes) :
                  W[k] = IF W[k - 1].at = None THEN W[k - 1]
                         ELSE [at |-> Get(t, W[k - 1].at).parent,
                               world |-> Get(t, W[k - 1].at).local + W[k - 1].world]
<1> DEFINE n == Cardinality(Nodes)
           up(so) == IF so.at = None THEN so
                     ELSE [at |-> Get(t, so.at).parent, world |-> Get(t, so.at).local + so.world]
           base == [at |-> e, world |-> 0]
           g == [r \in Stops |-> up(r)]
           body(f) == [k \in 0 .. n |-> IF k = 0 THEN base ELSE up(f[k - 1])]
           F == CHOOSE f : f = body(f)
<1>1. WalkFrom(t, e) = F
  BY DEF WalkFrom
<1>2. n \in Nat /\ base \in Stops
  BY NodesAreFinite DEF Stops
<1>3. ASSUME NEW so \in Stops
      PROVE  up(so) \in Stops
  <2>1. so.at \in References /\ so.world \in Int
    BY DEF Stops
  <2>2. so.at # None => Get(t, so.at).parent \in References /\ Get(t, so.at).local \in Int
    BY <2>1, FieldsAre
  <2>. QED
    BY <2>1, <2>2 DEF Stops
<1> HIDE DEF base, up
<1>4. g \in [Stops -> Stops] /\ \A r \in Stops : g[r] = up(r)
  BY <1>3
<1> HIDE DEF g, n
<1>5. PICK h \in [0 .. n -> Stops] : Steps(n, base, g, h)
  BY <1>2, <1>4, StepsExist
<1>6. h = body(h)
  <2>1. \A k \in 1 .. n : k # 0 /\ k \in 0 .. n /\ k - 1 \in 0 .. n /\ h[k - 1] \in Stops
    BY <1>2, <1>5
  <2>2. \A k \in 1 .. n : h[k] = up(h[k - 1])
    BY <1>4, <1>5, <2>1 DEF Steps
  <2>3. h[0] = base /\ \A k \in 0 .. n : k = 0 \/ k \in 1 .. n
    BY <1>2, <1>5 DEF Steps
  <2>. QED
    BY <1>5, <2>2, <2>3
<1>7. F = body(F)
  <2> HIDE DEF body
  <2>. QED
    BY <1>6
<1>8. F[0] = base /\ \A k \in 1 .. n : F[k] = up(F[k - 1])
  <2> HIDE DEF F
  <2>1. 0 \in 0 .. n /\ \A k \in 1 .. n : k # 0 /\ k \in 0 .. n
    BY <1>2
  <2>. QED
    BY <1>7, <2>1
<1> HIDE DEF F
<1>9. \A k \in 0 .. n : F[k] \in Stops
  <2>1. \A k \in 1 .. n : F[k - 1] \in Stops => F[k] = g[F[k - 1]]
    BY <1>4, <1>8
  <2>. QED
    BY <1>2, <1>4, <1>8, <2>1, Follows
<1>. QED
  BY <1>1, <1>8, <1>9 DEF up, n, base

(* Where there is a reference there is an index. *)
LEMMA RootIsAbove == \A e \in References : e # None => Cardinality(Nodes) > 0
<1>1. ASSUME NEW e \in References, e # None
      PROVE  Cardinality(Nodes) # 0
  BY <1>1, ReferenceIs, FS_EmptySet, HierarchyAssumption
<1>. QED
  BY <1>1, NodesAreFinite

(* The walk meets the ancestors. *)
LEMMA WalkMeets ==
  ASSUME NEW t \in Trees, NEW e \in References
  PROVE  \A k \in 0 .. Cardinality(Nodes) : WalkFrom(t, e)[k].at = UpFrom(t, e)[k]
<1> DEFINE n == Cardinality(Nodes)
           W == WalkFrom(t, e)
           F == UpFrom(t, e)
           S == {k \in 0 .. n : W[k].at = F[k]}
<1>0. n \in Nat
  BY NodesAreFinite
<1>1. /\ W[0] = [at |-> e, world |-> 0]
      /\ \A k \in 1 .. n :
           W[k] = IF W[k - 1].at = None THEN W[k - 1]
                  ELSE [at |-> Get(t, W[k - 1].at).parent,
                        world |-> Get(t, W[k - 1].at).local + W[k - 1].world]
  BY WalkIs
<1>2. /\ F[0] = e
      /\ \A k \in 1 .. n : F[k] = IF F[k - 1] = None THEN None ELSE Get(t, F[k - 1]).parent
  BY UpIs
<1> HIDE DEF W, F, n
<1>3. 0 \in S
  BY <1>0, <1>1, <1>2
<1>4. ASSUME NEW k \in 0 .. n - 1, k \in S
      PROVE  k + 1 \in S
  <2>1. k + 1 \in 0 .. n /\ k + 1 \in 1 .. n /\ (k + 1) - 1 = k
    BY <1>0
  <2>2. W[k].at = F[k]
    BY <1>4
  <2>3. F[k + 1] = IF F[k] = None THEN None ELSE Get(t, F[k]).parent
    BY <1>2, <2>1
  <2>4. W[k + 1] = IF W[k].at = None THEN W[k]
                   ELSE [at |-> Get(t, W[k].at).parent, world |-> Get(t, W[k].at).local + W[k].world]
    BY <1>1, <2>1
  <2>5. CASE W[k].at = None
    BY <2>1, <2>2, <2>3, <2>4, <2>5
  <2>6. CASE W[k].at # None
    BY <2>1, <2>2, <2>3, <2>4, <2>6
  <2>. QED
    BY <2>5, <2>6
<1>5. 0 .. n \subseteq S
  <2> HIDE DEF S
  <2>. QED
    BY <1>0, <1>3, <1>4, UpTo
<1>. QED
  BY <1>5 DEF W, F, n

(* What the walk from a node sums is its local and what the walk from its parent sums. *)
LEMMA WorldStep ==
  ASSUME NEW t, Forest(t), NEW e \in Alive(t)
  PROVE  LET n == Cardinality(Nodes)
             y == Get(t, e).parent
         IN  /\ WalkFrom(t, e)[n].world \in Int
             /\ y = None => WalkFrom(t, e)[n].world = Get(t, e).local
             /\ y # None => WalkFrom(t, e)[n].world = Get(t, e).local + WalkFrom(t, y)[n].world
<1> DEFINE n == Cardinality(Nodes)
           y == Get(t, e).parent
           l == Get(t, e).local
           W == WalkFrom(t, e)
           V == WalkFrom(t, y)
<1>1. t \in Trees /\ e \in References /\ e # None /\ n \in Nat /\ n > 0 /\ y \in References /\ l \in Int
  BY AliveIs, RootIsAbove, NodesAreFinite, FieldsAre DEF Forest, Rooted
<1>2. /\ W[0] = [at |-> e, world |-> 0]
      /\ \A k \in 0 .. n : W[k].world \in Int
      /\ \A k \in 1 .. n :
           W[k] = IF W[k - 1].at = None THEN W[k - 1]
                  ELSE [at |-> Get(t, W[k - 1].at).parent,
                        world |-> Get(t, W[k - 1].at).local + W[k - 1].world]
  BY <1>1, WalkIs DEF Stops
<1>3. W[n].at = None
  BY <1>1, WalkMeets, UpEnds
<1> HIDE DEF W, n
<1>4. W[1] = [at |-> y, world |-> l]
  <2>1. 1 \in 1 .. n /\ 1 - 1 = 0
    BY <1>1
  <2>2. W[0].at = e /\ W[0].world = 0
    BY <1>2
  <2>3. W[1] = [at |-> Get(t, e).parent, world |-> Get(t, e).local + 0]
    BY <1>1, <1>2, <2>1, <2>2
  <2>. QED
    BY <1>1, <2>3
<1>5. ASSUME y = None
      PROVE  W[n].world = l
  <2> DEFINE S == {k \in 0 .. n : k > 0 => W[k] = [at |-> None, world |-> l]}
  <2>1. 0 \in S
    BY <1>1
  <2>2. ASSUME NEW k \in 0 .. n - 1, k \in S
        PROVE  k + 1 \in S
    <3>1. k + 1 \in 0 .. n /\ k + 1 \in 1 .. n /\ (k + 1) - 1 = k /\ (k > 0 \/ k = 0)
      BY <1>1
    <3>2. CASE k = 0
      BY <1>4, <1>5, <3>1, <3>2
    <3>3. CASE k > 0
      <4>1. W[k] = [at |-> None, world |-> l]
        BY <2>2, <3>3
      <4>2. W[k].at = None
        BY <4>1
      <4>3. W[k + 1] = W[k]
        BY <1>2, <3>1, <4>2
      <4>. QED
        BY <3>1, <4>1, <4>3
    <3>. QED
      BY <3>1, <3>2, <3>3
  <2>3. 0 .. n \subseteq S
    <3> HIDE DEF S
    <3>. QED
      BY <1>1, <2>1, <2>2, UpTo
  <2>4. n \in 0 .. n
    BY <1>1
  <2>. QED
    BY <1>1, <2>3, <2>4
<1>6. ASSUME y # None
      PROVE  W[n].world = l + V[n].world
  <2>1. /\ V[0] = [at |-> y, world |-> 0]
        /\ \A k \in 0 .. n : V[k].world \in Int
        /\ \A k \in 1 .. n :
             V[k] = IF V[k - 1].at = None THEN V[k - 1]
                    ELSE [at |-> Get(t, V[k - 1].at).parent,
                          world |-> Get(t, V[k - 1].at).local + V[k - 1].world]
    BY <1>1, WalkIs DEF Stops, n
  <2>2. \A r \in References : r # None => Get(t, r).local \in Int
    BY <1>1, FieldsAre
  <2>3. \A k \in 0 .. n : V[k].at \in References
    BY <1>1, WalkIs DEF Stops, n
  <2> HIDE DEF V, y, l
  <2> DEFINE S == {k \in 0 .. n : k <= n - 1 => /\ W[k + 1].at = V[k].at
                                               /\ W[k + 1].world = l + V[k].world}
  <2>4. 0 \in S
    BY <1>1, <1>4, <2>1
  <2>5. ASSUME NEW k \in 0 .. n - 1, k \in S
        PROVE  k + 1 \in S
    <3>1. /\ k + 1 \in 0 .. n /\ k + 1 \in 1 .. n /\ (k + 1) - 1 = k /\ k <= n - 1 /\ k \in 0 .. n
          /\ k + 1 <= n - 1 => (k + 1) + 1 \in 1 .. n /\ ((k + 1) + 1) - 1 = k + 1
      BY <1>1
    <3>2. W[k + 1].at = V[k].at /\ W[k + 1].world = l + V[k].world
      BY <2>5, <3>1
    <3>3. ASSUME k + 1 <= n - 1
          PROVE  /\ W[(k + 1) + 1].at = V[k + 1].at
                 /\ W[(k + 1) + 1].world = l + V[k + 1].world
      <4> DEFINE r == V[k].at
      <4>1. /\ W[(k + 1) + 1] = IF W[k + 1].at = None THEN W[k + 1]
                                ELSE [at |-> Get(t, W[k + 1].at).parent,
                                      world |-> Get(t, W[k + 1].at).local + W[k + 1].world]
            /\ V[k + 1] = IF r = None THEN V[k]
                          ELSE [at |-> Get(t, r).parent, world |-> Get(t, r).local + V[k].world]
        BY <1>2, <2>1, <3>1, <3>3
      <4>2. V[k].world \in Int /\ (r # None => Get(t, r).local \in Int)
        BY <2>1, <2>2, <2>3, <3>1
      <4>3. CASE r = None
        BY <3>2, <4>1, <4>3
      <4>4. CASE r # None
        <5>1. /\ W[(k + 1) + 1].at = Get(t, r).parent
              /\ W[(k + 1) + 1].world = Get(t, r).local + (l + V[k].world)
          BY <3>2, <4>1, <4>4
        <5>2. V[k + 1].at = Get(t, r).parent /\ V[k + 1].world = Get(t, r).local + V[k].world
          BY <4>1, <4>4
        <5>3. Get(t, r).local + (l + V[k].world) = l + (Get(t, r).local + V[k].world)
          BY <1>1, <4>2, <4>4
        <5>. QED
          BY <5>1, <5>2, <5>3
      <4>. QED
        BY <4>3, <4>4
    <3>. QED
      BY <3>1, <3>3
  <2>6. 0 .. n \subseteq S
    <3> HIDE DEF S
    <3>. QED
      BY <1>1, <2>4, <2>5, UpTo
  <2>7. n - 1 \in 0 .. n /\ n - 1 <= n - 1 /\ (n - 1) + 1 = n /\ n \in 1 .. n
    BY <1>1
  <2>8. W[n].at = V[n - 1].at /\ W[n].world = l + V[n - 1].world
    BY <2>6, <2>7
  <2>9. V[n] = V[n - 1]
    BY <1>3, <2>1, <2>7, <2>8
  <2>. QED
    BY <2>8, <2>9
<1>7. n \in 0 .. n
  BY <1>1
<1>. QED
  BY <1>2, <1>5, <1>6, <1>7 DEF W, n

(* Remainders *)
LEMMA RemainderIs ==
  ASSUME NEW n \in Nat \ {0}, NEW f \in Int
  PROVE  f % n \in 0 .. n - 1 /\ f \div n \in Int /\ f = n * (f \div n) + (f % n)
BY SMT

(* Two quotients of one number are not apart, *)
LEMMA NoMultipleBetween ==
  ASSUME NEW n \in Nat \ {0}, NEW q1 \in Int, NEW q2 \in Int, NEW r1 \in 0 .. n - 1, NEW r2 \in 0 .. n - 1,
         n * q1 + r1 = n * q2 + r2
  PROVE  ~(q1 < q2)
<1> SUFFICES ASSUME q1 < q2 PROVE FALSE
  OBVIOUS
<1>1. q2 - q1 \in Nat \ {0}
  OBVIOUS
<1>2. n * (q2 - q1) >= n
  BY <1>1, MultipleAtLeast
<1>3. n * (q2 - q1) = n * q2 - n * q1 /\ n * q1 \in Int /\ n * q2 \in Int
  BY SMT
<1>. QED
  BY <1>2, <1>3

(* so its remainder is unique. *)
LEMMA OneRemainder ==
  ASSUME NEW n \in Nat \ {0}, NEW q1 \in Int, NEW q2 \in Int, NEW r1 \in 0 .. n - 1, NEW r2 \in 0 .. n - 1,
         n * q1 + r1 = n * q2 + r2
  PROVE  r1 = r2
<1>1. ~(q1 < q2) /\ ~(q2 < q1)
  BY NoMultipleBetween
<1>2. q1 = q2
  BY <1>1
<1>3. n * q1 \in Int
  OBVIOUS
<1>. QED
  BY <1>2, <1>3

(* A remainder may be taken before a sum. *)
LEMMA RemainderOfSum ==
  ASSUME NEW n \in Nat \ {0}, NEW a \in Int, NEW b \in Int
  PROVE  (a + (b % n)) % n = (a + b) % n
<1> DEFINE c == a + (b % n)
           q == c \div n
           r == c % n
           qb == b \div n
           s == a + b
           qs == s \div n
           rs == s % n
<1>1. b % n \in Int /\ qb \in Int /\ b = n * qb + (b % n)
  BY RemainderIs
<1>2. c \in Int /\ s \in Int
  BY <1>1
<1>3. r \in 0 .. n - 1 /\ q \in Int /\ c = n * q + r
  BY <1>2, RemainderIs
<1>4. rs \in 0 .. n - 1 /\ qs \in Int /\ s = n * qs + rs
  BY <1>2, RemainderIs
<1> DEFINE rb == b % n
<1>5. c = a + rb /\ s = a + b /\ rb \in Int /\ b = n * qb + rb
  BY <1>1
<1> HIDE DEF q, r, qb, qs, rs, rb, c, s
<1>6. n * (q + qb) = n * q + n * qb /\ n * q \in Int /\ n * qb \in Int /\ q + qb \in Int /\ n * qs \in Int
  BY <1>1, <1>3, <1>4
<1>7. n * (q + qb) + r = n * qs + rs
  BY <1>2, <1>3, <1>4, <1>5, <1>6
<1>8. r = rs
  BY <1>3, <1>4, <1>6, <1>7, OneRemainder
<1>. QED
  BY <1>8 DEF r, rs, c, s

(* A number below n is its own remainder. *)
LEMMA SmallRemainder ==
  ASSUME NEW n \in Nat \ {0}, NEW x \in 0 .. n - 1
  PROVE  x % n = x
<1>1. x \in Int /\ x % n \in 0 .. n - 1 /\ x \div n \in Int /\ x = n * (x \div n) + (x % n)
  BY RemainderIs
<1> DEFINE q == x \div n
           r == x % n
<1>2. r \in 0 .. n - 1 /\ q \in Int /\ n * q + r = n * 0 + x /\ 0 \in Int
  BY <1>1
<1> HIDE DEF q, r
<1>3. r = x
  BY <1>2, OneRemainder
<1>. QED
  BY <1>3 DEF r

(* Where a node is: its local on top of where its parent is. *)
LEMMA ResolveStep ==
  ASSUME NEW t, Forest(t), NEW e \in Alive(t)
  PROVE  /\ Resolve(t, e) \in 0 .. Ring - 1
         /\ Get(t, e).parent = None => Resolve(t, e) = Get(t, e).local % Ring
         /\ Get(t, e).parent # None =>
              Resolve(t, e) = (Get(t, e).local + Resolve(t, Get(t, e).parent)) % Ring
<1> DEFINE n == Cardinality(Nodes)
           y == Get(t, e).parent
           w == WalkFrom(t, e)[n].world
           v == WalkFrom(t, y)[n].world
           l == Get(t, e).local
<1>1. Ring \in Nat \ {0}
  BY HierarchyAssumption
<1>2. /\ w \in Int /\ l \in Int
      /\ y = None => w = l
      /\ y # None => w = l + v
  BY WorldStep, FieldsAre, AliveIs DEF Forest, Rooted
<1>3. y # None => v \in Int
  BY WorldStep DEF Forest, Rooted
<1>4. Resolve(t, e) = w % Ring /\ Resolve(t, y) = v % Ring
  BY ResolveWalks
<1> HIDE DEF w, v, l, y
<1>5. y # None => (l + (v % Ring)) % Ring = (l + v) % Ring
  BY <1>1, <1>2, <1>3, RemainderOfSum
<1>6. w % Ring \in 0 .. Ring - 1
  BY <1>1, <1>2, RemainderIs
<1>. QED
  BY <1>2, <1>4, <1>5, <1>6 DEF l, y

(* Every node of a set has its parent in the set: then the set is empty. *)
LEMMA DepthInduction ==
  ASSUME NEW t, Forest(t), NEW X \in SUBSET Alive(t),
         \A x \in X : Get(t, x).parent # None /\ Get(t, x).parent \in X
  PROVE  X = {}
<1> SUFFICES ASSUME X # {} PROVE FALSE
  OBVIOUS
<1>1. PICK d \in [Alive(t) -> Nat] : Falls(t, d)
  BY DEF Forest, Acyclic
<1> DEFINE T == {d[x] : x \in X}
<1>2. T \in SUBSET Nat /\ T # {}
  BY <1>1
<1>3. PICK m \in T : \A z \in T : m <= z
  BY <1>2, SmallestOf
<1>4. PICK x \in X : m = d[x]
  BY <1>3
<1>5. d[Get(t, x).parent] < d[x] /\ d[Get(t, x).parent] \in T /\ d[x] \in Nat /\ d[Get(t, x).parent] \in Nat
  BY <1>1, <1>4 DEF Falls
<1>. QED
  BY <1>3, <1>4, <1>5

(* Where only c's local and parent changed, *)
MovedOnly(t, u, c) ==
  /\ Alive(u) = Alive(t)
  /\ \A x \in Alive(t) : x # c => /\ Get(u, x).parent = Get(t, x).parent
                                  /\ Get(u, x).local = Get(t, x).local

(* what is not below c stays where it is. *)
LEMMA RestStays ==
  ASSUME NEW t, Forest(t), NEW u, Forest(u), NEW c \in Alive(t), MovedOnly(t, u, c),
         NEW x \in Alive(t), x \notin Below(t, c)
  PROVE  Resolve(u, x) = Resolve(t, x)
<1> DEFINE X == {z \in Alive(t) \ Below(t, c) : Resolve(u, z) # Resolve(t, z)}
<1>1. Under(t, c, Below(t, c)) /\ Alive(u) = Alive(t)
  BY BelowIs DEF MovedOnly
<1>2. ASSUME NEW z \in X
      PROVE  Get(t, z).parent # None /\ Get(t, z).parent \in X
  <2> DEFINE y == Get(t, z).parent
  <2>1. z \in Alive(t) /\ z # c /\ z \notin Below(t, c)
    BY <1>1 DEF Under
  <2>2. Get(u, z).parent = y /\ Get(u, z).local = Get(t, z).local
    BY <2>1 DEF MovedOnly
  <2>3. y # None
    BY <1>1, <2>1, <2>2, ResolveStep
  <2>4. y \in Alive(t) /\ y \notin Below(t, c)
    BY <1>1, <2>1, <2>3 DEF Forest, Rooted, Under
  <2>5. Resolve(u, y) # Resolve(t, y)
    BY <1>1, <2>1, <2>2, <2>3, ResolveStep
  <2>. QED
    BY <2>3, <2>4, <2>5
<1>3. X = {}
  <2>1. X \in SUBSET Alive(t)
    OBVIOUS
  <2> HIDE DEF X
  <2>. QED
    BY <1>2, <2>1, DepthInduction
<1>. QED
  BY <1>3

(* Where c stays, everything does. *)
LEMMA AllStays ==
  ASSUME NEW t, Forest(t), NEW u, Forest(u), NEW c \in Alive(t), MovedOnly(t, u, c),
         Resolve(u, c) = Resolve(t, c), NEW x \in Alive(t)
  PROVE  Resolve(u, x) = Resolve(t, x)
<1> DEFINE X == {z \in Alive(t) : Resolve(u, z) # Resolve(t, z)}
<1>1. Alive(u) = Alive(t)
  BY DEF MovedOnly
<1>2. ASSUME NEW z \in X
      PROVE  Get(t, z).parent # None /\ Get(t, z).parent \in X
  <2> DEFINE y == Get(t, z).parent
  <2>1. z \in Alive(t) /\ z # c
    OBVIOUS
  <2>2. Get(u, z).parent = y /\ Get(u, z).local = Get(t, z).local
    BY <2>1 DEF MovedOnly
  <2>3. y # None
    BY <1>1, <2>1, <2>2, ResolveStep
  <2>4. y \in Alive(t)
    BY <2>1, <2>3 DEF Forest, Rooted
  <2>5. Resolve(u, y) # Resolve(t, y)
    BY <1>1, <2>1, <2>2, <2>3, ResolveStep
  <2>. QED
    BY <2>3, <2>4, <2>5
<1>3. X = {}
  <2>1. X \in SUBSET Alive(t)
    OBVIOUS
  <2> HIDE DEF X
  <2>. QED
    BY <1>2, <2>1, DepthInduction
<1>. QED
  BY <1>3

(* Reparent leaves a forest, and only the child moved. *)
LEMMA ReparentSound ==
  ASSUME NEW t, Forest(t), NEW c \in Alive(t), NEW p \in References, NEW mode, MayReparent(t, c, p),
         NEW u, u = Reparented(t, c, p, mode)
  PROVE  /\ Forest(u) /\ Alive(u) = Alive(t)
         /\ Get(t, c).parent # p => /\ MovedOnly(t, u, c) /\ Get(u, c).parent = p
                                    /\ Get(u, c).local = KeptLocal(t, c, p, mode)
                                    /\ p # None => p \in Alive(t) \ Below(t, c)
<1>1. CASE Get(t, c).parent = p
  BY <1>1 DEF Reparented
<1>2. CASE Get(t, c).parent # p
  <2> DEFINE v == Detach(t, c)
             l == KeptLocal(t, c, p, mode)
  <2>1. u = Attach(v, c, p, l)
    BY <1>2 DEF Reparented
  <2>2. /\ DetachedFrom(t, v, c) /\ Forest(v) /\ Get(v, c).parent = None
        /\ Alive(v) = Alive(t)
    BY DetachSound DEF DetachedFrom
  <2>3. p \in Alive(t) \cup {None} /\ (p # None => p \in Alive(t) \ Below(t, c))
    BY AliveIs DEF MayReparent, IsAlive, Below
  <2>4. l \in Int
    <3>1. Get(t, c).local \in Int /\ Resolve(t, c) \in Int
      BY FieldsAre, AliveIs, ResolveStep DEF Forest, Rooted
    <3>2. p # None => Resolve(t, p) \in Int
      BY <2>3, ResolveStep
    <3>3. (Resolve(t, c) - (IF p = None THEN 0 ELSE Resolve(t, p))) % Ring \in Int
      <4>1. Ring \in Nat \ {0}
        BY HierarchyAssumption
      <4>2. Resolve(t, c) - (IF p = None THEN 0 ELSE Resolve(t, p)) \in Int
        BY <3>1, <3>2
      <4>. QED
        BY <4>1, <4>2, RemainderIs
    <3>. QED
      BY <3>1, <3>3 DEF KeptLocal
  <2>5. Under(v, c, Below(t, c)) /\ p \notin Below(t, c)
    <3>1. Under(t, c, Below(t, c))
      BY BelowIs
    <3>2. \A x \in Alive(t) : x # c => Get(v, x).parent = Get(t, x).parent
      BY <2>2 DEF DetachedFrom
    <3>. QED
      BY <2>2, <2>3, <3>1, <3>2, AliveIs DEF Under
  <2> HIDE DEF v, l
  <2>6. AttachedTo(v, u, c, p, l) /\ Forest(u)
    BY <2>1, <2>2, <2>3, <2>4, <2>5, AttachSound
  <2>7. Alive(u) = Alive(t)
    BY <2>2, <2>6 DEF AttachedTo
  <2>8. MovedOnly(t, u, c) /\ Get(u, c).parent = p /\ Get(u, c).local = l
    BY <2>2, <2>6, <2>7 DEF AttachedTo, DetachedFrom, MovedOnly
  <2>. QED
    BY <2>3, <2>6, <2>7, <2>8 DEF l
<1>. QED
  BY <1>1, <1>2

(* A move that keeps the world transform keeps it. *)
LEMMA WorldIsKept ==
  ASSUME NEW t, Forest(t), NEW c \in Alive(t), NEW p \in References, MayReparent(t, c, p),
         NEW u, u = Reparented(t, c, p, "KEEP_WORLD"), Get(t, c).parent # p
  PROVE  Resolve(u, c) = Resolve(t, c)
<1> DEFINE x == Resolve(t, c)
           y == Resolve(t, p)
           l == Get(u, c).local
<1>1. /\ Forest(u) /\ Alive(u) = Alive(t)
      /\ MovedOnly(t, u, c) /\ Get(u, c).parent = p
      /\ l = KeptLocal(t, c, p, "KEEP_WORLD")
      /\ p # None => p \in Alive(t) \ Below(t, c)
  BY ReparentSound
<1>2. Ring \in Nat \ {0}
  BY HierarchyAssumption
<1>3. x \in 0 .. Ring - 1
  BY ResolveStep
<1>4. l = (x - (IF p = None THEN 0 ELSE y)) % Ring
  BY <1>1 DEF KeptLocal
<1>5. CASE p = None
  <2>1. l = x
    <3>1. l = (x - 0) % Ring /\ x - 0 = x
      BY <1>2, <1>3, <1>4, <1>5
    <3>. QED
      BY <1>2, <1>3, <3>1, SmallRemainder
  <2>2. Resolve(u, c) = l % Ring
    BY <1>1, <1>5, ResolveStep
  <2> HIDE DEF x, l
  <2>. QED
    BY <1>2, <1>3, <2>1, <2>2, SmallRemainder DEF x
<1>6. CASE p # None
  <2>1. Resolve(u, p) = y
    BY <1>1, <1>6, RestStays
  <2>2. Resolve(u, c) = (l + y) % Ring
    BY <1>1, <1>6, <2>1, ResolveStep
  <2>3. y \in 0 .. Ring - 1
    BY <1>1, <1>6, ResolveStep
  <2>4. l = (x - y) % Ring
    BY <1>4, <1>6
  <2> HIDE DEF x, y, l
  <2>5. x - y \in Int /\ y \in Int /\ x \in Int /\ l \in Int
    BY <1>2, <1>3, <2>3, <2>4, RemainderIs
  <2>6. (y + ((x - y) % Ring)) % Ring = (y + (x - y)) % Ring
    BY <1>2, <2>5, RemainderOfSum
  <2>7. y + (x - y) = x /\ l + y = y + l
    BY <2>5
  <2>8. (l + y) % Ring = x % Ring
    BY <2>4, <2>6, <2>7
  <2>9. x % Ring = x
    BY <1>2, <1>3, SmallRemainder
  <2>. QED
    BY <2>2, <2>8, <2>9 DEF x
<1>. QED
  BY <1>5, <1>6

(***************************************************************************)
(* Nodes come, go and change.                                              *)
(***************************************************************************)

(* Only locals changed. *)
LinksStay(t, u) ==
  /\ u \in Trees
  /\ \A j \in Nodes : /\ u[j].identity = t[j].identity /\ u[j].parent = t[j].parent
                      /\ u[j].first = t[j].first /\ u[j].last = t[j].last
                      /\ u[j].previous = t[j].previous /\ u[j].next = t[j].next

(* Locals do not matter to the forest. *)
LEMMA LinksDecide ==
  ASSUME NEW t, Forest(t), NEW u, LinksStay(t, u)
  PROVE  Forest(u)
<1>1. u \in Trees
  BY DEF LinksStay
<1>2. \A j \in Nodes : u[j].identity = t[j].identity
  BY DEF LinksStay
<1>3. \A j \in Nodes : /\ u[j].parent = t[j].parent /\ u[j].first = t[j].first
                       /\ u[j].last = t[j].last /\ u[j].previous = t[j].previous
                       /\ u[j].next = t[j].next
  BY DEF LinksStay
<1>4. Alive(u) = Alive(t)
  BY <1>2, SameAlive
<1>5. \A x \in Alive(t) : /\ Get(u, x).parent = Get(t, x).parent
                          /\ Get(u, x).first = Get(t, x).first /\ Get(u, x).last = Get(t, x).last
                          /\ Get(u, x).previous = Get(t, x).previous /\ Get(u, x).next = Get(t, x).next
  BY <1>3, AliveIs DEF Get
<1>6. Rooted(u)
  BY <1>1, <1>2, <1>4, <1>5 DEF Forest, Rooted
<1>7. Acyclic(u)
  BY <1>4, <1>5 DEF Forest, Acyclic, Falls
<1>8. ASSUME NEW x \in Alive(t), NEW s \in Seq(Alive(t)), ListOf(t, x, s)
      PROVE  ListOf(u, x, s)
  <2>1. \A k \in 1 .. Len(s) : s[k] \in Alive(t)
    OBVIOUS
  <2>. QED
    BY <1>4, <1>5, <1>8, <2>1 DEF ListOf
<1>9. Listed(u)
  BY <1>4, <1>8 DEF Forest, Listed
<1>. QED
  BY <1>6, <1>7, <1>9 DEF Forest

LEMMA LocalsChange ==
  ASSUME NEW t, Forest(t), NEW e \in Alive(t), NEW l \in Int, NEW u, u = [t EXCEPT ![e[1]].local = l]
  PROVE  Forest(u)
<1>1. t \in Trees /\ e[1] \in Nodes
  BY AliveIs DEF Forest, Rooted
<1>2. SetTo(t, u, e[1], "local", l)
  BY <1>1, SettingLocal, Zenon
<1>3. LinksStay(t, u)
  BY <1>2 DEF SetTo, LinksStay
<1>. QED
  BY <1>3, LinksDecide

(* The place of e holds another node. *)
Placed(t, u, e, new) ==
  u \in Trees /\ u[e[1]] = new /\ \A j \in Nodes : j # e[1] => u[j] = t[j]

LEMMA AliveAt ==
  ASSUME NEW t, NEW e
  PROVE  e \in Alive(t) <=> e \in References /\ e # None /\ t[e[1]].identity = e
  BY DEF Alive, IsAlive

(* A node without links arrives at a free index. *)
LEMMA Arrives ==
  ASSUME NEW t, Forest(t), NEW e \in References, e # None, Get(t, e).identity = None,
         NEW new, new.identity = e, new.parent = None, new.first = None, new.last = None,
         new.previous = None, new.next = None, NEW u, Placed(t, u, e, new)
  PROVE  Forest(u)
<1>1. t \in Trees /\ e[1] \in Nodes /\ None \in References
  BY ReferenceIs DEF Forest, Rooted
<1>2. /\ new.identity = e /\ new.parent = None /\ new.first = None
      /\ new.last = None /\ new.previous = None /\ new.next = None
  OBVIOUS
<1>3. u \in Trees /\ u[e[1]] = new /\ \A j \in Nodes : j # e[1] => u[j] = t[j]
  BY DEF Placed
<1>4. t[e[1]].identity = None
  BY DEF Get
<1>5. \A x \in Alive(t) : x[1] # e[1] /\ x # e /\ Get(u, x) = Get(t, x)
  BY <1>3, <1>4, AliveIs DEF Get
<1>6. Alive(u) = Alive(t) \cup {e}
  <2>1. \A x \in Alive(u) : x \in Alive(t) \/ x = e
    <3>1. \A x \in Alive(u) : x \in References /\ x # None /\ x[1] \in Nodes /\ u[x[1]].identity = x
      BY AliveIs
    <3>2. \A x \in Alive(u) : x[1] = e[1] => x = e
      BY <1>2, <1>3, <3>1
    <3>3. \A x \in Alive(u) : x[1] # e[1] => x \in Alive(t)
      BY <1>3, <3>1, AliveIs
    <3>. QED
      BY <3>2, <3>3
  <2>2. \A x \in Alive(t) : x \in Alive(u)
    BY <1>5, AliveIs DEF Get
  <2>3. e \in Alive(u)
    BY <1>2, <1>3, AliveIs
  <2>. QED
    BY <2>1, <2>2, <2>3
<1>7. Get(u, e) = new
  BY <1>3 DEF Get
<1>8. Rooted(u)
  <2>1. \A i \in Nodes : u[i].identity # None => u[i].identity[1] = i
    BY <1>2, <1>3 DEF Forest, Rooted
  <2>2. \A x \in Alive(t) :
          /\ Get(u, x).parent \in Alive(u) \cup {None}
          /\ Get(u, x).parent = None => Get(u, x).previous = None /\ Get(u, x).next = None
    BY <1>5, <1>6 DEF Forest, Rooted
  <2>. QED
    BY <1>2, <1>3, <1>6, <1>7, <2>1, <2>2 DEF Rooted
<1>9. Acyclic(u)
  <2>1. PICK d \in [Alive(t) -> Nat] : Falls(t, d)
    BY DEF Forest, Acyclic
  <2> DEFINE f == [x \in Alive(u) |-> IF x = e THEN 0 ELSE d[x]]
  <2>2. f \in [Alive(u) -> Nat] /\ \A x \in Alive(t) : f[x] = d[x]
    BY <1>5, <1>6, <2>1
  <2> HIDE DEF f
  <2>3. ASSUME NEW x \in Alive(u), Get(u, x).parent # None
        PROVE  f[Get(u, x).parent] < f[x]
    <3>1. x \in Alive(t)
      BY <1>2, <1>6, <1>7, <2>3
    <3>2. Get(u, x).parent = Get(t, x).parent /\ Get(t, x).parent \in Alive(t)
      BY <1>5, <2>3, <3>1 DEF Forest, Rooted
    <3>. QED
      BY <2>1, <2>2, <2>3, <3>1, <3>2 DEF Falls
  <2>. QED
    BY <2>2, <2>3 DEF Acyclic, Falls
<1>10. Listed(u)
  <2>1. ASSUME NEW x \in Alive(t)
        PROVE  \E s \in Seq(Alive(u)) : ListOf(u, x, s)
    <3>1. PICK s \in Seq(Alive(t)) : ListOf(t, x, s)
      BY DEF Forest, Listed
    <3>2. s \in Seq(Alive(u)) /\ \A k \in 1 .. Len(s) : s[k] \in Alive(t)
      BY <1>6
    <3>3. \A y \in Alive(u) : Get(u, y).parent = x <=> \E k \in 1 .. Len(s) : s[k] = y
      <4>1. \A y \in Alive(t) : Get(u, y).parent = x <=> \E k \in 1 .. Len(s) : s[k] = y
        BY <1>5, <3>1 DEF ListOf
      <4>2. Get(u, e).parent # x /\ \A k \in 1 .. Len(s) : s[k] # e
        BY <1>2, <1>5, <1>7, <3>2, AliveIs
      <4>. QED
        BY <1>6, <4>1, <4>2
    <3>. QED
      BY <1>5, <3>1, <3>2, <3>3 DEF ListOf
  <2>2. ListOf(u, e, <<>>) /\ <<>> \in Seq(Alive(u))
    <3>1. \A y \in Alive(u) : Get(u, y).parent # e
      <4>1. \A y \in Alive(t) : Get(t, y).parent # e
        BY <1>5 DEF Forest, Rooted
      <4>. QED
        BY <1>2, <1>5, <1>6, <1>7, <4>1
    <3>2. 1 .. Len(<<>>) = {} /\ Len(<<>>) = 0
      OBVIOUS
    <3>. QED
      BY <1>2, <1>7, <3>1, <3>2 DEF ListOf
  <2>. QED
    BY <1>6, <2>1, <2>2 DEF Listed
<1>. QED
  BY <1>8, <1>9, <1>10 DEF Forest

LEMMA CreateSound ==
  ASSUME NEW t, Forest(t), NEW e \in References, e # None, Get(t, e).identity = None,
         NEW u, u = [t EXCEPT ![e[1]] = [Gone EXCEPT !.identity = e]]
  PROVE  Forest(u)
<1> DEFINE new == [Gone EXCEPT !.identity = e]
<1>1. t \in Trees /\ e[1] \in Nodes /\ None \in References
  BY ReferenceIs DEF Forest, Rooted
<1>2. /\ new \in NodeRecords /\ new.identity = e /\ new.parent = None /\ new.first = None
      /\ new.last = None /\ new.previous = None /\ new.next = None
  BY <1>1 DEF Gone, NodeRecords
<1> HIDE DEF new
<1>3. Placed(t, u, e, new)
  BY <1>1, <1>2 DEF Trees, new, Placed
<1>. QED
  BY <1>2, <1>3, Arrives

(* A root without children goes. *)
LEMMA Leaves ==
  ASSUME NEW t, Forest(t), NEW e \in Alive(t), Get(t, e).parent = None,
         \A x \in Alive(t) : Get(t, x).parent # e,
         NEW none, none.identity = None, NEW u, Placed(t, u, e, none)
  PROVE  Forest(u) /\ Alive(u) = Alive(t) \ {e}
<1>1. t \in Trees /\ e[1] \in Nodes /\ None \in References
  BY ReferenceIs, AliveIs DEF Forest, Rooted
<1>2. none.identity = None
  OBVIOUS
<1>3. u \in Trees /\ u[e[1]] = none /\ \A j \in Nodes : j # e[1] => u[j] = t[j]
  BY DEF Placed
<1>4. \A x \in Alive(t) : x # e => x[1] # e[1] /\ Get(u, x) = Get(t, x)
  BY <1>3, AliveIs DEF Get
<1>5. Alive(u) = Alive(t) \ {e}
  <2>1. ASSUME NEW x \in Alive(u) PROVE x \in Alive(t) /\ x # e
    <3>1. x \in References /\ x # None /\ x[1] \in Nodes /\ u[x[1]].identity = x
      BY AliveIs
    <3>2. x[1] # e[1]
      BY <1>2, <1>3, <3>1
    <3>. QED
      BY <1>3, <3>1, <3>2, AliveIs
  <2>2. \A x \in Alive(t) : x # e => x \in Alive(u)
    BY <1>4, AliveIs DEF Get
  <2>. QED
    BY <2>1, <2>2
<1>6. Rooted(u)
  <2>1. \A i \in Nodes : u[i].identity # None => u[i].identity[1] = i
    BY <1>2, <1>3 DEF Forest, Rooted
  <2>2. \A x \in Alive(u) :
          /\ Get(u, x).parent \in Alive(u) \cup {None}
          /\ Get(u, x).parent = None => Get(u, x).previous = None /\ Get(u, x).next = None
    BY <1>4, <1>5 DEF Forest, Rooted
  <2>. QED
    BY <1>3, <2>1, <2>2 DEF Rooted
<1>7. Acyclic(u)
  <2>1. PICK d \in [Alive(t) -> Nat] : Falls(t, d)
    BY DEF Forest, Acyclic
  <2> DEFINE f == [x \in Alive(u) |-> d[x]]
  <2>2. f \in [Alive(u) -> Nat] /\ \A x \in Alive(u) : f[x] = d[x]
    BY <1>5, <2>1
  <2> HIDE DEF f
  <2>3. ASSUME NEW x \in Alive(u), Get(u, x).parent # None
        PROVE  f[Get(u, x).parent] < f[x]
    <3>1. x \in Alive(t) /\ Get(u, x).parent = Get(t, x).parent /\ Get(t, x).parent \in Alive(u)
      BY <1>4, <1>5, <1>6, <2>3 DEF Rooted
    <3>. QED
      BY <2>1, <2>2, <2>3, <3>1 DEF Falls
  <2>. QED
    BY <2>2, <2>3 DEF Acyclic, Falls
<1>8. Listed(u)
  <2>1. ASSUME NEW x \in Alive(u)
        PROVE  \E s \in Seq(Alive(u)) : ListOf(u, x, s)
    <3>0. x \in Alive(t) /\ x # e /\ x # None
      BY <1>5, AliveIs
    <3>1. PICK s \in Seq(Alive(t)) : ListOf(t, x, s)
      BY <3>0 DEF Forest, Listed
    <3>2. \A k \in 1 .. Len(s) : s[k] \in Alive(t) /\ s[k] # e
      <4>1. \A k \in 1 .. Len(s) : s[k] \in Alive(t)
        OBVIOUS
      <4>. QED
        BY <3>0, <3>1, <4>1 DEF ListOf
    <3>3. s \in Seq(Alive(u))
      <4>1. \A k \in 1 .. Len(s) : s[k] \in Alive(u)
        BY <1>5, <3>2
      <4>. QED
        BY <4>1
    <3>. QED
      BY <1>4, <1>5, <3>0, <3>1, <3>2, <3>3 DEF ListOf
  <2>. QED
    BY <2>1 DEF Listed
<1>. QED
  BY <1>5, <1>6, <1>7, <1>8 DEF Forest

LEMMA GoneSound ==
  ASSUME NEW t, Forest(t), NEW e \in Alive(t), Get(t, e).parent = None,
         \A x \in Alive(t) : Get(t, x).parent # e,
         NEW u, u = [t EXCEPT ![e[1]] = Gone]
  PROVE  Forest(u) /\ Alive(u) = Alive(t) \ {e}
<1>1. t \in Trees /\ e[1] \in Nodes /\ None \in References
  BY ReferenceIs, AliveIs DEF Forest, Rooted
<1>2. Gone \in NodeRecords /\ Gone.identity = None
  BY <1>1 DEF Gone, NodeRecords
<1>3. Placed(t, u, e, Gone)
  BY <1>1, <1>2 DEF Trees, Placed
<1>. QED
  BY <1>2, <1>3, Leaves

(***************************************************************************)
(* A node is destroyed.                                                    *)
(***************************************************************************)

(* A list of distinct nodes is no longer than the tree has places. *)
LEMMA ListsAreShort ==
  ASSUME NEW t, NEW e, NEW s \in Seq(Alive(t)), ListOf(t, e, s)
  PROVE  Len(s) \in Nat /\ Len(s) <= Cardinality(Nodes)
<1> DEFINE f == [k \in 1 .. Len(s) |-> s[k][1]]
<1>1. Len(s) \in Nat /\ \A k \in 1 .. Len(s) : s[k] \in Alive(t)
  OBVIOUS
<1>2. \A k \in 1 .. Len(s) : f[k] = s[k][1] /\ f[k] \in Nodes
  BY <1>1, AliveIs
<1>3. f \in [1 .. Len(s) -> Nodes]
  BY <1>2
<1>4. \A i, j \in 1 .. Len(s) : f[i] = f[j] => i = j
  BY <1>1, <1>2, AliveIs DEF ListOf
<1> HIDE DEF f
<1>5. f \in Injection(1 .. Len(s), Nodes)
  BY <1>3, <1>4 DEF Injection, IsInjective
<1>6. Cardinality(1 .. Len(s)) <= Cardinality(Nodes)
  BY <1>5, FS_Injection, HierarchyAssumption
<1>7. Cardinality(1 .. Len(s)) = Len(s)
  <2>1. Cardinality(1 .. Len(s)) = IF 1 > Len(s) THEN 0 ELSE Len(s) - 1 + 1
    BY <1>1, FS_Interval
  <2>. QED
    BY <1>1, <2>1
<1>. QED
  BY <1>1, <1>6, <1>7

(* The trees while the children of e leave it, one after the other. *)
OrphanedFrom(t, e) ==
  CHOOSE orphaned : orphaned =
    [k \in 0 .. Cardinality(Nodes) |->
       IF k = 0 THEN Detach(t, e)
       ELSE LET first == Get(orphaned[k - 1], e).first
            IN  IF first = None THEN orphaned[k - 1] ELSE Detach(orphaned[k - 1], first)]

LEMMA DestroyedIs ==
  ASSUME NEW t, NEW e
  PROVE  Destroyed(t, e) = [OrphanedFrom(t, e)[Cardinality(Nodes)] EXCEPT ![e[1]] = Gone]
  BY DEF Destroyed, OrphanedFrom

ForestsOf(S) == {x \in Trees : Forest(x) /\ Alive(x) = S}

(* While its children leave, the tree stays a forest of the same nodes. *)
LEMMA OrphanedIs ==
  ASSUME NEW t, Forest(t), NEW e \in Alive(t)
  PROVE  LET F == OrphanedFrom(t, e)
         IN  /\ F[0] = Detach(t, e)
             /\ \A k \in 0 .. Cardinality(Nodes) : F[k] \in ForestsOf(Alive(t))
             /\ \A k \in 1 .. Cardinality(Nodes) :
                  F[k] = IF Get(F[k - 1], e).first = None THEN F[k - 1]
                         ELSE Detach(F[k - 1], Get(F[k - 1], e).first)
<1> DEFINE n == Cardinality(Nodes)
           A == ForestsOf(Alive(t))
           up(x) == IF Get(x, e).first = None THEN x ELSE Detach(x, Get(x, e).first)
           base == Detach(t, e)
           g == [r \in A |-> up(r)]
           body(f) == [k \in 0 .. n |-> IF k = 0 THEN base ELSE up(f[k - 1])]
           F == CHOOSE f : f = body(f)
<1>1. OrphanedFrom(t, e) = F
  BY DEF OrphanedFrom
<1>2. n \in Nat /\ base \in A
  BY NodesAreFinite, DetachSound DEF ForestsOf, Forest, Rooted, DetachedFrom
<1>3. ASSUME NEW x \in A
      PROVE  up(x) \in A
  <2>1. x \in Trees /\ Forest(x) /\ Alive(x) = Alive(t)
    BY DEF ForestsOf
  <2> DEFINE f == Get(x, e).first
  <2>2. f \in Alive(x) \cup {None}
    BY <2>1, LinksAre
  <2>3. ASSUME f # None PROVE Detach(x, f) \in A
    BY <2>1, <2>2, <2>3, DetachSound DEF ForestsOf, Forest, Rooted, DetachedFrom
  <2>. QED
    BY <2>1, <2>3
<1> HIDE DEF base, up, A
<1>4. g \in [A -> A] /\ \A r \in A : g[r] = up(r)
  BY <1>3
<1> HIDE DEF g, n
<1>5. PICK h \in [0 .. n -> A] : Steps(n, base, g, h)
  BY <1>2, <1>4, StepsExist
<1>6. h = body(h)
  <2>1. \A k \in 1 .. n : k # 0 /\ k \in 0 .. n /\ k - 1 \in 0 .. n /\ h[k - 1] \in A
    BY <1>2, <1>5
  <2>2. \A k \in 1 .. n : h[k] = up(h[k - 1])
    BY <1>4, <1>5, <2>1 DEF Steps
  <2>3. h[0] = base /\ \A k \in 0 .. n : k = 0 \/ k \in 1 .. n
    BY <1>2, <1>5 DEF Steps
  <2>. QED
    BY <1>5, <2>2, <2>3
<1>7. F = body(F)
  <2> HIDE DEF body
  <2>. QED
    BY <1>6
<1>8. F[0] = base /\ \A k \in 1 .. n : F[k] = up(F[k - 1])
  <2> HIDE DEF F
  <2>1. 0 \in 0 .. n /\ \A k \in 1 .. n : k # 0 /\ k \in 0 .. n
    BY <1>2
  <2>. QED
    BY <1>7, <2>1
<1> HIDE DEF F
<1>9. \A k \in 0 .. n : F[k] \in A
  <2>1. \A k \in 1 .. n : F[k - 1] \in A => F[k] = g[F[k - 1]]
    BY <1>4, <1>8
  <2>. QED
    BY <1>2, <1>4, <1>8, <2>1, Follows
<1>. QED
  BY <1>1, <1>8, <1>9 DEF up, n, base, A

(* e is a root with at most m children left. *)
HasLeft(x, S, e, m) ==
  Get(x, e).parent = None /\ \E s \in Seq(S) : ListOf(x, e, s) /\ Len(s) <= m

(* The first child leaves, and one less is left. *)
LEMMA ChildLeaves ==
  ASSUME NEW x, Forest(x), NEW e \in Alive(x), NEW m \in Int, HasLeft(x, Alive(x), e, m),
         Get(x, e).first # None, NEW u, u = Detach(x, Get(x, e).first)
  PROVE  HasLeft(u, Alive(x), e, m - 1)
<1> DEFINE f == Get(x, e).first
<1>1. PICK s \in Seq(Alive(x)) : ListOf(x, e, s) /\ Len(s) <= m
  BY DEF HasLeft
<1>2. Len(s) \in Nat /\ Len(s) # 0 /\ f = s[1]
  BY <1>1 DEF ListOf
<1>3. 1 \in 1 .. Len(s) /\ f \in Alive(x)
  BY <1>2
<1>4. Get(x, f).parent = e /\ e # None
  BY <1>1, <1>2, <1>3, AliveIs DEF ListOf
<1> HIDE DEF f
<1>5. DetachedFrom(x, u, f)
  BY <1>3, DetachSound DEF f
<1>6. PlacedIn(x, f, s, 1)
  BY <1>1, <1>2, <1>3, <1>4 DEF PlacedIn, ListOf
<1>7. ListOf(u, e, Spared(s, 1))
  BY <1>3, <1>4, <1>5, <1>6, ListLoses
<1>8. Spared(s, 1) \in Seq(Alive(x)) /\ Len(Spared(s, 1)) = Len(s) - 1
  BY <1>3, SparedIs
<1>9. Get(u, e).parent = None
  BY <1>5 DEF DetachedFrom, HasLeft
<1>. QED
  BY <1>1, <1>2, <1>7, <1>8, <1>9 DEF HasLeft

(* Destroy leaves a forest. *)
LEMMA DestroySound ==
  ASSUME NEW t, Forest(t), NEW e \in Alive(t), NEW u, u = Destroyed(t, e)
  PROVE  Forest(u)
<1> DEFINE n == Cardinality(Nodes)
           F == OrphanedFrom(t, e)
           S == {k \in 0 .. n : HasLeft(F[k], Alive(t), e, n - k)}
<1>1. n \in Nat
  BY NodesAreFinite
<1>2. /\ F[0] = Detach(t, e)
      /\ \A k \in 0 .. n : F[k] \in ForestsOf(Alive(t))
      /\ \A k \in 1 .. n : F[k] = IF Get(F[k - 1], e).first = None THEN F[k - 1]
                                  ELSE Detach(F[k - 1], Get(F[k - 1], e).first)
  BY OrphanedIs
<1>3. u = [F[n] EXCEPT ![e[1]] = Gone]
  BY DestroyedIs
<1>4. \A k \in 0 .. n : Forest(F[k]) /\ Alive(F[k]) = Alive(t)
  BY <1>2 DEF ForestsOf
<1>5. HasLeft(F[0], Alive(t), e, n)
  <2>1. Get(F[0], e).parent = None /\ Forest(F[0]) /\ Alive(F[0]) = Alive(t)
    BY <1>2, DetachSound DEF DetachedFrom
  <2> HIDE DEF F
  <2>2. PICK s \in Seq(Alive(t)) : ListOf(F[0], e, s)
    BY <2>1 DEF Forest, Listed
  <2>3. Len(s) <= n
    BY <2>1, <2>2, ListsAreShort
  <2>. QED
    BY <2>1, <2>2, <2>3 DEF HasLeft
<1> HIDE DEF F, n
<1>6. 0 \in S
  BY <1>1, <1>5
<1>7. ASSUME NEW k \in 0 .. n - 1, k \in S
      PROVE  k + 1 \in S
  <2>1. /\ k + 1 \in 0 .. n /\ k + 1 \in 1 .. n /\ (k + 1) - 1 = k /\ k \in 0 .. n
        /\ n - k \in Int /\ n - (k + 1) = (n - k) - 1 /\ n - (k + 1) >= 0
    BY <1>1
  <2>2. HasLeft(F[k], Alive(t), e, n - k) /\ Forest(F[k]) /\ Alive(F[k]) = Alive(t)
    BY <1>4, <1>7, <2>1
  <2>3. F[k + 1] = IF Get(F[k], e).first = None THEN F[k] ELSE Detach(F[k], Get(F[k], e).first)
    BY <1>2, <2>1
  <2>4. CASE Get(F[k], e).first = None
    <3>1. PICK s \in Seq(Alive(t)) : ListOf(F[k], e, s)
      BY <2>2 DEF HasLeft
    <3>2. Len(s) = 0
      <4>1. Len(s) \in Nat /\ (Len(s) # 0 => s[1] \in Alive(t))
        OBVIOUS
      <4>. QED
        BY <2>4, <3>1, <4>1, AliveIs DEF ListOf
    <3>3. HasLeft(F[k], Alive(t), e, n - (k + 1))
      BY <2>1, <2>2, <3>1, <3>2 DEF HasLeft
    <3>. QED
      BY <2>1, <2>3, <2>4, <3>3
  <2>5. CASE Get(F[k], e).first # None
    <3>1. HasLeft(F[k + 1], Alive(t), e, (n - k) - 1)
      <4>1. e \in Alive(F[k])
        BY <2>2
      <4>2. HasLeft(F[k], Alive(F[k]), e, n - k)
        BY <2>2
      <4>3. F[k + 1] = Detach(F[k], Get(F[k], e).first)
        BY <2>3, <2>5
      <4>4. HasLeft(F[k + 1], Alive(F[k]), e, (n - k) - 1)
        BY <2>1, <2>2, <2>5, <4>1, <4>2, <4>3, ChildLeaves
      <4>. QED
        BY <2>2, <4>4
    <3>. QED
      BY <2>1, <3>1
  <2>. QED
    BY <2>4, <2>5
<1>8. n \in S
  <2>1. 0 .. n \subseteq S
    <3> HIDE DEF S
    <3>. QED
      BY <1>1, <1>6, <1>7, UpTo
  <2>2. n \in 0 .. n
    BY <1>1
  <2>. QED
    BY <2>1, <2>2
<1> DEFINE w == F[n]
<1>9. HasLeft(w, Alive(t), e, n - n) /\ n - n = 0
  BY <1>1, <1>8
<1>10. Forest(w) /\ Alive(w) = Alive(t)
  BY <1>1, <1>4
<1> HIDE DEF w
<1>11. PICK s \in Seq(Alive(t)) : ListOf(w, e, s) /\ Len(s) <= 0
  BY <1>9 DEF HasLeft
<1>12. 1 .. Len(s) = {}
  <2>1. Len(s) \in Nat
    OBVIOUS
  <2>. QED
    BY <1>11, <2>1
<1>13. \A x \in Alive(w) : Get(w, x).parent # e
  BY <1>10, <1>11, <1>12 DEF ListOf
<1>14. Get(w, e).parent = None
  BY <1>9 DEF HasLeft
<1>15. u = [w EXCEPT ![e[1]] = Gone]
  BY <1>3 DEF w
<1>. QED
  BY <1>10, <1>13, <1>14, <1>15, GoneSound

(***************************************************************************)
(* What the links say, as an iterator meets them.                          *)
(***************************************************************************)

(* The iterator meets the list, then nothing. *)
LEMMA ChildrenAre ==
  ASSUME NEW t, Forest(t), NEW e \in Alive(t), NEW s \in Seq(Alive(t)), ListOf(t, e, s)
  PROVE  /\ DOMAIN Children(t, e) = 0 .. Cardinality(Nodes) + 1
         /\ \A k \in 0 .. Cardinality(Nodes) + 1 :
              Children(t, e)[k] = IF k < Len(s) THEN s[k + 1] ELSE None
<1> DEFINE n == Cardinality(Nodes) + 1
           up(r) == IF r = None THEN None ELSE Get(t, r).next
           base == Get(t, e).first
           g == [r \in References |-> up(r)]
           body(f) == [k \in 0 .. n |-> IF k = 0 THEN base ELSE up(f[k - 1])]
           F == CHOOSE f : f = body(f)
           m == Len(s)
<1>1. Children(t, e) = F
  BY DEF Children
<1>2. n \in Nat /\ base \in References /\ m \in Nat /\ m <= Cardinality(Nodes)
  BY NodesAreFinite, FieldsAre, AliveIs, ListsAreShort DEF Forest, Rooted
<1>3. \A r \in References : up(r) \in References
  BY ReferenceIs, FieldsAre DEF Forest, Rooted
<1>4. g \in [References -> References] /\ \A r \in References : g[r] = up(r)
  <2> HIDE DEF up
  <2>. QED
    BY <1>3
<1> HIDE DEF g, n, base, up
<1>5. PICK h \in [0 .. n -> References] : Steps(n, base, g, h)
  BY <1>2, <1>4, StepsExist
<1>6. h = body(h)
  <2>1. \A k \in 1 .. n : k # 0 /\ k \in 0 .. n /\ k - 1 \in 0 .. n /\ h[k - 1] \in References
    BY <1>2, <1>5
  <2>2. \A k \in 1 .. n : h[k] = up(h[k - 1])
    BY <1>4, <1>5, <2>1 DEF Steps
  <2>3. h[0] = base /\ \A k \in 0 .. n : k = 0 \/ k \in 1 .. n
    BY <1>2, <1>5 DEF Steps
  <2>. QED
    BY <1>5, <2>2, <2>3
<1>7. F = body(F)
  <2> HIDE DEF body
  <2>. QED
    BY <1>6
<1>8. F[0] = base /\ \A k \in 1 .. n : F[k] = up(F[k - 1])
  <2> HIDE DEF F
  <2>1. 0 \in 0 .. n /\ \A k \in 1 .. n : k # 0 /\ k \in 0 .. n
    BY <1>2
  <2>. QED
    BY <1>7, <2>1
<1>9. DOMAIN F = 0 .. n
  <2> HIDE DEF F
  <2>. QED
    BY <1>7
<1> HIDE DEF F
<1>10. /\ \A k \in 1 .. m : s[k] \in Alive(t) /\ s[k] # None
       /\ \A k \in 1 .. m : Get(t, s[k]).next = IF k < m THEN s[k + 1] ELSE None
       /\ base = IF m = 0 THEN None ELSE s[1]
  <2>1. \A k \in 1 .. m : s[k] \in Alive(t) /\ s[k] # None
    BY AliveIs
  <2>. QED
    BY <2>1 DEF ListOf, base
<1> HIDE DEF m
<1> DEFINE S == {k \in 0 .. n : F[k] = IF k < m THEN s[k + 1] ELSE None}
<1>11. 0 \in S
  BY <1>2, <1>8, <1>10
<1>12. ASSUME NEW k \in 0 .. n - 1, k \in S
       PROVE  k + 1 \in S
  <2>1. k + 1 \in 0 .. n /\ k + 1 \in 1 .. n /\ (k + 1) - 1 = k /\ k \in Nat
    BY <1>2
  <2>2. F[k] = IF k < m THEN s[k + 1] ELSE None
    BY <1>12
  <2>3. F[k + 1] = up(F[k])
    BY <1>8, <2>1
  <2>4. CASE k < m
    <3>1. k + 1 \in 1 .. m
      BY <1>2, <2>1, <2>4
    <3>2. s[k + 1] # None /\ Get(t, s[k + 1]).next = IF k + 1 < m THEN s[(k + 1) + 1] ELSE None
      BY <1>10, <3>1
    <3>. QED
      BY <2>1, <2>2, <2>3, <2>4, <3>2 DEF up
  <2>5. CASE ~(k < m)
    <3>1. ~(k + 1 < m)
      BY <1>2, <2>1, <2>5
    <3>. QED
      BY <2>1, <2>2, <2>3, <2>5, <3>1 DEF up
  <2>. QED
    BY <2>4, <2>5
<1>13. 0 .. n \subseteq S
  <2> HIDE DEF S
  <2>. QED
    BY <1>2, <1>11, <1>12, UpTo
<1>14. \A k \in 0 .. n : F[k] = IF k < m THEN s[k + 1] ELSE None
  BY <1>13
<1>. QED
  BY <1>1, <1>9, <1>14 DEF n, m

(* As many nodes as the list has places. *)
LEMMA CountOf ==
  ASSUME NEW S, NEW s \in Seq(S), NEW T, \A c \in T : \E k \in 1 .. Len(s) : s[k] = c,
         \A k \in 1 .. Len(s) : s[k] \in T, \A j, k \in 1 .. Len(s) : s[j] = s[k] => j = k
  PROVE  Cardinality(T) = Len(s)
<1> DEFINE f == [k \in 1 .. Len(s) |-> s[k]]
<1>1. Len(s) \in Nat
  OBVIOUS
<1>2. f \in [1 .. Len(s) -> T] /\ \A k \in 1 .. Len(s) : f[k] = s[k]
  OBVIOUS
<1> HIDE DEF f
<1>3. f \in Bijection(1 .. Len(s), T)
  BY <1>2 DEF Bijection, Injection, Surjection, IsInjective
<1>4. ExistsBijection(1 .. Len(s), T)
  BY <1>3 DEF ExistsBijection
<1>5. IsFiniteSet(1 .. Len(s))
  BY <1>1, FS_Interval
<1>6. Cardinality(T) = Cardinality(1 .. Len(s))
  BY <1>4, <1>5, FS_Bijection
<1>7. Cardinality(1 .. Len(s)) = IF 1 > Len(s) THEN 0 ELSE Len(s) - 1 + 1
  BY <1>1, FS_Interval
<1>. QED
  BY <1>1, <1>6, <1>7

(* A forest is what TreeIsSound asks for. *)
LEMMA ForestIsSound ==
  ASSUME Forest(nodes)
  PROVE  TreeIsSound
<1> DEFINE t == nodes
<1>1. SUFFICES ASSUME NEW e \in Alive(t)
               PROVE  LET n == Get(t, e)
                          at == Children(t, e)
                          mine == {c \in Alive(t) : Get(t, c).parent = e}
                      IN  /\ {n.parent, n.first, n.last, n.previous, n.next} \subseteq Alive(t) \cup {None}
                          /\ n.parent # None => e \notin Ancestors(t, n.parent)
                          /\ {at[k] : k \in DOMAIN at} \ {None} = mine
                          /\ at[Cardinality(mine)] = None
                          /\ n.last = IF mine = {} THEN None ELSE at[Cardinality(mine) - 1]
                          /\ \A k \in 1 .. Cardinality(mine) - 1 : Get(t, at[k]).previous = at[k - 1]
                          /\ n.first # None => Get(t, n.first).previous = None
  BY DEF TreeIsSound
<1> DEFINE n == Get(t, e)
           at == Children(t, e)
           mine == {c \in Alive(t) : Get(t, c).parent = e}
           N == Cardinality(Nodes)
<1>2. Forest(t)
  OBVIOUS
<1> HIDE DEF t
<1>3. PICK s \in Seq(Alive(t)) : ListOf(t, e, s)
  BY <1>2 DEF Forest, Listed
<1> DEFINE m == Len(s)
<1>4. DOMAIN at = 0 .. N + 1 /\ \A k \in 0 .. N + 1 : at[k] = IF k < m THEN s[k + 1] ELSE None
  BY <1>2, <1>3, ChildrenAre
<1>5. m \in Nat /\ m <= N /\ N \in Nat
  BY <1>3, ListsAreShort, NodesAreFinite
<1>6. /\ \A k \in 1 .. m : s[k] \in Alive(t) /\ s[k] # None
      /\ \A c \in Alive(t) : Get(t, c).parent = e <=> \E k \in 1 .. m : s[k] = c
      /\ \A j, k \in 1 .. m : s[j] = s[k] => j = k
      /\ \A k \in 1 .. m : Get(t, s[k]).previous = IF k > 1 THEN s[k - 1] ELSE None
      /\ n.first = IF m = 0 THEN None ELSE s[1]
      /\ n.last = IF m = 0 THEN None ELSE s[m]
  <2>1. \A k \in 1 .. m : s[k] \in Alive(t) /\ s[k] # None
    BY AliveIs
  <2>. QED
    BY <1>3, <2>1 DEF ListOf
<1>7. /\ \A c \in mine : \E k \in 1 .. m : s[k] = c
      /\ \A k \in 1 .. m : s[k] \in mine
  BY <1>6
<1>8. Cardinality(mine) = m
  BY <1>6, <1>7, CountOf
<1>9. mine = {} <=> m = 0
  BY <1>5, <1>7
<1>10. {n.parent, n.first, n.last, n.previous, n.next} \subseteq Alive(t) \cup {None}
  BY <1>2, LinksAre
<1>11. n.parent # None => e \notin Ancestors(t, n.parent)
  <2>1. ASSUME n.parent # None, e \in Ancestors(t, n.parent) PROVE FALSE
    <3> DEFINE X == {x \in Alive(t) : e \in Ancestors(t, x) /\ x # e}
    <3>1. PICK d \in [Alive(t) -> Nat] : Falls(t, d)
      BY <1>2 DEF Forest, Acyclic
    <3> DEFINE Y == {x \in Alive(t) : e \in Ancestors(t, x) /\ d[x] < d[e]}
    <3>2. n.parent \in Alive(t) /\ d[n.parent] < d[e]
      BY <1>10, <2>1, <3>1 DEF Falls
    <3>3. n.parent \in Y
      BY <2>1, <3>2
    <3>4. ASSUME NEW x \in Y
          PROVE  Get(t, x).parent # None /\ Get(t, x).parent \in Y
      <4>1. x \in Alive(t) /\ e \in Ancestors(t, x) /\ d[x] < d[e] /\ d[x] \in Nat /\ d[e] \in Nat
        BY <3>1
      <4>2. x # e
        BY <4>1
      <4>3. Get(t, x).parent # None /\ e \in Ancestors(t, Get(t, x).parent)
        BY <1>2, <4>1, <4>2, AncestorsStep
      <4>4. Get(t, x).parent \in Alive(t) /\ d[Get(t, x).parent] < d[x] /\ d[Get(t, x).parent] \in Nat
        BY <1>2, <3>1, <4>1, <4>3 DEF Forest, Rooted, Falls
      <4>. QED
        BY <4>1, <4>3, <4>4
    <3>5. Y \in SUBSET Alive(t)
      OBVIOUS
    <3> HIDE DEF Y
    <3>6. Y = {}
      BY <1>2, <3>4, <3>5, DepthInduction
    <3>. QED
      BY <3>3, <3>6
  <2>. QED
    BY <2>1
<1> HIDE DEF at, mine, n, m, N
<1>12. {at[k] : k \in DOMAIN at} \ {None} = mine
  <2>1. ASSUME NEW k \in DOMAIN at, at[k] # None
        PROVE  at[k] \in mine
    <3>1. k \in 0 .. N + 1 /\ k < m /\ at[k] = s[k + 1]
      BY <1>4, <2>1
    <3>2. k + 1 \in 1 .. m
      BY <1>5, <3>1
    <3>. QED
      BY <1>7, <3>1, <3>2
  <2>2. ASSUME NEW c \in mine
        PROVE  c # None /\ \E k \in DOMAIN at : at[k] = c
    <3>1. PICK j \in 1 .. m : s[j] = c
      BY <1>7
    <3>2. j - 1 \in 0 .. N + 1 /\ j - 1 < m /\ (j - 1) + 1 = j
      BY <1>5
    <3>3. at[j - 1] = c
      BY <1>4, <3>1, <3>2
    <3>. QED
      BY <1>4, <1>6, <3>1, <3>2, <3>3
  <2>. QED
    BY <2>1, <2>2
<1>13. at[m] = None
  <2>1. m \in 0 .. N + 1 /\ ~(m < m)
    BY <1>5
  <2>. QED
    BY <1>4, <2>1
<1>14. n.last = IF m = 0 THEN None ELSE at[m - 1]
  <2>1. m # 0 => m - 1 \in 0 .. N + 1 /\ m - 1 < m /\ (m - 1) + 1 = m
    BY <1>5
  <2>. QED
    BY <1>4, <1>6, <2>1
<1>15. \A k \in 1 .. m - 1 : Get(t, at[k]).previous = at[k - 1]
  <2>1. ASSUME NEW k \in 1 .. m - 1
        PROVE  Get(t, at[k]).previous = at[k - 1]
    <3>1. /\ k \in 0 .. N + 1 /\ k < m /\ k - 1 \in 0 .. N + 1 /\ k - 1 < m /\ (k - 1) + 1 = k
          /\ k + 1 \in 1 .. m /\ k + 1 > 1 /\ (k + 1) - 1 = k
      BY <1>5
    <3>2. at[k] = s[k + 1] /\ at[k - 1] = s[k]
      BY <1>4, <3>1
    <3>3. Get(t, s[k + 1]).previous = s[k]
      BY <1>6, <3>1
    <3>. QED
      BY <3>2, <3>3
  <2>. QED
    BY <2>1
<1>16. n.first # None => Get(t, n.first).previous = None
  <2>1. m # 0 => 1 \in 1 .. m /\ ~(1 > 1)
    BY <1>5
  <2>. QED
    BY <1>6, <2>1
<1>. QED
  BY <1>8, <1>9, <1>10, <1>11, <1>12, <1>13, <1>14, <1>15, <1>16 DEF at, mine, n

(***************************************************************************)
(* The behaviours.                                                         *)
(***************************************************************************)

(* The inductive invariant: the links are a forest, and while a snapshot is *)
(* held nobody writes, so that each shows the tree as it is.                *)
TreeInv ==
  /\ Forest(nodes)
  /\ snapshots \in Seq({[tree |-> nodes, epoch |-> epoch]})
  /\ snapshots # <<>> => writing.depth = 0

(* The invariant holds at first, *)
LEMMA TreeInvInit == TreeInit => TreeInv
<1> SUFFICES ASSUME TreeInit PROVE TreeInv
  OBVIOUS
<1>1. nodes = [i \in Nodes |-> Gone] /\ snapshots = <<>>
  BY DEF TreeInit
<1>2. Gone \in NodeRecords /\ Gone.identity = None
  BY ReferenceIs DEF Gone, NodeRecords
<1>3. nodes \in Trees /\ \A i \in Nodes : nodes[i].identity = None
  BY <1>1, <1>2 DEF Trees
<1>4. Alive(nodes) = {}
  <2>1. \A e \in Alive(nodes) : e[1] \in Nodes /\ nodes[e[1]].identity = e /\ e # None
    BY AliveIs
  <2>. QED
    BY <1>3, <2>1
<1>5. Rooted(nodes) /\ Listed(nodes)
  BY <1>3, <1>4 DEF Rooted, Listed
<1>6. Acyclic(nodes)
  <2>1. [e \in {} |-> 0] \in [{} -> Nat]
    OBVIOUS
  <2>. QED
    BY <1>4, <2>1 DEF Acyclic, Falls
<1>. QED
  BY <1>1, <1>5, <1>6 DEF TreeInv, Forest

(* A step under a write, while no snapshot is held. *)
LEMMA WriteKeeps ==
  ASSUME TreeInv, NEW t, Writes(t), Forest(nodes)', UNCHANGED <<writing, snapshots>>
  PROVE  TreeInv'
<1>1. snapshots = <<>>
  BY DEF TreeInv, Writes
<1>2. snapshots' = <<>>
  BY <1>1
<1>. QED
  BY <1>2 DEF TreeInv

(* every step keeps it, *)
LEMMA TreeInvNext == TreeInv /\ [TreeNext]_treeVars => TreeInv'
<1> SUFFICES ASSUME TreeInv, [TreeNext]_treeVars PROVE TreeInv'
  OBVIOUS
<1>1. Forest(nodes)
  BY DEF TreeInv
<1>2. CASE UNCHANGED treeVars
  BY <1>2 DEF TreeInv, treeVars
<1>3. ASSUME NEW t \in Threads, BeginWrite(t)
      PROVE  TreeInv'
  <2>1. snapshots' = <<>> /\ nodes' = nodes
    BY <1>3 DEF BeginWrite
  <2>. QED
    BY <1>1, <2>1 DEF TreeInv
<1>4. ASSUME NEW t \in Threads, EndWrite(t)
      PROVE  TreeInv'
  <2>1. snapshots' = <<>> /\ nodes' = nodes
    BY <1>4 DEF EndWrite, TreeInv
  <2>. QED
    BY <1>1, <2>1 DEF TreeInv
<1>5. ASSUME NEW t \in Threads, NEW e \in References \ {None}, Create(t, e)
      PROVE  TreeInv'
  <2>1. Forest(nodes')
    BY <1>1, <1>5, CreateSound DEF Create
  <2>. QED
    BY <1>5, <2>1, WriteKeeps DEF Create
<1>6. ASSUME NEW t \in Threads, NEW e \in References \ {None}, Destroy(t, e)
      PROVE  TreeInv'
  <2>1. e \in Alive(nodes)
    BY <1>6 DEF Destroy, Alive
  <2>2. Forest(nodes')
    BY <1>1, <1>6, <2>1, DestroySound DEF Destroy
  <2>. QED
    BY <1>6, <2>2, WriteKeeps DEF Destroy
<1>7. ASSUME NEW t \in Threads, NEW e \in References \ {None}, NEW local \in 0 .. Ring - 1,
             SetLocal(t, e, local)
      PROVE  TreeInv'
  <2>1. e \in Alive(nodes) /\ local \in Int
    BY <1>7 DEF SetLocal, Alive
  <2>2. Forest(nodes')
    BY <1>1, <1>7, <2>1, LocalsChange DEF SetLocal
  <2>. QED
    BY <1>7, <2>2, WriteKeeps DEF SetLocal
<1>8. ASSUME NEW t \in Threads, NEW e \in References \ {None}, NEW p \in References,
             NEW mode \in {"KEEP_LOCAL", "KEEP_WORLD"}, Reparent(t, e, p, mode)
      PROVE  TreeInv'
  <2>1. e \in Alive(nodes) /\ MayReparent(nodes, e, p)
    BY <1>8 DEF Reparent, MayReparent, Alive
  <2>2. Forest(nodes')
    BY <1>1, <1>8, <2>1, ReparentSound DEF Reparent
  <2>. QED
    BY <1>8, <2>2, WriteKeeps DEF Reparent
<1>9. CASE AcquireTopologySnapshot
  <2>1. /\ snapshots' = Append(snapshots, [tree |-> nodes, epoch |-> epoch])
        /\ nodes' = nodes /\ epoch' = epoch /\ writing' = writing /\ writing.depth = 0
    BY <1>9 DEF AcquireTopologySnapshot
  <2> DEFINE held == [tree |-> nodes, epoch |-> epoch]
             S == {held}
  <2>2. snapshots \in Seq(S) /\ held \in S
    BY DEF TreeInv
  <2>3. Append(snapshots, held) \in Seq(S)
    <3> HIDE DEF S, held
    <3>. QED
      BY <2>2, AppendIs
  <2>. QED
    BY <1>1, <2>1, <2>3 DEF TreeInv
<1>10. ASSUME NEW k \in DOMAIN snapshots, ReleaseSnapshot(k)
       PROVE  TreeInv'
  <2>1. /\ snapshots' = SubSeq(snapshots, 1, k - 1) \o SubSeq(snapshots, k + 1, Len(snapshots))
        /\ nodes' = nodes /\ epoch' = epoch /\ writing' = writing
    BY <1>10 DEF ReleaseSnapshot
  <2> DEFINE S == {[tree |-> nodes, epoch |-> epoch]}
  <2>2. snapshots \in Seq(S)
    BY DEF TreeInv
  <2> HIDE DEF S
  <2>3. k \in 1 .. Len(snapshots) /\ Len(snapshots) \in Nat
    BY <2>2
  <2>4. SubSeq(snapshots, 1, k - 1) \in Seq(S) /\ SubSeq(snapshots, k + 1, Len(snapshots)) \in Seq(S)
    BY <2>2, <2>3
  <2>5. snapshots' \in Seq(S)
    BY <2>1, <2>4
  <2>6. snapshots # <<>>
    BY <2>3
  <2>. QED
    BY <1>1, <2>1, <2>5, <2>6 DEF TreeInv, S
<1>. QED
  BY <1>2, <1>3, <1>4, <1>5, <1>6, <1>7, <1>8, <1>9, <1>10 DEF TreeNext

(* and it says what is promised. *)
LEMMA TreeInvShows == TreeInv => HierarchyIsSafe
<1> SUFFICES ASSUME TreeInv PROVE HierarchyIsSafe
  OBVIOUS
<1>1. TreeIsSound
  BY ForestIsSound DEF TreeInv
<1>2. SnapshotsAreStable
  BY DEF TreeInv, SnapshotsAreStable
<1>. QED
  BY <1>1, <1>2 DEF HierarchyIsSafe

(* A move spares the rest. *)
LEMMA MovesSpare ==
  ASSUME TreeInv, TreeInv'
  PROVE  \A e \in Moved, mode \in {"KEEP_LOCAL", "KEEP_WORLD"} :
           Reparent(writing.thread, e, Get(nodes', e).parent, mode) =>
             \A x \in Alive(nodes) :
                mode = "KEEP_WORLD" \/ e \notin Ancestors(nodes, x)
                   => Resolve(nodes', x) = Resolve(nodes, x)
<1> TAKE e \in Moved, mode \in {"KEEP_LOCAL", "KEEP_WORLD"}
<1> HAVE Reparent(writing.thread, e, Get(nodes', e).parent, mode)
<1> DEFINE p == Get(nodes', e).parent
           u == nodes'
<1>1. Forest(nodes) /\ Forest(u)
  BY DEF TreeInv
<1>2. e \in Alive(nodes) /\ Get(nodes, e).parent # p /\ IsAlive(u, e)
  BY DEF Moved
<1>3. MayReparent(nodes, e, p) /\ u = Reparented(nodes, e, p, mode)
  BY DEF Reparent
<1> HIDE DEF u, p
<1>4. p \in References
  <2>1. e \in Alive(u)
    BY <1>2, AliveIs DEF Alive
  <2>2. Get(u, e).parent \in Alive(u) \cup {None}
    BY <1>1, <2>1 DEF Forest, Rooted
  <2>. QED
    BY <2>2, AliveIs, ReferenceIs DEF p, u
<1>5. MovedOnly(nodes, u, e)
  BY <1>1, <1>2, <1>3, <1>4, ReparentSound
<1>6. ASSUME NEW x \in Alive(nodes), mode = "KEEP_WORLD" \/ e \notin Ancestors(nodes, x)
      PROVE  Resolve(u, x) = Resolve(nodes, x)
  <2>1. CASE mode = "KEEP_WORLD"
    <3>1. Resolve(u, e) = Resolve(nodes, e)
      BY <1>1, <1>2, <1>3, <1>4, <2>1, WorldIsKept
    <3>. QED
      BY <1>1, <1>2, <1>5, <3>1, AllStays
  <2>2. CASE e \notin Ancestors(nodes, x)
    BY <1>1, <1>2, <1>5, <2>2, RestStays DEF Below
  <2>. QED
    BY <1>6, <2>1, <2>2
<1>. QED
  BY <1>6 DEF u

(* Whatever is created, destroyed and moved, in any order and by any of the
   threads: the links of the hierarchy are a forest without dangling ends, a
   snapshot shows the tree it was taken of while it is held, and a move leaves
   where it was what it should not move. *)
THEOREM TreeSafe == TreeSpec => TreeIsSafe
<1>1. TreeInit => TreeInv
  BY TreeInvInit
<1>2. TreeInv /\ [TreeNext]_treeVars => TreeInv'
  BY TreeInvNext
<1>3. TreeInv => HierarchyIsSafe
  BY TreeInvShows
<1>4. TreeInv /\ TreeInv' =>
        [\A e \in Moved, mode \in {"KEEP_LOCAL", "KEEP_WORLD"} :
           Reparent(writing.thread, e, Get(nodes', e).parent, mode) =>
             \A x \in Alive(nodes) :
                mode = "KEEP_WORLD" \/ e \notin Ancestors(nodes, x)
                   => Resolve(nodes', x) = Resolve(nodes, x)]_treeVars
  BY MovesSpare
<1>. QED
  BY <1>1, <1>2, <1>3, <1>4, PTL DEF TreeSpec, TreeIsSafe, MovesKeepTheRest
=============================================================================
