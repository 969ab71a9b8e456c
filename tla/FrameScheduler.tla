--------------------------- MODULE FrameScheduler ---------------------------
(***************************************************************************)
(* The frame scheduler of the engine (src/engine/controller/                *)
(* frame_scheduler.cpp and .h): a ring of MaxActiveFrames execution slots,  *)
(* the application checkpoint that alternates between update and draw, and  *)
(* the handles by which the engine, the application and its tasks name a    *)
(* frame.                                                                   *)
(*                                                                         *)
(* Every operation runs under FrameScheduler::m_mutex and is one action.    *)
(* Any holder of a handle may call any operation with it at any time, also  *)
(* long after the frame is gone; a call that throws changes nothing and is  *)
(* no step.  Frame times are left out.                                      *)
(***************************************************************************)
EXTENDS Integers, FiniteSets

CONSTANTS
  MaxActiveFrames,  \* EngineConfig.MaxActiveFrames, 2 by default
  InvalidIndex      \* INVALID_FRAME_INDEX, the largest index (2^64 - 1)

ASSUME FrameSchedulerAssumption ==
  /\ MaxActiveFrames \in Nat \ {0}
  /\ InvalidIndex \in Nat \ {0}

Slot  == 0 .. MaxActiveFrames - 1
Frame == 0 .. InvalidIndex - 1    \* the indices frames can have
Index == Frame \cup {InvalidIndex}

(* FrameHandle, without the owner: a handle of another scheduler is refused
   before anything is read. *)
Handle == [app : Frame, sim : Frame, slot : Slot, gen : Nat \ {0}]

State == {"FREE", "ACQUIRED", "WAITING_UPDATE", "UPDATING", "WAITING_DRAW",
          "FINALIZE", "SUBMITTED", "GPU_IN_FLIGHT", "COMPLETE"}

VARIABLES
  state,       \* m_state of each slot
  app,         \* m_applicationFrameIndex
  sim,         \* m_simulationIndex
  generation,  \* m_generation
  update,      \* m_updateSignal: the generation it is for, 0 when it is not set
  draw,        \* m_drawSignal, in the same way
  gpu,         \* m_gpuCompletion: no future, a pending one, a ready one
  arena,       \* the frames whose objects are in m_arena
  checkpoint,  \* m_nextCheckpointSignal
  nextFrame,   \* m_nextApplicationFrameIndex
  nextSim,     \* m_nextSimulationIndex
  issued       \* the handles that were given out, copies of which live on

slotVars == <<state, app, sim, generation, update, draw, gpu, arena>>
vars == <<slotVars, checkpoint, nextFrame, nextSim, issued>>

Init ==
  /\ state = [s \in Slot |-> "FREE"]
  /\ app = [s \in Slot |-> InvalidIndex]
  /\ sim = [s \in Slot |-> InvalidIndex]
  /\ generation = [s \in Slot |-> 0]
  /\ update = [s \in Slot |-> 0]
  /\ draw = [s \in Slot |-> 0]
  /\ gpu = [s \in Slot |-> "none"]
  /\ arena = [s \in Slot |-> {}]
  /\ checkpoint = "UPDATE"
  /\ nextFrame = 0
  /\ nextSim = 0
  /\ issued = {}

-----------------------------------------------------------------------------
(* The slot of a frame is the next one of the ring, whether or not another
   one is free. *)
SlotOf(f) == f % MaxActiveFrames

MutantIndicesLeft == nextSim <= InvalidIndex

IndicesLeft == nextFrame # InvalidIndex /\ nextSim # InvalidIndex

MutantValid(h) == state[h.slot] # "FREE"

(* FrameExecutionSlot::Validate. *)
Valid(h) ==
  /\ app[h.slot] = h.app
  /\ sim[h.slot] = h.sim
  /\ generation[h.slot] = h.gen

(* FrameExecutionSlot::Transition. *)
Transition(h, from, to) ==
  /\ Valid(h)
  /\ state[h.slot] = from
  /\ state' = [state EXCEPT ![h.slot] = to]

MutantResetKeepsArena(s) ==
  /\ gpu' = [gpu EXCEPT ![s] = "none"]
  /\ app' = [app EXCEPT ![s] = InvalidIndex]
  /\ sim' = [sim EXCEPT ![s] = InvalidIndex]
  /\ update' = [update EXCEPT ![s] = 0]
  /\ draw' = [draw EXCEPT ![s] = 0]
  /\ state' = [state EXCEPT ![s] = "FREE"]
  /\ UNCHANGED <<arena, generation>>

(* FrameExecutionSlot::ResetFrameData: the generation stays. *)
ResetFrameData(s) ==
  /\ gpu' = [gpu EXCEPT ![s] = "none"]
  /\ arena' = [arena EXCEPT ![s] = {}]
  /\ app' = [app EXCEPT ![s] = InvalidIndex]
  /\ sim' = [sim EXCEPT ![s] = InvalidIndex]
  /\ update' = [update EXCEPT ![s] = 0]
  /\ draw' = [draw EXCEPT ![s] = 0]
  /\ state' = [state EXCEPT ![s] = "FREE"]
  /\ UNCHANGED generation

-----------------------------------------------------------------------------
(* The application update checkpoint. *)
TryAcquireFrame ==
  /\ checkpoint = "UPDATE"
  /\ IndicesLeft
  /\ LET s == SlotOf(nextFrame)
         g == generation[s] + 1
     IN /\ state[s] = "FREE"
        /\ generation[s] # InvalidIndex
        /\ generation' = [generation EXCEPT ![s] = g]
        /\ app' = [app EXCEPT ![s] = nextFrame]
        /\ sim' = [sim EXCEPT ![s] = nextSim]
        /\ state' = [state EXCEPT ![s] = "ACQUIRED"]
        /\ update' = [update EXCEPT ![s] = g]
        /\ draw' = [draw EXCEPT ![s] = 0]
        /\ issued' = issued \cup
             {[app |-> nextFrame, sim |-> nextSim, slot |-> s, gen |-> g]}
  /\ nextFrame' = nextFrame + 1
  /\ nextSim' = nextSim + 1
  /\ checkpoint' = "DRAW"
  /\ UNCHANGED <<gpu, arena>>

(* The application draw checkpoint. *)
SignalDraw(h) ==
  /\ checkpoint = "DRAW"
  /\ Valid(h)
  /\ update[h.slot] = h.gen
  /\ draw[h.slot] = 0
  /\ draw' = [draw EXCEPT ![h.slot] = generation[h.slot]]
  /\ checkpoint' = "UPDATE"
  /\ UNCHANGED <<state, app, sim, generation, update, gpu, arena, nextFrame,
                 nextSim, issued>>

restVars == <<app, sim, generation, update, draw, arena, checkpoint, nextFrame,
              nextSim, issued>>

ArmFrame(h) ==
  Transition(h, "ACQUIRED", "WAITING_UPDATE") /\ UNCHANGED <<gpu, restVars>>

BeginUpdate(h) ==
  Transition(h, "WAITING_UPDATE", "UPDATING") /\ UNCHANGED <<gpu, restVars>>

EndUpdate(h) ==
  Transition(h, "UPDATING", "WAITING_DRAW") /\ UNCHANGED <<gpu, restVars>>

MutantBeginFinalize(h) ==
  /\ Transition(h, "WAITING_DRAW", "FINALIZE")
  /\ UNCHANGED <<gpu, restVars>>

BeginFinalize(h) ==
  /\ draw[h.slot] = h.gen
  /\ Transition(h, "WAITING_DRAW", "FINALIZE")
  /\ UNCHANGED <<gpu, restVars>>

CompleteFrame(h) ==
  Transition(h, "FINALIZE", "COMPLETE") /\ UNCHANGED <<gpu, restVars>>

(* The future of the GPU may be ready when it is registered. *)
MarkSubmitted(h) ==
  /\ Transition(h, "FINALIZE", "SUBMITTED")
  /\ \E future \in {"pending", "ready"} : gpu' = [gpu EXCEPT ![h.slot] = future]
  /\ UNCHANGED restVars

BeginGpu(h) ==
  Transition(h, "SUBMITTED", "GPU_IN_FLIGHT") /\ UNCHANGED <<gpu, restVars>>

(* The GPU makes its future ready. *)
GpuSignals(s) ==
  /\ gpu[s] = "pending"
  /\ gpu' = [gpu EXCEPT ![s] = "ready"]
  /\ UNCHANGED <<state, restVars>>

MutantCompleteGpu(h) ==
  /\ Transition(h, "GPU_IN_FLIGHT", "COMPLETE")
  /\ UNCHANGED <<gpu, restVars>>

CompleteGpu(h) ==
  /\ gpu[h.slot] = "ready"
  /\ Transition(h, "GPU_IN_FLIGHT", "COMPLETE")
  /\ UNCHANGED <<gpu, restVars>>

RecycleFrame(h) ==
  /\ Valid(h)
  /\ state[h.slot] = "COMPLETE"
  /\ ResetFrameData(h.slot)
  /\ UNCHANGED <<checkpoint, nextFrame, nextSim, issued>>

(* ShouldReleaseDrawCheckpointOnAbort: the draw signal that the checkpoint
   waits for would have come from this frame. *)
ReleasesCheckpoint(h) ==
  /\ checkpoint = "DRAW"
  /\ draw[h.slot] = 0
  /\ app[h.slot] + 1 = nextFrame

MutantAbortFrame(h) ==
  /\ Valid(h)
  /\ state[h.slot] \notin {"FREE", "SUBMITTED", "GPU_IN_FLIGHT"}
  /\ ResetFrameData(h.slot)
  /\ UNCHANGED <<checkpoint, nextFrame, nextSim, issued>>

(* The checkpoint is released before FrameExecutionSlot::Abort can throw. *)
AbortFrame(h) ==
  /\ Valid(h)
  /\ checkpoint' = IF ReleasesCheckpoint(h) THEN "UPDATE" ELSE checkpoint
  /\ \/ /\ state[h.slot] \notin {"FREE", "SUBMITTED", "GPU_IN_FLIGHT"}
        /\ ResetFrameData(h.slot)
     \/ /\ state[h.slot] \in {"FREE", "SUBMITTED", "GPU_IN_FLIGHT"}
        /\ UNCHANGED slotVars
  /\ UNCHANGED <<nextFrame, nextSim, issued>>

(* FrameStorage::Emplace, whatever the object. *)
Emplace(h) ==
  /\ Valid(h)
  /\ arena' = [arena EXCEPT ![h.slot] = @ \cup {h.app}]
  /\ UNCHANGED <<state, app, sim, generation, update, draw, gpu, checkpoint,
                 nextFrame, nextSim, issued>>

-----------------------------------------------------------------------------
Call(h) ==
  \/ SignalDraw(h)
  \/ ArmFrame(h) \/ BeginUpdate(h) \/ EndUpdate(h)
  \/ BeginFinalize(h) \/ CompleteFrame(h)
  \/ MarkSubmitted(h) \/ BeginGpu(h) \/ CompleteGpu(h)
  \/ RecycleFrame(h) \/ AbortFrame(h)
  \/ Emplace(h)

Next ==
  \/ TryAcquireFrame
  \/ \E h \in issued : Call(h)
  \/ \E s \in Slot : GpuSignals(s)

Spec == Init /\ [][Next]_vars
-----------------------------------------------------------------------------
TypeOK ==
  /\ state \in [Slot -> State]
  /\ app \in [Slot -> Index]
  /\ sim \in [Slot -> Index]
  /\ generation \in [Slot -> Index]
  /\ update \in [Slot -> Index]
  /\ draw \in [Slot -> Index]
  /\ gpu \in [Slot -> {"none", "pending", "ready"}]
  /\ arena \in [Slot -> SUBSET Frame]
  /\ checkpoint \in {"UPDATE", "DRAW"}
  /\ nextFrame \in Index
  /\ nextSim \in Index
  /\ issued \subseteq Handle

(* The application is asked for a draw exactly while the newest frame is still
   in its slot and not signalled: whatever was aborted in between, the
   checkpoint is neither stuck on a frame that is gone nor released early. *)
CheckpointAwaitsNewest ==
  checkpoint = "DRAW" <=>
    \E s \in Slot : /\ state[s] # "FREE"
                    /\ app[s] + 1 = nextFrame
                    /\ draw[s] = 0

(* The frames in the slots are among the last MaxActiveFrames: a slow frame
   holds the application back instead of being overtaken. *)
FramesInWindow ==
  \A s \in Slot : state[s] # "FREE" =>
    app[s] < nextFrame /\ nextFrame <= app[s] + MaxActiveFrames

(* The objects in the arena of a slot belong to the frame that has the slot:
   recycling and aborting leave nothing behind. *)
ArenaIsOfFrame ==
  \A s \in Slot : arena[s] \subseteq (IF state[s] = "FREE" THEN {} ELSE {app[s]})

(* A slot runs out of generations only when the scheduler has run out of
   frame indices: the second check of Acquire never throws. *)
GenerationsLast ==
  (\E s \in Slot : generation[s] = InvalidIndex) => nextFrame = InvalidIndex

(* A handle whose frame is gone never becomes valid again, although its slot
   is used again and again. *)
StaleStaysStale == [][\A h \in issued : ~ Valid(h) => ~ Valid(h)']_vars

(* A slot on whose content the GPU still works keeps its frame and all of its
   objects: neither abort nor recycle takes them away. *)
GpuKeepsSlot ==
  [][\A s \in Slot : gpu[s] = "pending" =>
       /\ app'[s] = app[s] /\ generation'[s] = generation[s]
       /\ arena[s] \subseteq arena'[s]]_vars

(* The ring implements the pipeline of FramePipeline.tla: a frame is unborn
   until it is acquired, and gone when its slot no longer holds it. *)
Holds(f) == app[SlotOf(f)] = f
StageOf(f) ==
  IF f >= nextFrame THEN "unborn"
  ELSE IF Holds(f) THEN state[SlotOf(f)]
  ELSE "gone"

Pipeline == INSTANCE FramePipeline
  WITH Depth <- MaxActiveFrames,
       Last <- InvalidIndex,
       stage <- [f \in Frame |-> StageOf(f)],
       signalled <- {f \in Frame : Holds(f) /\ draw[SlotOf(f)] # 0}

ImplementsPipeline == Pipeline!Spec
=============================================================================
