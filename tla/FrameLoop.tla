----------------------------- MODULE FrameLoop -----------------------------
(***************************************************************************)
(* The main thread of an application with presentation: Application::Run   *)
(* (src/application/application.cpp), FrameLoop::Step and Stop             *)
(* (src/application/runtime/frame_loop.cpp) and the hand-over of frames to  *)
(* the graphics (src/application/runtime/presentation_runtime.cpp).        *)
(*                                                                         *)
(* The engine is taken from outside: a frame is reserved when its slot is   *)
(* free, updated and drawn by workers, and its slot is free again when it   *)
(* was drawn and the promise of its GPU work is kept (Engine.tla).  So is   *)
(* the graphics: a submission is refused for now, accepted, or fails before *)
(* or after it reached the GPU.                                             *)
(***************************************************************************)
EXTENDS Naturals, Sequences, FiniteSets, SequencesExt

CONSTANTS
  FrameSlots,   \* MaxActiveFrames
  LoopFrames,   \* bound on the frames of a run
  LoopRuns      \* bound on the number of runs

ASSUME FrameLoopAssumption ==
  /\ FrameSlots \in Nat \ {0} /\ LoopFrames \in Nat \ {0} /\ LoopRuns \in Nat

LoopFrame == 0 .. LoopFrames - 1
NoFrame   == LoopFrames
LoopSlotOf(f) == f % FrameSlots
Checkpoint == {"READY_FOR_USER_UPDATE", "WAITING_ENGINE_UPDATE",
               "READY_FOR_USER_DRAW", "WAITING_ENGINE_DRAW"}
Stage == {"none", "update", "asking", "updated", "drawAsked", "drawn", "recycled"}

VARIABLES
  loopAt,        \* what the main thread does
  loopRun,       \* number of the run
  loopCheckpoint,    \* m_frameCheckpoint
  reserved,      \* m_reservedFrame
  stage,         \* where the engine is with a frame
  engineError,   \* GetLastError
  mainOpen,      \* the main executor runs
  closing,       \* the window should close, or a shutdown was requested
  promise,       \* Promise of the GPU work of a frame
  queued,        \* m_queued: frames drawn, not submitted
  submitted,     \* m_submitted, with what CompletePending will do
  loopNextFrame,     \* m_nextFrameIndex
  presStopping,  \* m_stopping of the presentation
  presFailure,   \* m_failure
  loopGpu            \* frames the GPU works on, each with its run

presVars == <<queued, submitted, loopNextFrame, presStopping, presFailure>>
frameVars == <<loopCheckpoint, reserved, stage, engineError>>
loopVars == <<loopAt, loopRun, frameVars, mainOpen, closing, promise, presVars, loopGpu>>

LoopInit ==
  /\ loopAt = "off" /\ loopRun = 0
  /\ loopCheckpoint = "READY_FOR_USER_UPDATE" /\ reserved = NoFrame
  /\ stage = [f \in LoopFrame |-> "none"]
  /\ engineError = FALSE
  /\ mainOpen = FALSE /\ closing = FALSE
  /\ promise = [f \in LoopFrame |-> "none"]
  /\ queued = {} /\ submitted = <<>> /\ loopNextFrame = 0
  /\ presStopping = FALSE /\ presFailure = FALSE
  /\ loopGpu = {}

-----------------------------------------------------------------------------
(* Start of a run; one that follows a presentation failure rethrows it, and  *)
(* the main executor is stopped again. *)
LoopStart ==
  /\ loopAt = "off" /\ loopRun < LoopRuns
  /\ loopRun' = loopRun + 1
  /\ IF presFailure
       THEN UNCHANGED <<loopAt, frameVars, mainOpen, closing, promise, presVars>>
       ELSE /\ loopAt' = "events"
            /\ mainOpen' = TRUE /\ closing' = FALSE
            /\ loopCheckpoint' = "READY_FOR_USER_UPDATE" /\ reserved' = NoFrame
            /\ stage' = [f \in LoopFrame |-> "none"]
            /\ promise' = [f \in LoopFrame |-> "none"]
            /\ engineError' = FALSE
            /\ presStopping' = FALSE /\ loopNextFrame' = 0
            /\ UNCHANGED <<queued, submitted, presFailure>>
  /\ UNCHANGED loopGpu

(* RunFrame: ProcessEvents, by which the window may close: OnClose stops the *)
(* main executor at once. *)
SkipAsked == [f \in LoopFrame |-> IF stage[f] = "asking" THEN "update" ELSE stage[f]]

LoopEvents(close) ==
  /\ loopAt = "events"
  /\ closing' = (closing \/ close)
  /\ loopAt' = IF closing' THEN "stop" ELSE "pump"
  /\ IF close THEN mainOpen' = FALSE /\ stage' = SkipAsked
              ELSE UNCHANGED <<mainOpen, stage>>
  /\ UNCHANGED <<loopRun, loopCheckpoint, reserved, engineError, promise, presVars, loopGpu>>

-----------------------------------------------------------------------------
(* Pump, under the lock of the presentation. *)

OnGpu(f) == <<loopRun, f>> \in loopGpu

(* CompletePending keeps the promises of the frames the GPU is done with,    *)
(* oldest first. *)
Completed ==
  LET Done == {n \in 0 .. Len(submitted) :
                 \A i \in 1 .. n : ~ OnGpu(submitted[i].frame)}
  IN CHOOSE n \in Done : \A m \in Done : m <= n
Rest == SubSeq(submitted, Completed + 1, Len(submitted))
Kept == [f \in LoopFrame |->
          IF \E i \in 1 .. Completed : submitted[i].frame = f
          THEN IF (CHOOSE i \in 1 .. Completed : submitted[i].frame = f)
                    \in {i \in DOMAIN submitted : submitted[i].fails}
               THEN "failed" ELSE "kept"
          ELSE promise[f]]

(* Nothing to submit, or the graphics is not ready for it. *)
PumpWaits ==
  /\ loopAt = "pump"
  /\ promise' = Kept /\ submitted' = Rest
  /\ loopAt' = "step"
  /\ UNCHANGED <<loopRun, frameVars, mainOpen, closing, queued, loopNextFrame,
                 presStopping, presFailure, loopGpu>>

(* The next frame, in order; one that failed after its submission keeps its  *)
(* place until the GPU is done. *)
PumpSubmits(fails) ==
  /\ loopAt = "pump"
  /\ ~ presStopping
  /\ loopNextFrame \in queued
  /\ promise' = Kept
  /\ submitted' = Append(Rest, [frame |-> loopNextFrame, fails |-> fails])
  /\ queued' = queued \ {loopNextFrame}
  /\ loopGpu' = loopGpu \cup {<<loopRun, loopNextFrame>>}
  /\ loopNextFrame' = loopNextFrame + 1
  /\ presStopping' = fails /\ presFailure' = fails
  /\ loopAt' = IF fails THEN "stop" ELSE "step"
  /\ UNCHANGED <<loopRun, frameVars, mainOpen, closing>>

(* A failure before anything reached the GPU. *)
PumpThrows ==
  /\ loopAt = "pump"
  /\ ~ presStopping
  /\ promise' = Kept /\ submitted' = Rest
  /\ presStopping' = TRUE /\ presFailure' = TRUE
  /\ loopAt' = "stop"
  /\ UNCHANGED <<loopRun, frameVars, mainOpen, closing, queued, loopNextFrame, loopGpu>>

GpuDone(p) ==
  /\ p \in loopGpu
  /\ loopGpu' = loopGpu \ {p}
  /\ UNCHANGED <<loopAt, loopRun, frameVars, mainOpen, closing, promise, presVars>>

-----------------------------------------------------------------------------
(* Step. *)

(* CheckError throws out of the loop. *)
StepError ==
  /\ loopAt = "step"
  /\ engineError
  /\ loopAt' = "stop"
  /\ UNCHANGED <<loopRun, frameVars, mainOpen, closing, promise, presVars, loopGpu>>

(* Drain runs the commands workers wait for; one may be a shutdown. *)
StepDrain(shutdown) ==
  /\ loopAt = "step" /\ ~ engineError
  /\ shutdown => \E f \in LoopFrame : stage[f] = "asking"
  /\ closing' = (closing \/ shutdown)
  /\ mainOpen' = (mainOpen /\ ~ shutdown)
  /\ stage' = SkipAsked
  /\ loopAt' = IF closing' THEN "events" ELSE "frame"
  /\ UNCHANGED <<loopRun, loopCheckpoint, reserved, engineError, promise, presVars, loopGpu>>

(* TryBeginFrame: frames in order, when the slot is free. *)
NextToBegin == Cardinality({f \in LoopFrame : stage[f] # "none"})

MayBegin ==
  /\ NextToBegin # NoFrame
  /\ NextToBegin >= FrameSlots => stage[NextToBegin - FrameSlots] = "recycled"

StepBegin ==
  /\ loopAt = "frame" /\ loopCheckpoint = "READY_FOR_USER_UPDATE"
  /\ MayBegin
  /\ reserved' = NextToBegin
  /\ stage' = [stage EXCEPT ![NextToBegin] = "update"]
  /\ loopCheckpoint' = "WAITING_ENGINE_UPDATE"
  /\ UNCHANGED <<loopAt, loopRun, engineError, mainOpen, closing, promise,
                 presVars, loopGpu>>

(* CaptureInput or the admission of the update throws: the frame is aborted. *)
StepAborts ==
  /\ loopAt = "frame" /\ loopCheckpoint = "READY_FOR_USER_UPDATE"
  /\ MayBegin
  /\ stage' = [stage EXCEPT ![NextToBegin] = "recycled"]
  /\ loopAt' = "stop"
  /\ UNCHANGED <<loopRun, loopCheckpoint, reserved, engineError, mainOpen, closing,
                 promise, presVars, loopGpu>>

(* The update is over: OnDraw, then the engine is told to draw. *)
StepDraw ==
  /\ loopAt = "frame" /\ loopCheckpoint = "WAITING_ENGINE_UPDATE"
  /\ stage[reserved] = "updated"
  /\ stage' = [stage EXCEPT ![reserved] = "drawAsked"]
  /\ reserved' = NoFrame
  /\ loopCheckpoint' = "READY_FOR_USER_UPDATE"
  /\ loopAt' = "events"
  /\ UNCHANGED <<loopRun, engineError, mainOpen, closing, promise, presVars, loopGpu>>

(* OnDraw throws, with the checkpoint as it is. *)
StepDrawThrows ==
  /\ loopAt = "frame" /\ loopCheckpoint = "WAITING_ENGINE_UPDATE"
  /\ stage[reserved] = "updated"
  /\ loopCheckpoint' = "READY_FOR_USER_DRAW"
  /\ loopAt' = "stop"
  /\ UNCHANGED <<loopRun, reserved, stage, engineError, mainOpen, closing,
                 promise, presVars, loopGpu>>

(* No frame to begin, or the update goes on: a bounded wait, then again. *)
StepWaits ==
  /\ loopAt = "frame"
  /\ \/ /\ loopCheckpoint = "READY_FOR_USER_UPDATE"
        /\ ~ MayBegin
     \/ /\ loopCheckpoint = "WAITING_ENGINE_UPDATE"
        /\ stage[reserved] # "updated"
  /\ loopAt' = "events"
  /\ UNCHANGED <<loopRun, frameVars, mainOpen, closing, promise, presVars, loopGpu>>

-----------------------------------------------------------------------------
(* The workers of the engine. *)

(* A body asks the main thread, and waits. *)
Ask(f) ==
  /\ stage[f] = "update" /\ mainOpen
  /\ stage' = [stage EXCEPT ![f] = "asking"]
  /\ UNCHANGED <<loopAt, loopRun, loopCheckpoint, reserved, engineError, mainOpen,
                 closing, promise, presVars, loopGpu>>

UpdateEnds(f, fails) ==
  /\ stage[f] = "update"
  /\ stage' = [stage EXCEPT ![f] = IF fails THEN "recycled" ELSE "updated"]
  /\ engineError' = (engineError \/ fails)
  /\ UNCHANGED <<loopAt, loopRun, loopCheckpoint, reserved, mainOpen, closing,
                 promise, presVars, loopGpu>>

(* PresentationRuntime::Draw: the engine knows the promise before Pump can   *)
(* see the frame; draws may overtake each other. *)
PresentDraw(f) ==
  /\ stage[f] = "drawAsked" /\ loopAt # "pump"
  /\ promise' = [promise EXCEPT ![f] = "pending"]
  /\ queued' = queued \cup {f}
  /\ stage' = [stage EXCEPT ![f] = "drawn"]
  /\ UNCHANGED <<loopAt, loopRun, loopCheckpoint, reserved, engineError, mainOpen,
                 closing, submitted, loopNextFrame, presStopping, presFailure, loopGpu>>

(* The engine recycles a drawn frame once its promise is kept; a failed one  *)
(* is an error of the run. *)
Recycle(f) ==
  /\ stage[f] = "drawn" /\ promise[f] \in {"kept", "failed"}
  /\ stage' = [stage EXCEPT ![f] = "recycled"]
  /\ engineError' = (engineError \/ promise[f] = "failed")
  /\ UNCHANGED <<loopAt, loopRun, loopCheckpoint, reserved, mainOpen, closing,
                 promise, presVars, loopGpu>>

-----------------------------------------------------------------------------
(* Stop: the main executor first, so that no body waits for this thread ...  *)
\* A bug: the engine is stopped before the main executor.
MutantLoopStop ==
  /\ loopAt = "stop"
  /\ loopAt' = "join"
  /\ UNCHANGED <<loopRun, frameVars, mainOpen, closing, promise, presVars, loopGpu>>

LoopStop ==
  /\ loopAt = "stop"
  /\ mainOpen' = FALSE
  /\ stage' = SkipAsked
  /\ loopAt' = "join"
  /\ UNCHANGED <<loopRun, loopCheckpoint, reserved, engineError, closing, promise,
                 presVars, loopGpu>>

(* ... then the engine joins the bodies; draws that did not start may not    *)
(* start any more ... *)
Busy(f) == stage[f] \in {"update", "asking"}
DropDraw(f) ==
  /\ loopAt = "join" /\ stage[f] = "drawAsked"
  /\ stage' = [stage EXCEPT ![f] = "recycled"]
  /\ UNCHANGED <<loopAt, loopRun, loopCheckpoint, reserved, engineError, mainOpen,
                 closing, promise, presVars, loopGpu>>

(* ... and drains: what was not submitted is given up. *)
LoopDrain ==
  /\ loopAt = "join"
  /\ \A f \in LoopFrame : ~ Busy(f) /\ stage[f] # "drawAsked"
  /\ presStopping' = TRUE
  /\ promise' = [f \in LoopFrame |-> IF f \in queued THEN "kept" ELSE promise[f]]
  /\ queued' = {}
  /\ loopAt' = "drain"
  /\ UNCHANGED <<loopRun, frameVars, mainOpen, closing, submitted, loopNextFrame,
                 presFailure, loopGpu>>

DrainWaits ==
  /\ loopAt = "drain" /\ submitted # <<>> /\ Completed > 0
  /\ promise' = Kept /\ submitted' = Rest
  /\ UNCHANGED <<loopAt, loopRun, frameVars, mainOpen, closing, queued,
                 loopNextFrame, presStopping, presFailure, loopGpu>>

(* Ten seconds, or a lost device: FailAll, whatever the GPU still does. *)
\* A bug: a drain that timed out is forgotten.
MutantDrainFails ==
  /\ loopAt = "drain" /\ submitted # <<>>
  /\ promise' = [f \in LoopFrame |-> IF promise[f] = "pending" THEN "failed" ELSE promise[f]]
  /\ submitted' = <<>>
  /\ UNCHANGED <<loopAt, loopRun, frameVars, mainOpen, closing, queued,
                 loopNextFrame, presStopping, presFailure, loopGpu>>

DrainFails ==
  /\ loopAt = "drain" /\ submitted # <<>>
  /\ promise' = [f \in LoopFrame |->
                  IF \E i \in DOMAIN submitted : submitted[i].frame = f
                  THEN "failed" ELSE promise[f]]
  /\ submitted' = <<>>
  /\ presFailure' = TRUE
  /\ UNCHANGED <<loopAt, loopRun, frameVars, mainOpen, closing, queued,
                 loopNextFrame, presStopping, loopGpu>>

(* The engine waits for the promises of its frames and is stopped. *)
LoopStopped ==
  /\ loopAt = "drain" /\ submitted = <<>>
  /\ \A f \in LoopFrame : promise[f] # "pending"
  /\ loopAt' = "off" /\ reserved' = NoFrame
  /\ UNCHANGED <<loopRun, loopCheckpoint, stage, engineError, mainOpen, closing,
                 promise, presVars, loopGpu>>

-----------------------------------------------------------------------------
LoopMain ==
  \/ LoopEvents(FALSE) \/ PumpWaits
  \/ \E b \in BOOLEAN : PumpSubmits(b)
  \/ StepError \/ StepDrain(FALSE) \/ StepBegin \/ StepDraw \/ StepWaits
  \/ LoopStop \/ LoopDrain \/ DrainWaits \/ LoopStopped

LoopFails ==
  PumpThrows \/ StepAborts \/ StepDrawThrows \/ DrainFails

LoopWorker ==
  \E f \in LoopFrame :
    \/ \E b \in BOOLEAN : UpdateEnds(f, b)
    \/ PresentDraw(f) \/ Recycle(f) \/ DropDraw(f)

LoopGpu == \E p \in loopGpu : GpuDone(p)

LoopNext ==
  \/ LoopStart \/ LoopEvents(TRUE) \/ StepDrain(TRUE)
  \/ LoopMain \/ LoopFails \/ LoopWorker \/ LoopGpu
  \/ \E f \in LoopFrame : Ask(f)

LoopSpec == LoopInit /\ [][LoopNext]_loopVars

(* The main thread and the workers run, and bodies end.  The GPU need not    *)
(* end its work: the drain has a deadline. *)
LoopFairness ==
  WF_loopVars(LoopMain) /\ WF_loopVars(LoopWorker) /\ WF_loopVars(DrainFails)
LoopFairSpec == LoopSpec /\ LoopFairness

-----------------------------------------------------------------------------
LoopTypeOK ==
  /\ loopAt \in {"off", "events", "pump", "step", "frame", "stop", "join", "drain"}
  /\ loopRun \in 0 .. LoopRuns
  /\ loopCheckpoint \in Checkpoint /\ reserved \in LoopFrame \cup {NoFrame}
  /\ stage \in [LoopFrame -> Stage]
  /\ engineError \in BOOLEAN /\ mainOpen \in BOOLEAN /\ closing \in BOOLEAN
  /\ promise \in [LoopFrame -> {"none", "pending", "kept", "failed"}]
  /\ queued \subseteq LoopFrame
  /\ submitted \in Seq([frame : LoopFrame, fails : BOOLEAN])
  /\ loopNextFrame \in Nat
  /\ presStopping \in BOOLEAN /\ presFailure \in BOOLEAN
  /\ loopGpu \subseteq (1 .. LoopRuns) \X LoopFrame

(* The GPU never works on two frames of one slot, over restarts too: a drain *)
(* that gives up on the GPU leaves a failure no later run starts with. *)
SlotsAreExclusive == \A p, q \in loopGpu :
  p # q => LoopSlotOf(p[2]) # LoopSlotOf(q[2])

(* Every promise has one keeper, in m_queued or in m_submitted. *)
PromisesAreHeld == \A f \in LoopFrame :
  promise[f] = "pending" <=>
    (f \in queued) # (\E i \in DOMAIN submitted : submitted[i].frame = f)

(* The frames of the loop share no slot, and none is left without an answer. *)
LoopIsSafe == LoopTypeOK /\ SlotsAreExclusive /\ PromisesAreHeld

(* However a run ends, by the window, a failure of a step or a GPU that      *)
(* never answers, Stop returns: no body waits for the main thread and no     *)
(* promise is left for the engine to wait for. *)
LoopEnds == []<>(loopAt \notin {"stop", "join", "drain"})
=============================================================================
