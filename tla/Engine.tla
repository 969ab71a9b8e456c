------------------------------- MODULE Engine -------------------------------
(***************************************************************************)
(* The engine (src/engine/engine.cpp): it admits frames, publishes their    *)
(* update and draw work to the task system, collects what has ended, and    *)
(* stops.  Composes the frame scheduler (FrameScheduler.tla), the           *)
(* completion of semantic updates (runtime/update_completion.cpp) and the   *)
(* life cycle with its concurrent Stop callers (runtime/                    *)
(* engine_state_manager.cpp).                                               *)
(*                                                                         *)
(* The metadata mutex is held over several steps where the code calls the   *)
(* frame scheduler more than once: by a host operation (host) and by the    *)
(* completion of an update (phase "drawing").  Workers call the frame       *)
(* scheduler without it.  A call of the frame scheduler is one action of    *)
(* FrameScheduler; that none is ever refused is an invariant here.          *)
(*                                                                         *)
(* The task system is seen from above: a task starts when the task it       *)
(* depends on completed and is cancelled when that one failed               *)
(* (TaskSystem.tla).  The frame runtime is the environment: its update      *)
(* finishes at any later time, its extraction and drawing are synchronous   *)
(* or joined by a task, any of them fails, and drawing may hand the frame   *)
(* to the GPU.  Left out: error texts, the platform wakeup (sent with every *)
(* notification), the count of recycled frames.                             *)
(***************************************************************************)
EXTENDS Naturals, FiniteSets

CONSTANTS
  MaxActiveFrames,  \* EngineConfig.MaxActiveFrames
  InvalidIndex,     \* INVALID_FRAME_INDEX
  LastRun,          \* the last run generation (2^64 - 1)
  Stopper,          \* the threads that call Stop
  Job,              \* user jobs
  Calls,            \* the optional operations the host uses
  Environment,      \* what the frame runtime and the machine do
  None              \* no frame

ASSUME EngineAssumption ==
  /\ MaxActiveFrames \in Nat \ {0}
  /\ InvalidIndex \in Nat \ {0}
  /\ LastRun \in Nat
  /\ Calls \subseteq {"TryBeginFrame", "CanAcceptUpdate", "Update", "AbortFrame",
                     "ClearLastError", "WaitForProgress"}
  /\ Environment \subseteq {"async", "join", "gpu", "throw", "memory"}

(* "async": updates that end after ScheduleUpdate returned; "join": extraction
   and drawing in tasks of their own; "gpu": frames the GPU works on; "throw":
   failures of the frame runtime and of the GPU; "memory": an allocation fails. *)
Does(what) == what \in Environment

Slot  == 0 .. MaxActiveFrames - 1
Frame == 0 .. InvalidIndex - 1

(* The tasks of a frame: those of the engine ("update", "draw", "finish",
   "complete") and the joins that the frame runtime returns from
   ScheduleExtract and ScheduleDraw. *)
Kind     == {"update", "draw", "extract", "finish", "prepare", "complete"}
Terminal == {"completed", "failed", "cancelled"}
Outcome  == {"COMPLETED", "FAILED", "CANCELLED"}

VARIABLES
  state, app, generation, update, draw, gpu, checkpoint,
  nextFrame,      \* the frame scheduler
  run,            \* m_state of EngineStateManager
  runGeneration,  \* m_generation
  stopInProgress, \* m_stopInProgress
  completedStop,  \* m_completedStopGeneration
  keys,           \* the frame keys that were given out, of every run
  record,         \* the FrameRuntimeRecord of each slot
  nextDraw,       \* m_nextDrawFrameIndex
  admissionOpen,  \* m_updateAdmissionOpen
  lastError,      \* m_lastError is set
  task,           \* where each task of each frame is
  completion,     \* the UpdateCompletion of each frame
  host,           \* the operation the orchestrating thread is in, the slot it
                  \* reaps and "failed" of the reaping loop
  watch,          \* what that thread knows of m_progressVersion
  jobs,           \* user jobs that have not finished
  stopper         \* where each caller of Stop is, the generation it observed

frames    == <<state, app, generation, update, draw, gpu, checkpoint, nextFrame>>
pastRuns  == <<runGeneration, stopInProgress, completedStop, keys>>
admission == <<nextDraw, admissionOpen>>
vars == <<frames, run, pastRuns, record, admission, lastError, task, completion,
          host, watch, jobs, stopper>>

FS == INSTANCE FrameScheduler
  WITH sim <- app, nextSim <- nextFrame, arena <- [s \in Slot |-> {}],
       issued <- {k.frame : k \in {x \in keys : x.run = runGeneration}}

ASSUME NoneIsNoKey == None \notin [run : Nat, frame : FS!Handle]

SchedulerStarts ==
  /\ state' = [s \in Slot |-> "FREE"]
  /\ app' = [s \in Slot |-> InvalidIndex]
  /\ generation' = [s \in Slot |-> 0]
  /\ update' = [s \in Slot |-> 0]
  /\ draw' = [s \in Slot |-> 0]
  /\ gpu' = [s \in Slot |-> "none"]
  /\ checkpoint' = "UPDATE"
  /\ nextFrame' = 0

(* HasReservation is "key is not None", HasDrawTask "drawTask is not none". *)
EmptyRecord  == [key |-> None, hasUpdate |-> FALSE, drawTask |-> "none",
                 requested |-> FALSE, succeeded |-> FALSE]
NoCompletion == [phase |-> "none", outcome |-> "COMPLETED", stopping |-> FALSE,
                 cancel |-> "unbound"]
NoTasks      == [k \in Kind |-> "none"]
HostIdle     == [op |-> "none", cursor |-> 0, failed |-> FALSE]

Init ==
  /\ runGeneration = 0
  /\ keys = {}
  /\ FS!Init
  /\ run = "CREATED"
  /\ stopInProgress = FALSE
  /\ completedStop = 0
  /\ record = [s \in Slot |-> EmptyRecord]
  /\ nextDraw = 0
  /\ admissionOpen = TRUE
  /\ lastError = FALSE
  /\ task = [f \in Frame |-> NoTasks]
  /\ completion = [f \in Frame |-> NoCompletion]
  /\ host = HostIdle
  /\ watch = "none"
  /\ jobs = {}
  /\ stopper = [p \in Stopper |-> [at |-> "out", observed |-> 0]]

-----------------------------------------------------------------------------
(* The key of a frame of this run, its handle and its slot. *)
KeyOf(f)    == CHOOSE k \in keys : k.run = runGeneration /\ k.frame.app = f
HandleOf(f) == KeyOf(f).frame
SlotOf(f)   == HandleOf(f).slot
FrameIn(s)  == record[s].key.frame

MutexFree ==
  /\ host.op \in {"none", "asleep"}
  /\ \A f \in Frame : completion[f].phase # "drawing"

(* NotifyProgressLocked: the version differs from whatever was captured. *)
MutantNotify == UNCHANGED watch
Notify       == watch' = "news"

Fail      == run' = "STOPPING" /\ lastError' = TRUE
NoFailure == UNCHANGED <<run, lastError>>

(* record = {} *)
MutantResetRecord(s) == record' = [record EXCEPT ![s] = [EmptyRecord EXCEPT !.key = record[s].key]]
ResetRecord(s)       == record' = [record EXCEPT ![s] = EmptyRecord]

Move(f, k, to) == task' = [task EXCEPT ![f][k] = to]
Occupy(op)     == host' = [HostIdle EXCEPT !.op = op]

-----------------------------------------------------------------------------
(* Start and its rollback; what can fail is the allocation of a subsystem,
   before or after the generation advanced, or there is no generation left. *)
Start ==
  /\ MutexFree
  /\ run \in {"CREATED", "STOPPED"}
  /\ runGeneration < LastRun
  /\ SchedulerStarts
  /\ run' = "RUNNING"
  /\ runGeneration' = runGeneration + 1
  /\ nextDraw' = 0
  /\ admissionOpen' = TRUE
  /\ lastError' = FALSE
  /\ Notify
  /\ UNCHANGED <<stopInProgress, completedStop, keys, record, task, completion,
                 host, jobs, stopper>>

StartFails ==
  /\ Does("memory") \/ runGeneration = LastRun
  /\ MutexFree
  /\ run \in {"CREATED", "STOPPED"}
  /\ run' = "STOPPED"
  /\ runGeneration' \in {g \in runGeneration .. runGeneration + 1 : g <= LastRun}
  /\ completedStop' = runGeneration'
  /\ stopInProgress' = FALSE
  /\ admissionOpen' = TRUE
  /\ lastError' = FALSE
  /\ UNCHANGED <<frames, keys, record, nextDraw, task, completion, host, watch,
                 jobs, stopper>>

SubmitUserJob(j) ==
  /\ MutexFree
  /\ run = "RUNNING"
  /\ jobs' = jobs \cup {j}

JobEnds(j) ==
  /\ j \in jobs
  /\ jobs' = jobs \ {j}

JobStep ==
  /\ \E j \in Job : SubmitUserJob(j) \/ JobEnds(j)
  /\ UNCHANGED <<frames, run, pastRuns, record, admission, lastError, task,
                 completion, host, watch, stopper>>

-----------------------------------------------------------------------------
(* The operations of the orchestrating thread: TryBeginFrame ("begin"),
   CanAcceptUpdate ("accept") and Update ("update") reap first. *)
Enter(op) ==
  /\ run = "RUNNING"
  /\ Occupy(op)
  /\ UNCHANGED <<lastError, watch>>

UpdateInOrder ==
  LET r == record[nextDraw % MaxActiveFrames]
  IN ~ (r.key # None /\ r.hasUpdate /\ r.drawTask = "none" /\ ~ r.requested)

TryBeginFrame   == "TryBeginFrame" \in Calls /\ Enter("begin")
CanAcceptUpdate == "CanAcceptUpdate" \in Calls /\ Enter("accept")
Update          == "Update" \in Calls /\ UpdateInOrder /\ Enter("update")

(* GetProgressVersion, then WaitForProgress after a refusal. *)
CaptureVersion ==
  /\ "WaitForProgress" \in Calls
  /\ watch' = "captured"
  /\ UNCHANGED <<lastError, host>>

WaitForProgress ==
  /\ watch = "refused"
  /\ Enter("asleep")

ClearLastError ==
  /\ "ClearLastError" \in Calls
  /\ lastError' = FALSE
  /\ UNCHANGED <<host, watch>>

idleRest == <<frames, run, pastRuns, record, admission, task, completion, jobs,
              stopper>>

HostCalls ==
  /\ host.op = "none"
  /\ MutexFree
  /\ \/ TryBeginFrame \/ CanAcceptUpdate \/ Update
     \/ CaptureVersion \/ WaitForProgress \/ ClearLastError
  /\ UNCHANGED idleRest

(* A notification, the end of the run or the time limit ends the wait. *)
WaitEnds ==
  /\ host.op = "asleep"
  /\ MutexFree
  /\ Occupy("none")
  /\ UNCHANGED <<idleRest, lastError, watch>>

(* ReapTerminalFrameRecordsLocked, slot after slot under the mutex. *)
InReapingCall  == host.op \in {"begin", "accept", "update"}
cursor         == host.cursor
DrawStatus(s)  == task[FrameIn(s).app][record[s].drawTask]
MutantCollectable(s) == record[s].drawTask # "none"
Collectable(s) == record[s].drawTask # "none" /\ DrawStatus(s) \in Terminal
Advance        == host' = [host EXCEPT !.cursor = @ + 1, !.failed = FALSE]

MutantReapFailed(s) == host.failed
ReapFailed(s)       == host.failed \/ DrawStatus(s) # "completed"

(* A draw that did not complete stops the engine. *)
NoteFailure(s) ==
  IF ReapFailed(s) THEN Fail /\ Notify ELSE NoFailure /\ UNCHANGED watch

ReapSkip ==
  /\ ~ Collectable(cursor)
  /\ Advance
  /\ NoFailure
  /\ UNCHANGED <<watch, frames, record, task, completion>>

ReapBeginGpu ==
  /\ gpu[cursor] # "none"
  /\ state[cursor] = "SUBMITTED"
  /\ FS!BeginGpu(FrameIn(cursor))
  /\ NoteFailure(cursor)
  /\ UNCHANGED <<record, task, completion, host>>

(* The GPU still works: the slot is left for a later round. *)
ReapAwaitGpu ==
  /\ gpu[cursor] = "pending"
  /\ state[cursor] # "SUBMITTED"
  /\ Advance
  /\ NoteFailure(cursor)
  /\ UNCHANGED <<frames, record, task, completion>>

(* The future of the GPU holds a value or an error. *)
ReapCompleteGpu ==
  /\ gpu[cursor] = "ready"
  /\ state[cursor] = "GPU_IN_FLIGHT"
  /\ FS!CompleteGpu(FrameIn(cursor))
  /\ \/ NoteFailure(cursor) /\ UNCHANGED host
     \/ Does("throw") /\ Fail /\ Notify /\ host' = [host EXCEPT !.failed = TRUE]
  /\ UNCHANGED <<record, task, completion>>

(* The record had the last handles of the tasks and of the completion. *)
Forget(f) ==
  /\ task' = [task EXCEPT ![f] =
                [k \in Kind |-> IF @[k] \in Terminal THEN "none" ELSE @[k]]]
  /\ completion' = [completion EXCEPT ![f] =
                      IF @.phase = "finished" THEN NoCompletion ELSE @]

ReapRelease ==
  /\ gpu[cursor] # "none" => state[cursor] = "COMPLETE"
  /\ Advance
  /\ IF ReapFailed(cursor) THEN FS!AbortFrame(FrameIn(cursor))
                           ELSE FS!RecycleFrame(FrameIn(cursor))
  /\ NoteFailure(cursor)
  /\ ResetRecord(cursor)
  /\ Forget(FrameIn(cursor).app)

Reap ==
  /\ InReapingCall
  /\ cursor < MaxActiveFrames
  /\ UNCHANGED <<pastRuns, admission, jobs, stopper>>
  /\ \/ ReapSkip
     \/ /\ Collectable(cursor)
        /\ ReapBeginGpu \/ ReapAwaitGpu \/ ReapCompleteGpu \/ ReapRelease

(* FrameScheduler::TryAcquireFrame would return a frame. *)
Room ==
  /\ checkpoint = "UPDATE"
  /\ FS!IndicesLeft
  /\ state[FS!SlotOf(nextFrame)] = "FREE"

(* The end of an operation that begins nothing: the state is no longer
   running, only a hint was asked for, or there is no room.  A thread that was
   refused may go to sleep, one that got a good hint does not. *)
Refuse ==
  /\ run # "RUNNING" \/ host.op = "accept" \/ ~ admissionOpen \/ ~ Room
  /\ Occupy("none")
  /\ watch' = IF host.op = "accept" /\ admissionOpen THEN "none"
              ELSE IF watch = "captured" THEN "refused" ELSE watch
  /\ UNCHANGED <<keys, frames, record, admissionOpen>>

NextKey ==
  LET s == nextFrame % MaxActiveFrames
  IN [run |-> runGeneration,
      frame |-> [app |-> nextFrame, sim |-> nextFrame, slot |-> s,
                 gen |-> generation[s] + 1]]

CloseAdmission == admissionOpen' = FALSE
OpenAdmission == admissionOpen' = TRUE

(* TryBeginFrameLocked. *)
BeginFrame ==
  /\ run = "RUNNING"
  /\ host.op # "accept"
  /\ admissionOpen
  /\ keys' = keys \cup {NextKey}
  /\ FS!TryAcquireFrame
  /\ record' = [record EXCEPT ![NextKey.frame.slot].key = NextKey]
  /\ CloseAdmission
  /\ Occupy(IF host.op = "update" THEN "arm" ELSE "none")
  /\ UNCHANGED watch

EndReaping ==
  /\ InReapingCall
  /\ cursor = MaxActiveFrames
  /\ UNCHANGED <<run, runGeneration, stopInProgress, completedStop, nextDraw,
                 lastError, task, completion, jobs, stopper>>
  /\ Refuse \/ BeginFrame

(* ResolveReservationLocked. *)
Resolves(k) ==
  /\ run = "RUNNING"
  /\ k.run = runGeneration
  /\ record[k.frame.slot].key = k

(* CompleteUserUpdateLocked publishes the update task, or fails to and takes
   the frame back. *)
PublishUpdate(k) ==
  LET f == k.frame.app
      s == k.frame.slot
  IN /\ UNCHANGED <<pastRuns, admission, jobs, stopper>>
     /\ \/ /\ FS!ArmFrame(k.frame)
           /\ record' = [record EXCEPT ![s].hasUpdate = TRUE]
           /\ Move(f, "update", "waiting")
           /\ completion' = [completion EXCEPT ![f].phase = "open"]
           /\ NoFailure
        \/ /\ Does("memory")
           /\ FS!AbortFrame(k.frame)
           /\ ResetRecord(s)
           /\ Fail
           /\ UNCHANGED <<task, completion>>
     /\ Notify

(* CompleteUserUpdate and ScheduleUserUpdate, by any holder of the key. *)
CompleteUserUpdate(k) ==
  /\ MutexFree
  /\ Resolves(k)
  /\ ~ record[k.frame.slot].hasUpdate
  /\ PublishUpdate(k)
  /\ UNCHANGED host

(* The second half of Update. *)
UpdateCompletes ==
  /\ host.op = "arm"
  /\ PublishUpdate(KeyOf(nextFrame - 1))
  /\ Occupy("none")

MutantSkipDraw(k) == UNCHANGED nextDraw
SkipDraw(k)       == nextDraw' = k.frame.app + 1

AbortFrame(k) ==
  /\ "AbortFrame" \in Calls
  /\ MutexFree
  /\ Resolves(k)
  /\ ~ record[k.frame.slot].hasUpdate
  /\ UNCHANGED <<run, pastRuns, lastError, task, completion, host, jobs, stopper>>
  /\ FS!AbortFrame(k.frame)
  /\ SkipDraw(k)
  /\ ResetRecord(k.frame.slot)
  /\ OpenAdmission
  /\ Notify

(* ScheduleDrawLocked of the record r in slot s, or a submission that throws. *)
ScheduleDraw(s, r) ==
  /\ FS!SignalDraw(FrameIn(s))
  /\ \/ /\ record' = [record EXCEPT ![s] = [r EXCEPT !.drawTask = "draw"]]
        /\ Move(FrameIn(s).app, "draw", "waiting")
        /\ NoFailure
     \/ /\ Does("memory")
        /\ record' = [record EXCEPT ![s] = r]
        /\ Fail
        /\ UNCHANGED task

Draw ==
  LET s == nextDraw % MaxActiveFrames
      r == [record[s] EXCEPT !.requested = TRUE]
  IN /\ host.op = "none"
     /\ MutexFree
     /\ run = "RUNNING"
     /\ record[s].hasUpdate
     /\ FrameIn(s).app = nextDraw
     /\ ~ record[s].requested
     /\ UNCHANGED <<pastRuns, admissionOpen, completion, host, jobs, stopper>>
     /\ IF r.succeeded
          THEN ScheduleDraw(s, r)
          ELSE /\ record' = [record EXCEPT ![s] = r]
               /\ NoFailure
               /\ UNCHANGED <<frames, task>>
     /\ IF run' = run
          THEN nextDraw' = nextDraw + 1 /\ UNCHANGED watch
          ELSE UNCHANGED nextDraw /\ Notify

-----------------------------------------------------------------------------
(* UpdateCompletion. *)
BeginFinish(f, result) ==
  /\ completion[f].phase = "open"
  /\ completion' = [completion EXCEPT
       ![f].phase = "finishing",
       ![f].outcome = result,
       ![f].cancel = IF @ = "stored" THEN "dropped" ELSE @]

MutantBound(f) == "stored"
Bound(f)       == IF completion[f].stopping THEN "called" ELSE "stored"

BindCancellation(f) == completion' = [completion EXCEPT ![f].cancel = Bound(f)]

RequestStop(f) ==
  completion' = [completion EXCEPT
    ![f].stopping = TRUE,
    ![f].cancel = IF @ = "stored" THEN "called" ELSE @]

EnterPhase(f, to) == completion' = [completion EXCEPT ![f].phase = to]

-----------------------------------------------------------------------------
(* Steps of the workers that touch nothing but the tasks and the completion of
   one frame.  The task each task of a frame depends on: *)
Prerequisite(f, k) ==
  CASE k = "draw" -> "update"
    [] k = "extract" -> "draw"
    [] k = "finish" -> "extract"
    [] k = "prepare" -> IF task[f]["finish"] = "none" THEN "draw" ELSE "finish"
    [] k = "complete" -> "prepare"

(* Where the body of a task begins. *)
FirstStep(k) ==
  CASE k \in {"extract", "prepare"} -> "join"
    [] k = "draw" -> "begin"
    [] k = "finish" -> "open"
    [] k = "complete" -> "complete"

(* The task system runs a task, cancels it, or records how it ended. *)
TaskStarts(f, k) ==
  /\ k # "update"
  /\ task[f][k] = "waiting"
  /\ task[f][Prerequisite(f, k)] = "completed"
  /\ Move(f, k, FirstStep(k))
  /\ UNCHANGED completion

TaskIsCancelled(f, k) ==
  /\ k # "update"
  /\ task[f][k] = "waiting"
  /\ task[f][Prerequisite(f, k)] \in {"failed", "cancelled"}
  /\ Move(f, k, "cancelled")
  /\ UNCHANGED completion

TaskEnds(f, k) ==
  /\ task[f][k] \in {"return", "thrown"}
  /\ Move(f, k, IF task[f][k] = "return" THEN "completed" ELSE "failed")
  /\ UNCHANGED completion

(* The update task.  The user callback, where there is one, is skipped when the
   update was asked to stop, throws or returns.  "finish" is the task inside
   Finish. *)
UpdateStarts(f) ==
  /\ task[f]["update"] = "waiting"
  /\ \/ completion[f].stopping /\ Move(f, "update", "finish") /\ BeginFinish(f, "CANCELLED")
     \/ Does("throw") /\ Move(f, "update", "finish") /\ BeginFinish(f, "FAILED")
     \/ Move(f, "update", "run") /\ UNCHANGED completion

(* IFrameRuntime::ScheduleUpdate finishes inline or throws, or it binds the
   cancellation and publishes the simulation.  A cancellation bound late is
   called at once. *)
ScheduleUpdate(f) ==
  /\ task[f]["update"] = "schedule"
  /\ \/ /\ Move(f, "update", "finish")
        /\ \E result \in {"COMPLETED", "FAILED"} :
             (result = "FAILED" => Does("throw")) /\ BeginFinish(f, result)
     \/ /\ Does("async")
        /\ Move(f, "update", "return")
        /\ BindCancellation(f)

(* The simulation ends; it ends as cancelled only when it was cancelled. *)
SimulationEnds(f) ==
  /\ completion[f].cancel \in {"stored", "called"}
  /\ \E result \in Outcome :
       /\ result = "CANCELLED" => completion[f].cancel = "called"
       /\ result = "FAILED" => Does("throw")
       /\ BeginFinish(f, result)
  /\ UNCHANGED <<frames, run, pastRuns, record, admission, lastError, task, host,
                 watch, jobs, stopper>>

(* The last critical section of Finish, and the update task leaving it. *)
UpdateFinished(f) ==
  /\ completion[f].phase = "applied"
  /\ EnterPhase(f, "finished")
  /\ UNCHANGED task

UpdateReturns(f) ==
  /\ task[f]["update"] = "finish"
  /\ completion[f].phase = "finished"
  /\ Move(f, "update", "return")
  /\ UNCHANGED completion

MutantChain(f, k, join, next) ==
  task' = [task EXCEPT ![f][join] = "waiting",
                       ![f][k] = IF join = "extract" THEN "open" ELSE "record"]

(* Two tasks one after the other, and the submitting task goes on. *)
Chain(f, k, join, next) ==
  task' = [task EXCEPT ![f][join] = "waiting", ![f][next] = "waiting",
                       ![f][k] = "record"]

(* IFrameRuntime::ScheduleExtract is synchronous, throws, or returns a join
   that depends on the draw task. *)
ScheduleExtract(f) ==
  /\ task[f]["draw"] = "scheduleExtract"
  /\ \/ Move(f, "draw", "open")
     \/ Does("throw") /\ Move(f, "draw", "throw")
     \/ Does("join") /\ Chain(f, "draw", "extract", "finish")
  /\ UNCHANGED completion

LocalStep(f) ==
  /\ \/ \E k \in Kind : TaskStarts(f, k) \/ TaskIsCancelled(f, k) \/ TaskEnds(f, k)
     \/ UpdateStarts(f) \/ ScheduleUpdate(f) \/ UpdateFinished(f) \/ UpdateReturns(f)
     \/ ScheduleExtract(f)
  /\ UNCHANGED <<frames, run, pastRuns, record, admission, lastError, host, watch,
                 jobs, stopper>>

-----------------------------------------------------------------------------
(* Steps of the workers that call the frame scheduler without the mutex. *)
RunUpdate(f) ==
  /\ task[f]["update"] = "run"
  /\ FS!BeginUpdate(HandleOf(f))
  /\ Move(f, "update", "schedule")

(* RunDraw looks at the state under the mutex before it calls the scheduler. *)
RunDraw(f) ==
  /\ task[f]["draw"] = "begin"
  /\ MutexFree
  /\ IF run \in {"RUNNING", "STOPPING"}
       THEN FS!BeginFinalize(HandleOf(f)) /\ Move(f, "draw", "scheduleExtract")
       ELSE Move(f, "draw", "return") /\ UNCHANGED frames

(* FrameContext::RegisterGpuCompletion, or nothing. *)
MayRegisterGpu(f) ==
  \/ Does("gpu") /\ FS!MarkSubmitted(HandleOf(f))
  \/ UNCHANGED frames

(* IFrameRuntime::ScheduleDraw, in the same three ways; it may register the
   frame with the GPU before it returns or throws. *)
ScheduleDrawing(f, k) ==
  /\ task[f][k] = "scheduleDraw"
  /\ MayRegisterGpu(f)
  /\ \/ Move(f, k, "complete")
     \/ Does("throw") /\ Move(f, k, "throw")
     \/ Does("join") /\ Chain(f, k, "prepare", "complete")

(* The body of a join of the frame runtime. *)
JoinRuns(f, k) ==
  /\ task[f][k] = "join"
  /\ IF k = "prepare" /\ gpu[SlotOf(f)] = "none" THEN MayRegisterGpu(f)
                                                 ELSE UNCHANGED frames
  /\ \/ Move(f, k, "return")
     \/ Does("throw") /\ Move(f, k, "thrown")

CompleteDraw(f, k) ==
  /\ task[f][k] = "complete"
  /\ IF gpu[SlotOf(f)] = "none" THEN FS!CompleteFrame(HandleOf(f))
                                ELSE UNCHANGED frames
  /\ Move(f, k, "notify")

GpuSignals(s) == FS!GpuSignals(s) /\ UNCHANGED task

schedulerRest == <<run, pastRuns, record, admission, lastError, completion, host,
                   watch, jobs, stopper>>

SchedulerStep(f) ==
  /\ UNCHANGED schedulerRest
  /\ \/ RunUpdate(f) \/ RunDraw(f)
     \/ \E k \in Kind : ScheduleDrawing(f, k) \/ JoinRuns(f, k) \/ CompleteDraw(f, k)

GpuStep(s) == UNCHANGED schedulerRest /\ GpuSignals(s)

-----------------------------------------------------------------------------
(* Steps of the workers under the mutex. *)
MutantApplied(s) == "applied"
Applied(s)       == IF record[s].requested THEN "drawing" ELSE "applied"

(* UpdateCompletion::Finish calls FinishUpdate between its two critical
   sections; a record of another frame is left alone. *)
FinishUpdate(f) ==
  LET s == SlotOf(f)
  IN /\ completion[f].phase = "finishing"
     /\ MutexFree
     /\ UNCHANGED <<admissionOpen, task>>
     /\ \/ /\ record[s].key # KeyOf(f)
           /\ EnterPhase(f, "applied")
           /\ NoFailure
           /\ UNCHANGED <<frames, record, watch>>
        \/ /\ record[s].key = KeyOf(f)
           /\ completion[f].outcome = "COMPLETED"
           /\ FS!EndUpdate(HandleOf(f))
           /\ record' = [record EXCEPT ![s].succeeded = TRUE]
           /\ EnterPhase(f, Applied(s))
           /\ NoFailure
           /\ IF record[s].requested THEN UNCHANGED watch ELSE Notify
        \/ /\ record[s].key = KeyOf(f)
           /\ completion[f].outcome # "COMPLETED"
           /\ EnterPhase(f, "applied")
           /\ run' = "STOPPING"
           /\ lastError' = (completion[f].outcome = "FAILED" \/ run = "RUNNING" \/ lastError)
           /\ Notify
           /\ UNCHANGED <<frames, record>>

(* The draw was requested before the update had succeeded. *)
ScheduleRequestedDraw(f) ==
  /\ completion[f].phase = "drawing"
  /\ ScheduleDraw(SlotOf(f), record[SlotOf(f)])
  /\ EnterPhase(f, "applied")
  /\ Notify
  /\ UNCHANGED admissionOpen

(* LatchRuntimeFailure, then the task fails. *)
DrawThrows(f, k) ==
  /\ task[f][k] = "throw"
  /\ Fail
  /\ Notify
  /\ Move(f, k, "thrown")
  /\ UNCHANGED <<record, admissionOpen>>

MutantSwappedHandles(f) == IF task[f]["complete"] # "none" THEN "prepare" ELSE "extract"
Successor(f)            == IF task[f]["complete"] # "none" THEN "complete" ELSE "finish"

(* The submitting task names its successor as the draw task of the record. *)
RecordSuccessor(f, k) ==
  /\ task[f][k] = "record"
  /\ record' = [record EXCEPT ![SlotOf(f)].drawTask = Successor(f)]
  /\ Move(f, k, "return")
  /\ NoFailure
  /\ UNCHANGED <<admissionOpen, watch>>

(* FinishDraw, in the draw task or in its continuation: the next update may
   begin. *)
FinishDraw(f, k) ==
  /\ task[f][k] = "open"
  /\ OpenAdmission
  /\ Notify
  /\ Move(f, k, "scheduleDraw")
  /\ NoFailure
  /\ UNCHANGED record

(* The end of CompleteDraw. *)
DrawCompletes(f, k) ==
  /\ task[f][k] = "notify"
  /\ Notify
  /\ Move(f, k, "return")
  /\ NoFailure
  /\ UNCHANGED <<record, admissionOpen>>

MutexStep(f) ==
  /\ UNCHANGED <<pastRuns, nextDraw, host, jobs, stopper>>
  /\ \/ FinishUpdate(f)
     \/ ScheduleRequestedDraw(f)
     \/ /\ MutexFree
        /\ \E k \in Kind : \/ DrawThrows(f, k)
                           \/ RecordSuccessor(f, k)
                           \/ FinishDraw(f, k)
                           \/ DrawCompletes(f, k)
        /\ UNCHANGED <<frames, completion>>

-----------------------------------------------------------------------------
(* Stop.  The generation is read before the mutex is taken. *)
GoTo(p, to) == stopper' = [stopper EXCEPT ![p].at = to]

Stop(p) ==
  /\ stopper[p].at = "out"
  /\ stopper' = [stopper EXCEPT ![p] = [at |-> "called", observed |-> runGeneration]]
  /\ UNCHANGED <<frames, run, pastRuns, record, admission, lastError, task,
                 completion, host, watch, jobs>>

(* EngineStateManager::BeginStop: one caller owns the cleanup. *)
BeginStop(p) ==
  /\ stopper[p].at = "called"
  /\ MutexFree
  /\ \/ /\ run \in {"CREATED", "STOPPED"}
        /\ run' = "STOPPED"
        /\ GoTo(p, "out")
        /\ UNCHANGED <<stopInProgress, watch>>
     \/ /\ run \in {"RUNNING", "STOPPING"}
        /\ stopInProgress \/ runGeneration # stopper[p].observed
        /\ GoTo(p, IF stopInProgress THEN "await" ELSE "out")
        /\ UNCHANGED <<run, stopInProgress, watch>>
     \/ /\ run \in {"RUNNING", "STOPPING"}
        /\ ~ stopInProgress
        /\ runGeneration = stopper[p].observed
        /\ stopInProgress' = TRUE
        /\ run' = "STOPPING"
        /\ Notify
        /\ GoTo(p, "joinJobs")
  /\ UNCHANGED completion

(* One wait of Stop is over. *)
Waits(p, from, over, to) ==
  /\ stopper[p].at = from
  /\ over
  /\ GoTo(p, to)
  /\ UNCHANGED <<run, stopInProgress, completion, watch>>

MutantStopCompleted(p) == TRUE
StopCompleted(p)       == ~ stopInProgress \/ completedStop >= stopper[p].observed

(* The updates of this run that a record knows; the stop asks them to end. *)
Updates == {FrameIn(s).app : s \in {x \in Slot : record[x].hasUpdate}}

StopUpdate(p, f) ==
  /\ stopper[p].at = "request"
  /\ f \in Updates
  /\ ~ completion[f].stopping
  /\ RequestStop(f)
  /\ UNCHANGED <<run, stopInProgress, watch, stopper>>

MutantJoined(f) == completion[f].stopping
Joined(f)       == completion[f].stopping /\ completion[f].phase = "finished"

Idle == \A f \in Frame, k \in Kind : task[f][k] \in {"none"} \cup Terminal

(* The user jobs, the updates and the task system are awaited in this order;
   another caller waits for the one that cleans up. *)
AwaitStop(p)    == Waits(p, "await", MutexFree /\ StopCompleted(p), "out")
JoinUserJobs(p) == Waits(p, "joinJobs", jobs = {}, "request")
JoinUpdates(p)  == Waits(p, "request", \A f \in Updates : Joined(f), "waitIdle")
WaitIdle(p)     == Waits(p, "waitIdle", Idle, "waitGpu")

StopWork(p) ==
  /\ \/ BeginStop(p) \/ AwaitStop(p) \/ JoinUserJobs(p)
     \/ \E f \in Frame : StopUpdate(p, f)
     \/ JoinUpdates(p) \/ WaitIdle(p)
  /\ UNCHANGED <<frames, runGeneration, completedStop, keys, record, admission,
                 lastError, task, host, jobs>>

(* The GPU is awaited, what has ended is reaped, the rest is aborted; the
   frame scheduler and the task system go away with all records. *)
CompleteStop(p) ==
  /\ stopper[p].at = "waitGpu"
  /\ \A s \in Slot : record[s].hasUpdate => gpu[s] # "pending"
  /\ MutexFree
  /\ SchedulerStarts
  /\ record' = [s \in Slot |-> EmptyRecord]
  /\ nextDraw' = 0
  /\ admissionOpen' = TRUE
  /\ \/ lastError' = \/ lastError
                     \/ \E s \in Slot : Collectable(s) /\ DrawStatus(s) # "completed"
     \/ Does("throw") /\ (\E s \in Slot : gpu[s] = "ready") /\ lastError' = TRUE
  /\ task' = [f \in Frame |-> NoTasks]
  /\ completion' = [f \in Frame |-> NoCompletion]
  /\ run' = "STOPPED"
  /\ stopInProgress' = FALSE
  /\ completedStop' = stopper[p].observed
  /\ Notify
  /\ GoTo(p, "out")
  /\ UNCHANGED <<runGeneration, keys, host, jobs>>

StopStep(p) == StopWork(p) \/ CompleteStop(p)

-----------------------------------------------------------------------------
HostStep ==
  \/ Start \/ StartFails
  \/ HostCalls \/ WaitEnds
  \/ Reap \/ EndReaping \/ UpdateCompletes
  \/ Draw
  \/ \E k \in keys : CompleteUserUpdate(k) \/ AbortFrame(k)

WorkerStep(f) == LocalStep(f) \/ SchedulerStep(f) \/ MutexStep(f)

Next ==
  \/ HostStep
  \/ JobStep
  \/ \E f \in Frame : WorkerStep(f) \/ SimulationEnds(f)
  \/ \E s \in Slot : GpuStep(s)
  \/ \E p \in Stopper : Stop(p) \/ StopStep(p)

Spec == Init /\ [][Next]_vars

(* Every thread goes on and gets the metadata mutex some time although others
   take it again and again; the GPU signals; user jobs end; the orchestrating
   thread polls, because its waits have a time limit.  A simulation need not
   end unless it is cancelled, and nobody need call Stop. *)
Polls == HostCalls /\ host'.op \in {"begin", "accept"}

Fairness ==
  /\ WF_vars(Reap \/ EndReaping \/ UpdateCompletes)
  /\ WF_vars(WaitEnds)
  /\ SF_vars(Polls)
  /\ WF_vars(JobStep /\ \E j \in Job : j \in jobs \ jobs')
  /\ \A f \in Frame :
       /\ SF_vars(WorkerStep(f))
       /\ WF_vars(completion[f].cancel = "called" /\ SimulationEnds(f))
  /\ \A s \in Slot : WF_vars(GpuStep(s))
  /\ \A p \in Stopper : SF_vars(StopStep(p))

FairSpec == Init /\ [][Next]_vars /\ Fairness
-----------------------------------------------------------------------------
TypeOK ==
  /\ FS!TypeOK
  /\ run \in {"CREATED", "RUNNING", "STOPPING", "STOPPED"}
  /\ runGeneration \in 0 .. LastRun
  /\ stopInProgress \in BOOLEAN
  /\ completedStop \in 0 .. LastRun
  /\ keys \subseteq [run : 1 .. LastRun, frame : FS!Handle]
  /\ record \in [Slot -> [key : keys \cup {None}, hasUpdate : BOOLEAN,
                          drawTask : {"none", "draw", "finish", "complete"},
                          requested : BOOLEAN, succeeded : BOOLEAN]]
  /\ nextDraw \in 0 .. InvalidIndex
  /\ admissionOpen \in BOOLEAN
  /\ lastError \in BOOLEAN
  /\ task \in [Frame -> [Kind ->
       {"none", "waiting", "run", "schedule", "finish", "begin",
        "scheduleExtract", "join", "record", "open", "scheduleDraw", "complete",
        "notify", "return", "throw", "thrown"} \cup Terminal]]
  /\ completion \in [Frame ->
       [phase : {"none", "open", "finishing", "drawing", "applied", "finished"},
        outcome : Outcome, stopping : BOOLEAN,
        cancel : {"unbound", "stored", "called", "dropped"}]]
  /\ host \in [op : {"none", "begin", "accept", "update", "arm", "asleep"},
               cursor : 0 .. MaxActiveFrames, failed : BOOLEAN]
  /\ watch \in {"none", "captured", "refused", "news"}
  /\ jobs \subseteq Job
  /\ stopper \in [Stopper ->
       [at : {"out", "called", "await", "joinJobs", "request", "waitIdle", "waitGpu"},
        observed : 0 .. LastRun]]

InSlot(f)  == \E s \in Slot : state[s] # "FREE" /\ app[s] = f
Body(f, k) == task[f][k] \notin {"none", "waiting"} \cup Terminal

(* Nothing in the engine calls the frame scheduler for a frame that is not in
   the state the call is for: not the update task and the completion, which
   may overlap, not the draw tasks, which run without the mutex, not the
   reaping of what they left, and not the host. *)
UpdateCallsInOrder ==
  \A f \in Frame :
    LET s == SlotOf(f)
    IN /\ task[f]["update"] = "run" => state[s] = "WAITING_UPDATE"
       /\ completion[f].phase = "finishing" /\ completion[f].outcome = "COMPLETED" =>
            state[s] = "UPDATING"
       /\ completion[f].phase = "drawing" =>
            checkpoint = "DRAW" /\ draw[s] = 0 /\ record[s].requested

DrawCallsInOrder ==
  \A f \in Frame, k \in Kind \ {"update"} :
    LET s == SlotOf(f)
    IN /\ task[f][k] = "begin" => state[s] = "WAITING_DRAW" /\ draw[s] # 0
       /\ task[f][k] \in {"scheduleDraw", "join"} =>
            \/ state[s] = "FINALIZE"
            \/ k = "prepare" /\ state[s] = "SUBMITTED"
       /\ task[f][k] = "complete" =>
            state[s] = IF gpu[s] = "none" THEN "FINALIZE" ELSE "SUBMITTED"

ReapCallsInOrder ==
  InReapingCall /\ cursor < MaxActiveFrames /\ Collectable(cursor) =>
    IF gpu[cursor] # "none"
      THEN state[cursor] \in {"SUBMITTED", "GPU_IN_FLIGHT", "COMPLETE"}
      ELSE ReapFailed(cursor) \/ state[cursor] = "COMPLETE"

HostCallsInOrder ==
  run = "RUNNING" =>
    /\ admissionOpen => checkpoint = "UPDATE"
    /\ \A s \in Slot :
         /\ record[s].key # None /\ ~ record[s].hasUpdate => state[s] = "ACQUIRED"
         /\ record[s].succeeded /\ ~ record[s].requested =>
              checkpoint = "DRAW" /\ draw[s] = 0

CallsInOrder ==
  UpdateCallsInOrder /\ DrawCallsInOrder /\ ReapCallsInOrder /\ HostCallsInOrder

(* A slot is free exactly when it has no record, and the two name one frame
   of this run. *)
RecordsMatchSlots ==
  \A s \in Slot :
    IF record[s].key = None
      THEN state[s] = "FREE" /\ record[s] = EmptyRecord
      ELSE /\ state[s] # "FREE"
           /\ record[s].key.run = runGeneration
           /\ FrameIn(s).app = app[s]
           /\ FrameIn(s).gen = generation[s]

(* The slot stays taken until the last body of its frame has ended: no task
   runs for a frame that was recycled or aborted. *)
NoBodyOutlivesItsFrame ==
  \A f \in Frame, k \in Kind : Body(f, k) => InSlot(f)

(* The world belongs to one update or one extraction at a time, although the
   frames overlap otherwise. *)
Simulates(f) ==
  \/ task[f]["update"] \in {"run", "schedule"}
  \/ completion[f].phase = "open" /\ completion[f].cancel \in {"stored", "called"}
Extracts(f) ==
  task[f]["draw"] = "scheduleExtract" \/ task[f]["extract"] = "join"

WorldIsExclusive ==
  \A f, g \in Frame :
    /\ Simulates(f) /\ Simulates(g) => f = g
    /\ Extracts(f) /\ Extracts(g) => f = g
    /\ ~ (Simulates(f) /\ Extracts(g))

(* The two checkpoints follow the newest frame, over overlapping draws and
   aborts.  Closed admission has a frame to wait for: the newest one, in its
   slot, not yet through its extraction.  The draw checkpoint names that frame
   until its draw was requested or it was aborted, and then the next one. *)
ClosedAdmissionHasFrame ==
  ~ admissionOpen =>
    \E s \in Slot :
      /\ record[s].key # None
      /\ FrameIn(s).app + 1 = nextFrame
      /\ \A k \in {"draw", "finish"} :
           task[app[s]][k] \notin {"scheduleDraw", "complete", "notify"}

DrawCheckpointFollows ==
  LET undrawn == \E s \in Slot : /\ record[s].key # None
                                 /\ FrameIn(s).app + 1 = nextFrame
                                 /\ ~ record[s].requested
  IN IF undrawn THEN nextDraw + 1 = nextFrame ELSE nextDraw = nextFrame

CheckpointsFollowNewest ==
  run = "RUNNING" => ClosedAdmissionHasFrame /\ DrawCheckpointFollows

(* The books the host steers by - records, admission, draw checkpoint - are
   those of the frames that are in the slots. *)
FramesAreAccounted == RecordsMatchSlots /\ CheckpointsFollowNewest

(* Failures of updates, extractions, draws and submissions at any point leave
   every later call legal and every body inside its frame. *)
FailuresAreContained == CallsInOrder /\ NoBodyOutlivesItsFrame

(* When the engine is stopped nothing of the run is left: no task, no update
   that is still to be applied, no frame the GPU works on, no user job.  (The
   last lines of Finish, which touch only the completion, may be left when the
   draw overtook them.) *)
StopAwaitsEverything ==
  [][run = "STOPPING" /\ run' = "STOPPED" =>
       /\ Idle
       /\ \A f \in Frame : completion[f].phase \notin {"open", "finishing", "drawing"}
       /\ \A s \in Slot : gpu[s] # "pending"
       /\ jobs = {}]_vars

(* When Stop returns, the run that its caller saw is over. *)
StopEndsObservedRun ==
  [][\A p \in Stopper : stopper[p].at # "out" /\ stopper'[p].at = "out" =>
       ~ /\ run' \in {"RUNNING", "STOPPING"}
         /\ runGeneration' = stopper[p].observed]_vars

(* A stop that has returned is over, for the run its caller saw. *)
StopIsClean == StopAwaitsEverything /\ StopEndsObservedRun

(* The orchestrating thread does not sleep through the opening of the
   admission, the release of a slot or the end of a run. *)
AdmissionWakesWaiter ==
  host.op = "asleep" /\ watch # "news" =>
    ~ (admissionOpen /\ Room) \/ run # "RUNNING"

(* What engine/README.md and engine.h promise to a waiter that captured the
   version before its attempt: it is told when the attempt would succeed.
   Only failed work and the GPU are left to the time limit. *)
CompletedFrame(s) ==
  /\ record[s].drawTask # "none"
  /\ DrawStatus(s) = "completed"
  /\ gpu[s] = "none"

NotificationReachesWaiter ==
  host.op = "asleep" /\ watch # "news" /\ run = "RUNNING" =>
    ~ /\ admissionOpen
      /\ nextFrame < InvalidIndex
      /\ CompletedFrame(FS!SlotOf(nextFrame))

(* Every call of Stop returns: the cancellation that ends an update, the join
   of the updates, the drain of the tasks and the wait for the GPU never wait
   for each other. *)
StopReturns == \A p \in Stopper : stopper[p].at # "out" ~> stopper[p].at = "out"

(* A frame that was updated and whose draw was requested leaves its slot, or
   the run ends. *)
DrawnFrameLeaves ==
  \A s \in Slot :
    record[s].succeeded /\ record[s].requested ~>
      ~ record[s].succeeded \/ run # "RUNNING"

(* Neither a stop nor a frame hangs. *)
EngineProceeds == StopReturns /\ DrawnFrameLeaves
=============================================================================
