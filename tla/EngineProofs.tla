---------------------------- MODULE EngineProofs ----------------------------
(***************************************************************************)
(* Proofs about the engine, for every number of slots, indices, runs,       *)
(* threads that stop it and jobs, and for every environment.                *)
(***************************************************************************)
EXTENDS Engine, Integers, TLAPS

(* A slot in use, and a frame that is in none. *)
Live(s) == record[s].key # None
Dead(f) == \A s \in Slot : ~ (Live(s) /\ FrameIn(s).app = f)

Place == {"none", "waiting", "run", "schedule", "finish", "begin", "scheduleExtract", "join",
          "record", "open", "scheduleDraw", "complete", "notify", "return", "throw", "thrown"}
         \cup Terminal
Tasks == [Kind -> Place]
Completions ==
  [phase : {"none", "open", "finishing", "drawing", "applied", "finished"},
   outcome : Outcome, stopping : BOOLEAN, cancel : {"unbound", "stored", "called", "dropped"}]
RecordOf(ks) == [key : ks \cup {None}, hasUpdate : BOOLEAN,
                 drawTask : {"none", "draw", "finish", "complete"},
                 requested : BOOLEAN, succeeded : BOOLEAN]
FrameState == {"FREE", "ACQUIRED", "WAITING_UPDATE", "UPDATING", "WAITING_DRAW",
               "FINALIZE", "SUBMITTED", "GPU_IN_FLIGHT", "COMPLETE"}
FutureState == {"none", "pending", "ready"}
Index == Frame \cup {InvalidIndex}

(* The invariant of one frame: r is the record of its slot, t where its tasks
   are, c its completion, st, g and d the state, the future and the draw signal
   of the slot, rn the state of the run. *)

(* A frame that was begun and has no update yet. *)
Begun(r, t, c, st, g, d) ==
  ~ r.hasUpdate =>
    /\ r.drawTask = "none" /\ ~ r.requested /\ ~ r.succeeded
    /\ t = NoTasks /\ c = NoCompletion /\ st = "ACQUIRED" /\ g = "none" /\ d = 0

(* The update task and the completion, which may outlast it or be outlasted. *)
UpdateSound(r, t, c, st, d, rn) ==
  r.hasUpdate =>
    /\ t["update"] \in {"waiting", "run", "schedule", "finish", "return", "completed"}
    /\ c.phase \in {"open", "finishing", "drawing", "applied", "finished"}
    /\ t["update"] \in {"waiting", "run", "schedule"} => c.phase = "open" /\ c.cancel = "unbound"
    /\ t["update"] \in {"waiting", "run"} => st = "WAITING_UPDATE"
    /\ t["update"] = "schedule" => st = "UPDATING"
    /\ c.phase = "open" =>
         /\ ~ r.succeeded
         /\ \/ t["update"] \in {"waiting", "run", "schedule"}
            \/ /\ t["update"] \in {"return", "completed"} /\ st = "UPDATING"
               /\ c.cancel \in {"stored", "called"}
    /\ c.phase = "finishing" => ~ r.succeeded /\ (c.outcome = "COMPLETED" => st = "UPDATING")
    /\ c.phase = "drawing" => r.succeeded /\ r.requested /\ d = 0
    /\ c.phase \in {"applied", "finished"} => r.succeeded \/ rn # "RUNNING"
    /\ ~ r.succeeded => r.drawTask = "none" /\ st \in {"WAITING_UPDATE", "UPDATING"} /\ d = 0
    /\ r.succeeded =>
         st \in {"WAITING_DRAW", "FINALIZE", "SUBMITTED", "GPU_IN_FLIGHT", "COMPLETE"}

GpuSound(st, g) ==
  /\ g # "none" => st \in {"SUBMITTED", "GPU_IN_FLIGHT", "COMPLETE"}
  /\ st \in {"SUBMITTED", "GPU_IN_FLIGHT"} => g # "none"
  /\ st = "COMPLETE" => g # "pending"

(* No draw task is there before the draw signal. *)
DrawSound(r, t, st, g, d, rn) ==
  /\ r.drawTask = "none" =>
       /\ \A k \in Kind \ {"update"} : t[k] = "none"
       /\ g = "none"
       /\ r.succeeded => st = "WAITING_DRAW"
       /\ d # 0 => rn # "RUNNING"
  /\ r.drawTask # "none" => r.succeeded /\ r.requested /\ d # 0
  /\ ~ r.requested => d = 0

(* The chains of tasks: the extraction may be joined by "extract" and "finish",
   the drawing by "prepare" and "complete".  The opener has the extraction
   behind it, the last one the drawing. *)
Extracting(t) == t["finish"] # "none"
Preparing(t) == t["complete"] # "none"
Opener(t) == IF Extracting(t) THEN t["finish"] ELSE t["draw"]
Last(t) == IF Preparing(t) THEN t["complete"] ELSE Opener(t)

ChainsSound(r, t) ==
  /\ t["extract"] # "none" <=> Extracting(t)
  /\ t["prepare"] # "none" <=> Preparing(t)
  /\ t["update"] = "completed" \/ t["draw"] = "waiting"
  /\ t["draw"] \in {"waiting", "begin", "scheduleExtract", "open", "scheduleDraw", "complete",
                    "notify", "throw", "thrown", "failed", "record", "return", "completed"}
  /\ Extracting(t) =>
       /\ t["draw"] \in {"record", "return", "completed"}
       /\ t["extract"] \in {"waiting", "join", "return", "completed", "thrown", "failed"}
       /\ t["extract"] # "waiting" => t["draw"] = "completed"
       /\ t["finish"] \in {"waiting", "open", "scheduleDraw", "complete", "notify", "throw",
                           "thrown", "failed", "cancelled", "record", "return", "completed"}
       /\ t["finish"] \notin {"waiting", "cancelled"} => t["extract"] = "completed"
       /\ t["finish"] = "cancelled" => t["extract"] = "failed"
  /\ Preparing(t) =>
       /\ Opener(t) \in {"record", "return", "completed"}
       /\ t["prepare"] \in {"waiting", "join", "return", "completed", "thrown", "failed"}
       /\ t["prepare"] # "waiting" => Opener(t) = "completed"
       /\ t["complete"] \in {"waiting", "complete", "notify", "return", "completed", "cancelled"}
       /\ t["complete"] \notin {"waiting", "cancelled"} => t["prepare"] = "completed"
       /\ t["complete"] = "cancelled" => t["prepare"] = "failed"
  /\ t["draw"] = "record" => Extracting(t) \/ Preparing(t)
  /\ t["finish"] = "record" => Preparing(t)
  /\ r.drawTask = IF Preparing(t) /\ Opener(t) # "record" THEN "complete"
                  ELSE IF Extracting(t) /\ t["draw"] # "record" THEN "finish" ELSE "draw"

(* The state of the slot follows the tasks. *)
StagesSound(r, t, st, g) ==
  /\ t["draw"] \in {"waiting", "begin"} <=> st = "WAITING_DRAW"
  /\ t["draw"] \in {"scheduleExtract", "open", "scheduleDraw"} => st = "FINALIZE"
  /\ Extracting(t) /\ t["finish"] \in {"waiting", "cancelled", "open", "scheduleDraw"} =>
       st = "FINALIZE"
  /\ \A k \in Kind : t[k] = "complete" => st = IF g = "none" THEN "FINALIZE" ELSE "SUBMITTED"
  /\ t["complete"] = "waiting" => st \in {"FINALIZE", "SUBMITTED"}
  /\ Last(t) \in {"notify", "return", "completed"} /\ g = "none" => st = "COMPLETE"
  /\ t[r.drawTask] \notin Terminal /\ g # "none" => st = "SUBMITTED"

TasksSound(r, t, st, g) == r.drawTask # "none" => ChainsSound(r, t) /\ StagesSound(r, t, st, g)

FrameSound(r, t, c, st, g, d, rn) ==
  /\ Begun(r, t, c, st, g, d) /\ UpdateSound(r, t, c, st, d, rn) /\ GpuSound(st, g)
  /\ DrawSound(r, t, st, g, d, rn) /\ TasksSound(r, t, st, g)

(* A frame before the step that opens the admission, and one behind it. *)
PreExtract(r, t) ==
  \/ r.drawTask = "none"
  \/ t["draw"] \in {"waiting", "begin", "scheduleExtract", "open"}
  \/ t["finish"] \in {"waiting", "open"}
Opened(t) ==
  Opener(t) \in {"scheduleDraw", "complete", "notify", "return", "completed"} \/ Preparing(t)

-----------------------------------------------------------------------------
(* The inductive invariant. *)

(* A key is given out once. *)
KeysSound ==
  /\ \A k, l \in keys : k.run = l.run /\ k.frame.app = l.frame.app => k = l
  /\ \A k \in keys :
       /\ k.run <= runGeneration /\ k.frame.slot = k.frame.app % MaxActiveFrames
       /\ k.frame.sim = k.frame.app
       /\ run \in {"RUNNING", "STOPPING"} /\ k.run = runGeneration => k.frame.app < nextFrame

SlotsSound ==
  \A s \in Slot :
    /\ ~ Live(s) => gpu[s] = "none" /\ draw[s] = 0
    /\ Live(s) => /\ FrameSound(record[s], task[app[s]], completion[app[s]], state[s], gpu[s],
                                draw[s], run)
                  /\ FrameIn(s).slot = s

DeadSound ==
  \A f \in Frame : Dead(f) =>
    /\ task[f] = NoTasks /\ completion[f].phase \in {"none", "applied", "finished"}
    /\ f >= nextFrame => completion[f] = NoCompletion

CheckpointSound ==
  /\ \A s \in Slot : Live(s) /\ draw[s] = 0 => app[s] + 1 = nextFrame
  /\ checkpoint = "DRAW" <=> \E s \in Slot : Live(s) /\ draw[s] = 0

AdmissionSound ==
  /\ \A s \in Slot : Live(s) /\ PreExtract(record[s], task[app[s]]) =>
       app[s] + 1 = nextFrame /\ ~ admissionOpen
  /\ ~ admissionOpen /\ run = "RUNNING" =>
       \E s \in Slot : Live(s) /\ app[s] + 1 = nextFrame /\ ~ Opened(task[app[s]])
  /\ run = "RUNNING" => DrawCheckpointFollows

HostSound ==
  /\ host.op \notin {"none", "asleep"} => \A f \in Frame : completion[f].phase # "drawing"
  /\ host.op = "arm" =>
       /\ run = "RUNNING"
       /\ \E s \in Slot : Live(s) /\ app[s] + 1 = nextFrame /\ ~ record[s].hasUpdate
  /\ host.op = "asleep" => watch \in {"refused", "news"}
  /\ host.op \in {"none", "asleep"} /\ watch = "refused" /\ run = "RUNNING" =>
       ~ (admissionOpen /\ Room)

(* Between two runs nothing is there. *)
RestSound ==
  run \in {"CREATED", "STOPPED"} =>
    /\ \A s \in Slot : record[s] = EmptyRecord
    /\ \A f \in Frame : task[f] = NoTasks /\ completion[f] = NoCompletion
    /\ host.op \in {"none", "asleep"}

(* One caller of Stop cleans up, and what it has awaited does not come back. *)
Cleans(p) == stopper[p].at \in {"joinJobs", "request", "waitIdle", "waitGpu"}

StoppersSound ==
  /\ stopInProgress => run = "STOPPING"
  /\ completedStop <= runGeneration
  /\ run \in {"RUNNING", "STOPPING"} => completedStop < runGeneration
  /\ \A p, q \in Stopper : Cleans(p) /\ Cleans(q) => p = q
  /\ \A p \in Stopper :
       /\ stopper[p].observed <= runGeneration
       /\ Cleans(p) => /\ stopInProgress /\ stopper[p].observed = runGeneration
                       /\ host.op \in {"none", "asleep"}
       /\ stopper[p].at = "await" /\ stopper[p].observed = runGeneration
            /\ run \in {"RUNNING", "STOPPING"} => stopInProgress
       /\ stopper[p].at \in {"request", "waitIdle", "waitGpu"} => jobs = {}
       /\ stopper[p].at \in {"waitIdle", "waitGpu"} =>
            \A s \in Slot : record[s].hasUpdate => completion[app[s]].phase = "finished"
       /\ stopper[p].at = "waitGpu" => Idle

EngineInv ==
  /\ TypeOK /\ KeysSound /\ RecordsMatchSlots /\ SlotsSound /\ DeadSound /\ CheckpointSound
  /\ AdmissionSound /\ HostSound /\ RestSound /\ StoppersSound

-----------------------------------------------------------------------------
(* Types. *)

(* The parts of the type invariant. *)
SlotsTyped ==
  /\ state \in [Slot -> FrameState] /\ app \in [Slot -> Index] /\ generation \in [Slot -> Index]
  /\ update \in [Slot -> Index] /\ draw \in [Slot -> Index] /\ gpu \in [Slot -> FutureState]
  /\ checkpoint \in {"UPDATE", "DRAW"} /\ nextFrame \in Index
  /\ keys \subseteq [run : 1 .. LastRun, frame : FS!Handle]
FramesTyped ==
  /\ record \in [Slot -> RecordOf(keys)] /\ task \in [Frame -> Tasks]
  /\ completion \in [Frame -> Completions]
RunTyped ==
  /\ run \in {"CREATED", "RUNNING", "STOPPING", "STOPPED"} /\ runGeneration \in 0 .. LastRun
  /\ stopInProgress \in BOOLEAN /\ completedStop \in 0 .. LastRun
  /\ nextDraw \in 0 .. InvalidIndex /\ admissionOpen \in BOOLEAN /\ lastError \in BOOLEAN
HostTyped ==
  /\ host \in [op : {"none", "begin", "accept", "update", "arm", "asleep"},
               cursor : 0 .. MaxActiveFrames, failed : BOOLEAN]
  /\ watch \in {"none", "captured", "refused", "news"}
  /\ jobs \subseteq Job
  /\ stopper \in [Stopper ->
       [at : {"out", "called", "await", "joinJobs", "request", "waitIdle", "waitGpu"},
        observed : 0 .. LastRun]]

LEMMA Numbers ==
  /\ MaxActiveFrames \in Nat /\ MaxActiveFrames > 0 /\ InvalidIndex \in Nat /\ InvalidIndex > 0
  /\ LastRun \in Nat /\ Frame \subseteq Nat /\ Slot \subseteq Nat /\ Index \subseteq Nat
  /\ Index = 0 .. InvalidIndex
BY EngineAssumption DEF Frame, Slot, Index

LEMMA HandlesAre ==
  FS!Handle = [app : Frame, sim : Frame, slot : Slot, gen : Nat \ {0}]
BY DEF FS!Handle, FS!Frame, FS!Slot, Frame, Slot

(* The scheduler's own type invariant speaks of the handles of this run. *)
LEMMA TypesAre ==
  TypeOK <=> SlotsTyped /\ FramesTyped /\ RunTyped /\ HostTyped
<1>1. FS!Slot = Slot /\ FS!Frame = Frame /\ FS!Index = Index /\ FS!State = FrameState
  BY DEF FS!Slot, FS!Frame, FS!Index, FS!State, Slot, Frame, Index, FrameState
<1>2. ASSUME keys \subseteq [run : 1 .. LastRun, frame : FS!Handle]
      PROVE  {k.frame : k \in {x \in keys : x.run = runGeneration}} \subseteq FS!Handle
  BY <1>2
<1>3. [s \in Slot |-> {}] \in [Slot -> SUBSET Frame]
  OBVIOUS
<1>4. TypeOK => SlotsTyped /\ FramesTyped /\ RunTyped /\ HostTyped
  <2>1. TypeOK => SlotsTyped
    BY <1>1 DEF TypeOK, FS!TypeOK, SlotsTyped, FutureState
  <2>2. TypeOK => FramesTyped
    BY DEF TypeOK, FramesTyped, RecordOf, Tasks, Place, Completions
  <2>3. TypeOK => RunTyped /\ HostTyped
    BY DEF TypeOK, RunTyped, HostTyped
  <2>. QED
    BY <2>1, <2>2, <2>3
<1>5. SlotsTyped => FS!TypeOK
  BY <1>1, <1>2, <1>3 DEF SlotsTyped, FS!TypeOK, FutureState
<1>6. SlotsTyped /\ FramesTyped /\ RunTyped /\ HostTyped => TypeOK
  BY <1>5 DEF TypeOK, SlotsTyped, FramesTyped, RunTyped, HostTyped, RecordOf, Tasks, Place,
             Completions
<1>. QED
  BY <1>4, <1>6

-----------------------------------------------------------------------------
(* Frames in slots. *)

(* What is known of a slot that is in use: its record names the frame in it,
   and by that frame one finds the slot. *)
SlotIs(s) ==
  /\ run \in {"RUNNING", "STOPPING"}
  /\ record[s].key \in keys /\ record[s].key.run = runGeneration
  /\ app[s] \in Frame /\ app[s] < nextFrame /\ app[s] % MaxActiveFrames = s
  /\ state[s] # "FREE"
  /\ FrameIn(s).app = app[s] /\ FrameIn(s).sim = app[s] /\ FrameIn(s).slot = s
  /\ FrameIn(s).gen = generation[s]
  /\ KeyOf(app[s]) = record[s].key /\ HandleOf(app[s]) = FrameIn(s) /\ SlotOf(app[s]) = s
  /\ FrameSound(record[s], task[app[s]], completion[app[s]], state[s], gpu[s], draw[s], run)

LEMMA LiveIs ==
  ASSUME EngineInv, NEW s \in Slot, Live(s)
  PROVE  SlotIs(s)
<1>1. run \in {"RUNNING", "STOPPING"}
  <2>1. run \in {"CREATED", "RUNNING", "STOPPING", "STOPPED"}
    BY TypesAre DEF EngineInv, RunTyped
  <2>2. run \in {"CREATED", "STOPPED"} => record[s] = EmptyRecord
    BY DEF EngineInv, RestSound
  <2>. QED
    BY <2>1, <2>2 DEF Live, EmptyRecord
<1>2. record[s].key \in keys /\ record[s].key.run = runGeneration /\ state[s] # "FREE"
      /\ FrameIn(s).app = app[s] /\ FrameIn(s).gen = generation[s]
  <2>1. record[s] \in RecordOf(keys)
    BY TypesAre DEF EngineInv, FramesTyped
  <2>. QED
    BY <2>1 DEF EngineInv, RecordsMatchSlots, Live, RecordOf
<1>3. FrameIn(s) \in FS!Handle
  BY <1>2, TypesAre DEF EngineInv, SlotsTyped, FrameIn
<1>4. app[s] \in Frame
  BY <1>2, <1>3, HandlesAre
<1>5. FrameIn(s).slot = s
  BY DEF EngineInv, SlotsSound
<1>6. FrameIn(s).sim = app[s] /\ FrameIn(s).slot = app[s] % MaxActiveFrames
      /\ app[s] < nextFrame
  BY <1>1, <1>2 DEF EngineInv, KeysSound, FrameIn
<1>7. KeyOf(app[s]) = record[s].key
  <2>1. \A k \in keys : k.run = runGeneration /\ k.frame.app = app[s] => k = record[s].key
    BY <1>2 DEF EngineInv, KeysSound, FrameIn
  <2>. QED
    BY <1>2, <2>1 DEF KeyOf, FrameIn
<1>8. HandleOf(app[s]) = FrameIn(s) /\ SlotOf(app[s]) = s
  BY <1>5, <1>7 DEF HandleOf, SlotOf, FrameIn
<1>9. FrameSound(record[s], task[app[s]], completion[app[s]], state[s], gpu[s], draw[s], run)
  BY DEF EngineInv, SlotsSound
<1>. QED
  BY <1>1, <1>2, <1>4, <1>5, <1>6, <1>7, <1>8, <1>9 DEF SlotIs

(* Different slots hold different frames. *)
LEMMA OneSlot ==
  ASSUME EngineInv, NEW s \in Slot, NEW x \in Slot, Live(s), Live(x), app[s] = app[x]
  PROVE  s = x
BY LiveIs DEF SlotIs

(* A frame is in a slot or dead. *)
LEMMA LiveOrDead ==
  ASSUME EngineInv, NEW f \in Frame, ~ Dead(f)
  PROVE  \E s \in Slot : Live(s) /\ app[s] = f
BY LiveIs DEF SlotIs, Dead

LEMMA LiveFrame ==
  ASSUME EngineInv, NEW s \in Slot, Live(s)
  PROVE  ~ Dead(app[s])
BY LiveIs DEF SlotIs, Dead

LEMMA SlotsHaveTypes ==
  ASSUME EngineInv, NEW s \in Slot
  PROVE  /\ record[s] \in RecordOf(keys) /\ state[s] \in FrameState /\ gpu[s] \in FutureState
         /\ draw[s] \in Index
BY TypesAre DEF EngineInv, SlotsTyped, FramesTyped

LEMMA FramesHaveTypes ==
  ASSUME EngineInv, NEW f \in Frame
  PROVE  task[f] \in Tasks /\ completion[f] \in Completions
BY TypesAre DEF EngineInv, FramesTyped

-----------------------------------------------------------------------------
(* Steps of one frame. *)

(* The frame in slot s comes to be r, t, c, st, g, d. *)
Takes(s, r, t, c, st, g, d) ==
  /\ record' = [record EXCEPT ![s] = r]
  /\ task' = [task EXCEPT ![app[s]] = t]
  /\ completion' = [completion EXCEPT ![app[s]] = c]
  /\ state' = [state EXCEPT ![s] = st]
  /\ gpu' = [gpu EXCEPT ![s] = g]
  /\ draw' = [draw EXCEPT ![s] = d]
  /\ UNCHANGED <<app, generation, update, nextFrame, keys, runGeneration>>

(* The new frame is sound, in its slot, and of this run. *)
Fits(s, r, t, c, st, g, d) ==
  /\ r \in RecordOf(keys) /\ t \in Tasks /\ c \in Completions /\ st \in FrameState
  /\ g \in FutureState /\ d \in Index /\ checkpoint' \in {"UPDATE", "DRAW"}
  /\ r.key = record[s].key /\ st # "FREE"
  /\ run' \in {run, "STOPPING"}
  /\ FrameSound(r, t, c, st, g, d, run')

LEMMA LaterRun ==
  ASSUME NEW r, NEW t, NEW c, NEW st, NEW g, NEW d, NEW rn, NEW rn2 \in {rn, "STOPPING"},
         FrameSound(r, t, c, st, g, d, rn)
  PROVE  FrameSound(r, t, c, st, g, d, rn2)
<1>1. CASE rn2 = rn
  BY <1>1
<1>2. CASE rn2 = "STOPPING"
  <2>1. Begun(r, t, c, st, g, d) /\ GpuSound(st, g) /\ TasksSound(r, t, st, g)
    BY DEF FrameSound
  <2>2. UpdateSound(r, t, c, st, d, rn2)
    BY <1>2 DEF FrameSound, UpdateSound
  <2>3. DrawSound(r, t, st, g, d, rn2)
    BY <1>2 DEF FrameSound, DrawSound
  <2>. QED
    BY <2>1, <2>2, <2>3 DEF FrameSound
<1>. QED
  BY <1>1, <1>2

(* What a step of one frame leaves of all the others. *)
Alone(s, r, t, c, st, g, d) ==
  /\ run \in {"RUNNING", "STOPPING"} /\ run' \in {"RUNNING", "STOPPING"}
  /\ run' = "RUNNING" => run = "RUNNING"
  /\ record'[s] = r /\ task'[app[s]] = t /\ completion'[app[s]] = c /\ state'[s] = st
  /\ gpu'[s] = g /\ draw'[s] = d
  /\ \A x \in Slot : x # s => /\ record'[x] = record[x] /\ state'[x] = state[x]
                              /\ gpu'[x] = gpu[x] /\ draw'[x] = draw[x]
  /\ \A f \in Frame : f # app[s] => task'[f] = task[f] /\ completion'[f] = completion[f]
  /\ \A x \in Slot : x # s /\ Live(x) => app[x] \in Frame /\ app[x] # app[s]
  /\ \A x \in Slot : (Live(x)' <=> Live(x)) /\ FrameIn(x)' = FrameIn(x)
  /\ keys' = keys /\ runGeneration' = runGeneration /\ nextFrame' = nextFrame
  /\ app' = app /\ generation' = generation /\ update' = update

LEMMA FrameAlone ==
  ASSUME EngineInv, NEW s \in Slot, Live(s),
         NEW r, NEW t, NEW c, NEW st, NEW g, NEW d,
         Takes(s, r, t, c, st, g, d), Fits(s, r, t, c, st, g, d)
  PROVE  Alone(s, r, t, c, st, g, d)
<1>1. SlotIs(s)
  BY LiveIs
<1>2. SlotsTyped /\ FramesTyped
  BY TypesAre DEF EngineInv
<1>3. /\ record'[s] = r /\ task'[app[s]] = t /\ completion'[app[s]] = c /\ state'[s] = st
      /\ gpu'[s] = g /\ draw'[s] = d
  BY <1>1, <1>2 DEF Takes, SlotIs, SlotsTyped, FramesTyped
<1>4. ASSUME NEW x \in Slot, x # s
      PROVE  record'[x] = record[x] /\ state'[x] = state[x] /\ gpu'[x] = gpu[x] /\ draw'[x] = draw[x]
  BY <1>2, <1>4 DEF Takes, SlotsTyped, FramesTyped
<1>5. ASSUME NEW f \in Frame, f # app[s]
      PROVE  task'[f] = task[f] /\ completion'[f] = completion[f]
  BY <1>2, <1>5 DEF Takes, FramesTyped
<1>6. \A x \in Slot : record'[x].key = record[x].key
  BY <1>3, <1>4 DEF Fits
<1>7. \A x \in Slot : (Live(x)' <=> Live(x)) /\ FrameIn(x)' = FrameIn(x)
  BY <1>6 DEF Live, FrameIn
<1>8. run \in {"RUNNING", "STOPPING"} /\ run' \in {"RUNNING", "STOPPING"}
      /\ (run' = "RUNNING" => run = "RUNNING")
  BY <1>1 DEF SlotIs, Fits
<1>9. ASSUME NEW x \in Slot, x # s, Live(x)
      PROVE  app[x] \in Frame /\ app[x] # app[s]
  BY <1>9, OneSlot, LiveIs DEF SlotIs
<1>10. /\ keys' = keys /\ runGeneration' = runGeneration /\ nextFrame' = nextFrame
       /\ app' = app /\ generation' = generation /\ update' = update
  BY DEF Takes
<1>. QED
  BY <1>3, <1>4, <1>5, <1>7, <1>8, <1>9, <1>10 DEF Alone

LEMMA FrameTaken ==
  ASSUME EngineInv, NEW s \in Slot, Live(s),
         NEW r, NEW t, NEW c, NEW st, NEW g, NEW d,
         Takes(s, r, t, c, st, g, d), Fits(s, r, t, c, st, g, d)
  PROVE  SlotsTyped' /\ FramesTyped' /\ KeysSound' /\ RecordsMatchSlots' /\ SlotsSound' /\ DeadSound'
<1>1. SlotIs(s)
  BY LiveIs
<1>2. SlotsTyped /\ FramesTyped
  BY TypesAre DEF EngineInv
<1>. DEFINE A == Alone(s, r, t, c, st, g, d)
<1>3. A
  BY FrameAlone
<1>4. /\ record'[s] = r /\ task'[app[s]] = t /\ completion'[app[s]] = c /\ state'[s] = st
      /\ gpu'[s] = g /\ draw'[s] = d
  BY <1>3 DEF Alone
<1>5. ASSUME NEW x \in Slot, x # s
      PROVE  record'[x] = record[x] /\ state'[x] = state[x] /\ gpu'[x] = gpu[x] /\ draw'[x] = draw[x]
  BY <1>3, <1>5 DEF Alone
<1>6. ASSUME NEW f \in Frame, f # app[s]
      PROVE  task'[f] = task[f] /\ completion'[f] = completion[f]
  BY <1>3, <1>6 DEF Alone
<1>7. ASSUME NEW x \in Slot, x # s, Live(x)
      PROVE  task'[app[x]] = task[app[x]] /\ completion'[app[x]] = completion[app[x]]
  BY <1>3, <1>6, <1>7 DEF Alone
<1>8. \A x \in Slot : (Live(x)' <=> Live(x)) /\ FrameIn(x)' = FrameIn(x)
  BY <1>3 DEF Alone
<1>9. /\ keys' = keys /\ runGeneration' = runGeneration /\ nextFrame' = nextFrame
      /\ app' = app /\ generation' = generation /\ update' = update
  BY <1>3 DEF Alone
<1>10. run \in {"RUNNING", "STOPPING"}
  BY <1>3 DEF Alone
<1>11. SlotsTyped'
  BY <1>2, <1>9 DEF SlotsTyped, Takes, Fits
<1>12. FramesTyped'
  BY <1>2, <1>9, <1>1 DEF FramesTyped, Takes, Fits, SlotIs
<1>13. KeysSound'
  BY <1>9, <1>10 DEF EngineInv, KeysSound
<1>14. RecordsMatchSlots'
  <2>1. ASSUME NEW x \in Slot
        PROVE  IF record'[x].key = None
                 THEN state'[x] = "FREE" /\ record'[x] = EmptyRecord
                 ELSE /\ state'[x] # "FREE" /\ record'[x].key.run = runGeneration'
                      /\ FrameIn(x)'.app = app'[x] /\ FrameIn(x)'.gen = generation'[x]
    <3>1. CASE x = s
      BY <3>1, <1>1, <1>4, <1>8, <1>9 DEF SlotIs, Live, Fits
    <3>2. CASE x # s
      <4>1. record'[x] = record[x] /\ state'[x] = state[x]
        BY <3>2, <1>5
      <4>. QED
        BY <4>1, <1>8, <1>9 DEF EngineInv, RecordsMatchSlots
    <3>. QED
      BY <3>1, <3>2
  <2>. QED
    BY <2>1 DEF RecordsMatchSlots
<1>15. SlotsSound'
  <2>1. ASSUME NEW x \in Slot
        PROVE  /\ ~ Live(x) => gpu'[x] = "none" /\ draw'[x] = 0
               /\ Live(x) => /\ FrameSound(record'[x], task'[app[x]], completion'[app[x]],
                                           state'[x], gpu'[x], draw'[x], run')
                             /\ FrameIn(x).slot = x
    <3>1. CASE x = s
      BY <3>1, <1>1, <1>4 DEF SlotIs, Fits
    <3>2. CASE x # s
      <4>1. record'[x] = record[x] /\ state'[x] = state[x] /\ gpu'[x] = gpu[x] /\ draw'[x] = draw[x]
        BY <3>2, <1>5
      <4>2. ~ Live(x) => gpu[x] = "none" /\ draw[x] = 0
        BY DEF EngineInv, SlotsSound
      <4>3. ASSUME Live(x)
            PROVE  FrameSound(record'[x], task'[app[x]], completion'[app[x]],
                                           state'[x], gpu'[x], draw'[x], run')
        <5>1. task'[app[x]] = task[app[x]] /\ completion'[app[x]] = completion[app[x]]
          BY <1>7, <3>2, <4>3
        <5>2. FrameSound(record[x], task[app[x]], completion[app[x]], state[x], gpu[x], draw[x],
                         run)
          BY <4>3, LiveIs DEF SlotIs
        <5>3. run' \in {run, "STOPPING"}
          BY DEF Fits
        <5>4. FrameSound(record[x], task[app[x]], completion[app[x]], state[x], gpu[x], draw[x],
                         run')
          BY <5>2, <5>3, LaterRun
        <5>. QED
          BY <4>1, <5>1, <5>4
      <4>4. Live(x) => FrameIn(x).slot = x
        BY LiveIs DEF SlotIs
      <4>. QED
        BY <4>1, <4>2, <4>3, <4>4
    <3>. QED
      BY <3>1, <3>2
  <2>. QED
    BY <2>1, <1>8, <1>9 DEF SlotsSound
<1>16. DeadSound'
  <2>1. ASSUME NEW f \in Frame, Dead(f)'
        PROVE  /\ task'[f] = NoTasks /\ completion'[f].phase \in {"none", "applied", "finished"}
               /\ f >= nextFrame' => completion'[f] = NoCompletion
    <3>1. Dead(f)
      BY <2>1, <1>8 DEF Dead
    <3>2. f # app[s]
      BY <3>1, LiveFrame
    <3>. QED
      BY <3>1, <3>2, <1>6, <1>9 DEF EngineInv, DeadSound
  <2>. QED
    BY <2>1 DEF DeadSound
<1>. QED
  BY <1>11, <1>12, <1>13, <1>14, <1>15, <1>16

(* A step that leaves the draw signal, and the books of the host but for the
   admission. *)
Becomes(s, r, t, c, st, g) ==
  /\ Takes(s, r, t, c, st, g, draw[s])
  /\ UNCHANGED <<checkpoint, stopInProgress, completedStop, nextDraw, jobs, stopper>>

(* The thread that takes the step: what it does to the run, to the operation
   of the host and to what the host waits for. *)
Conducts ==
  /\ run' \in {run, "STOPPING"} /\ (host'.op = "arm" => run' = run)
  /\ watch' \in {watch, "news"} /\ lastError' \in BOOLEAN
  /\ host' \in [op : {host.op, "none"}, cursor : 0 .. MaxActiveFrames, failed : BOOLEAN]
  /\ host'.op # host.op => host.op = "arm" /\ watch' = "news"

Quiet(t) == \A k \in Kind : t[k] \in {"none"} \cup Terminal

(* The new frame is not further from what others wait for. *)
Follows(s, r, t, c) ==
  /\ r.requested = record[s].requested /\ r.hasUpdate
  /\ record[s].hasUpdate \/ (run = "RUNNING" /\ host'.op # "arm")
  /\ completion[app[s]].phase = "finished" => c.phase = "finished"
  /\ c.phase = "drawing" => host.op \in {"none", "asleep"}
  /\ record[s].hasUpdate /\ Quiet(task[app[s]]) => Quiet(t)

Admits(s, r, t) ==
  \/ /\ admissionOpen' = admissionOpen
     /\ PreExtract(r, t) => PreExtract(record[s], task[app[s]])
     /\ Opened(t) => Opened(task[app[s]])
  \/ /\ admissionOpen' = TRUE /\ watch' = "news"
     /\ ~ PreExtract(r, t) /\ PreExtract(record[s], task[app[s]])

(* The frame a slot of the scheduler is asked for is not one in a slot. *)
LEMMA RoomIsFree ==
  ASSUME EngineInv, NEW s \in Slot, Live(s), state'[s] # "FREE", Room',
         nextFrame' = nextFrame, \A x \in Slot : x # s => state'[x] = state[x]
  PROVE  nextFrame # InvalidIndex /\ state[FS!SlotOf(nextFrame)] = "FREE"
<1>1. nextFrame \in Frame /\ nextFrame # InvalidIndex
  BY TypesAre DEF EngineInv, Room, FS!IndicesLeft, SlotsTyped, Index
<1>2. FS!SlotOf(nextFrame) \in Slot
  BY <1>1, Numbers DEF FS!SlotOf, Slot, Frame
<1>3. state'[FS!SlotOf(nextFrame)] = "FREE"
  BY DEF Room, FS!SlotOf
<1>. QED
  BY <1>1, <1>2, <1>3

LEMMA FrameMoves ==
  ASSUME EngineInv, NEW s \in Slot, Live(s),
         NEW r, NEW t, NEW c, NEW st, NEW g,
         Becomes(s, r, t, c, st, g), Fits(s, r, t, c, st, g, draw[s]), Conducts,
         Follows(s, r, t, c), Admits(s, r, t)
  PROVE  EngineInv'
<1>1. SlotIs(s)
  BY LiveIs
<1>2. RunTyped /\ HostTyped
  BY TypesAre DEF EngineInv
<1>3. Takes(s, r, t, c, st, g, draw[s])
  BY DEF Becomes
<1>4. SlotsTyped' /\ FramesTyped' /\ KeysSound' /\ RecordsMatchSlots' /\ SlotsSound' /\ DeadSound'
  BY <1>3, FrameTaken
<1>5. Alone(s, r, t, c, st, g, draw[s])
  BY <1>3, FrameAlone
<1>6. /\ record'[s] = r /\ task'[app[s]] = t /\ completion'[app[s]] = c /\ state'[s] = st
      /\ gpu'[s] = g
  BY <1>5 DEF Alone
<1>7. ASSUME NEW x \in Slot, x # s
      PROVE  record'[x] = record[x] /\ state'[x] = state[x]
  BY <1>5, <1>7 DEF Alone
<1>8. ASSUME NEW f \in Frame, f # app[s]
      PROVE  task'[f] = task[f] /\ completion'[f] = completion[f]
  BY <1>5, <1>8 DEF Alone
<1>9. ASSUME NEW x \in Slot, x # s, Live(x)
      PROVE  app[x] \in Frame /\ app[x] # app[s]
             /\ task'[app[x]] = task[app[x]] /\ completion'[app[x]] = completion[app[x]]
  BY <1>5, <1>8, <1>9 DEF Alone
<1>10. \A x \in Slot : Live(x)' <=> Live(x)
  BY <1>5 DEF Alone
<1>11. \A x \in Slot : FrameIn(x)' = FrameIn(x)
  BY <1>5 DEF Alone
<1>12. run \in {"RUNNING", "STOPPING"} /\ run' \in {"RUNNING", "STOPPING"}
       /\ (run' = "RUNNING" => run = "RUNNING")
  BY <1>5 DEF Alone
<1>13. /\ keys' = keys /\ runGeneration' = runGeneration /\ nextFrame' = nextFrame /\ app' = app
       /\ stopInProgress' = stopInProgress /\ completedStop' = completedStop
       /\ nextDraw' = nextDraw /\ jobs' = jobs /\ checkpoint' = checkpoint /\ stopper' = stopper
  BY <1>5 DEF Alone, Becomes
<1>14. \A x \in Slot : draw'[x] = draw[x]
  BY <1>5 DEF Alone
<1>15. \A x \in Slot : record'[x].key = record[x].key /\ record'[x].requested = record[x].requested
  BY <1>6, <1>7 DEF Follows, Fits
<1>16. ~ record[s].hasUpdate => run = "RUNNING"
  BY DEF Follows
<1>20. TypeOK'
  <2>1. RunTyped'
    <3>1. admissionOpen' \in BOOLEAN
      BY <1>2 DEF RunTyped, Admits
    <3>. QED
      BY <1>2, <1>12, <1>13, <3>1 DEF RunTyped, Conducts
  <2>2. HostTyped'
    <3>1. host' \in [op : {"none", "begin", "accept", "update", "arm", "asleep"},
                     cursor : 0 .. MaxActiveFrames, failed : BOOLEAN]
      BY <1>2 DEF HostTyped, Conducts
    <3>2. watch' \in {"none", "captured", "refused", "news"}
      BY <1>2 DEF HostTyped, Conducts
    <3>. QED
      BY <1>2, <1>13, <3>1, <3>2 DEF HostTyped
  <2>3. (SlotsTyped /\ FramesTyped /\ RunTyped /\ HostTyped)' => TypeOK'
    BY TypesAre, PTL
  <2>. QED
    BY <1>4, <2>1, <2>2, <2>3
<1>25. CheckpointSound'
  BY <1>10, <1>13, <1>14 DEF EngineInv, CheckpointSound
<1>26. AdmissionSound'
  <2>1. ASSUME NEW x \in Slot, Live(x), PreExtract(record'[x], task'[app[x]])
        PROVE  app[x] + 1 = nextFrame /\ ~ admissionOpen'
    <3>1. CASE x = s
      BY <3>1, <2>1, <1>6 DEF Admits, EngineInv, AdmissionSound
    <3>2. CASE x # s
      <4>1. record'[x] = record[x] /\ task'[app[x]] = task[app[x]]
        BY <3>2, <1>7, <1>9, <2>1
      <4>2. app[x] + 1 = nextFrame /\ ~ admissionOpen
        BY <2>1, <4>1 DEF EngineInv, AdmissionSound
      <4>3. CASE PreExtract(record[s], task[app[s]])
        <5>1. app[s] + 1 = nextFrame
          BY <4>3 DEF EngineInv, AdmissionSound
        <5>2. app[s] \in Nat /\ app[x] \in Nat /\ app[x] # app[s]
          BY <1>9, <3>2, <2>1, <1>1, Numbers DEF SlotIs
        <5>. QED
          BY <5>1, <5>2, <4>2
      <4>4. CASE ~ PreExtract(record[s], task[app[s]])
        BY <4>2, <4>4 DEF Admits
      <4>. QED
        BY <4>3, <4>4
    <3>. QED
      BY <3>1, <3>2
  <2>2. ASSUME ~ admissionOpen', run' = "RUNNING"
        PROVE  \E x \in Slot : Live(x) /\ app[x] + 1 = nextFrame /\ ~ Opened(task'[app[x]])
    <3>1. admissionOpen' = admissionOpen /\ (Opened(t) => Opened(task[app[s]]))
      BY <2>2 DEF Admits
    <3>2. PICK x \in Slot : Live(x) /\ app[x] + 1 = nextFrame /\ ~ Opened(task[app[x]])
      BY <3>1, <2>2, <1>12 DEF EngineInv, AdmissionSound
    <3>3. ~ Opened(task'[app[x]])
      <4>1. CASE x = s
        BY <4>1, <3>1, <3>2, <1>6
      <4>2. CASE x # s
        BY <4>2, <3>2, <1>9
      <4>. QED
        BY <4>1, <4>2
    <3>. QED
      BY <3>2, <3>3
  <2>3. run' = "RUNNING" => DrawCheckpointFollows'
    <3>1. run' = "RUNNING" => DrawCheckpointFollows
      BY <1>12 DEF EngineInv, AdmissionSound
    <3>. QED
      BY <3>1, <1>11, <1>13, <1>15 DEF DrawCheckpointFollows
  <2>. QED
    BY <2>1, <2>2, <2>3, <1>10, <1>13 DEF AdmissionSound
<1>27. HostSound'
  <2>1. host'.op \notin {"none", "asleep"} => \A f \in Frame : completion'[f].phase # "drawing"
    <3>1. ASSUME host'.op \notin {"none", "asleep"}, NEW f \in Frame
          PROVE  completion'[f].phase # "drawing"
      <4>. host.op \notin {"none", "asleep"}
        BY <3>1 DEF Conducts
      <4>1. CASE f = app[s]
        BY <4>1, <1>6 DEF Follows
      <4>2. CASE f # app[s]
        BY <4>2, <1>8 DEF EngineInv, HostSound
      <4>. QED
        BY <4>1, <4>2
    <3>. QED
      BY <3>1
  <2>2. ASSUME host'.op = "arm"
        PROVE  /\ run' = "RUNNING"
               /\ \E x \in Slot : Live(x) /\ app[x] + 1 = nextFrame /\ ~ record'[x].hasUpdate
    <3>1. host.op = "arm" /\ record[s].hasUpdate
      BY <2>2 DEF Conducts, Follows
    <3>2. PICK x \in Slot : Live(x) /\ app[x] + 1 = nextFrame /\ ~ record[x].hasUpdate
      BY <3>1 DEF EngineInv, HostSound
    <3>3. record'[x] = record[x]
      BY <3>1, <3>2, <1>7
    <3>4. run' = "RUNNING"
      BY <2>2, <3>1 DEF EngineInv, HostSound, Conducts
    <3>. QED
      BY <3>2, <3>3, <3>4
  <2>3. host'.op = "asleep" => watch' \in {"refused", "news"}
    BY DEF EngineInv, HostSound, Conducts
  <2>4. ASSUME host'.op \in {"none", "asleep"}, watch' = "refused", run' = "RUNNING",
               admissionOpen', Room'
        PROVE  FALSE
    <3>1. watch = "refused" /\ run = "RUNNING" /\ host.op \in {"none", "asleep"}
      BY <2>4, <1>12 DEF Conducts
    <3>2. admissionOpen
      BY <2>4 DEF Admits
    <3>3. nextFrame # InvalidIndex /\ state[FS!SlotOf(nextFrame)] = "FREE"
      <4>1. state'[s] # "FREE"
        BY <1>6 DEF Fits
      <4>2. \A x \in Slot : x # s => state'[x] = state[x]
        BY <1>7
      <4>. QED
        BY <4>1, <4>2, <2>4, <1>13, RoomIsFree
    <3>4. Room
      BY <3>3, <2>4, <1>13 DEF Room, FS!IndicesLeft
    <3>. QED
      BY <3>1, <3>2, <3>4 DEF EngineInv, HostSound
  <2>. QED
    BY <2>1, <2>2, <2>3, <2>4, <1>10, <1>13 DEF HostSound
<1>28. RestSound'
  BY <1>12 DEF RestSound
<1>29. StoppersSound'
  <2>1. (stopInProgress' => run' = "STOPPING") /\ completedStop' <= runGeneration'
        /\ completedStop' < runGeneration'
    BY <1>12, <1>13 DEF EngineInv, StoppersSound, Conducts
  <2>2. \A p, q \in Stopper : Cleans(p)' /\ Cleans(q)' => p = q
    BY <1>13 DEF EngineInv, StoppersSound, Cleans
  <2>3. ASSUME NEW p \in Stopper
        PROVE  /\ stopper'[p].observed <= runGeneration'
               /\ Cleans(p)' => /\ stopInProgress' /\ stopper'[p].observed = runGeneration'
                                /\ host'.op \in {"none", "asleep"}
               /\ stopper'[p].at = "await" /\ stopper'[p].observed = runGeneration'
                    /\ run' \in {"RUNNING", "STOPPING"} => stopInProgress'
               /\ stopper'[p].at \in {"request", "waitIdle", "waitGpu"} => jobs' = {}
    BY <1>12, <1>13 DEF EngineInv, StoppersSound, Cleans, Conducts
  <2>4. ASSUME NEW p \in Stopper, stopper[p].at \in {"waitIdle", "waitGpu"}
        PROVE  record[s].hasUpdate
    <3>1. stopInProgress
      BY <2>4 DEF EngineInv, StoppersSound, Cleans
    <3>. QED
      BY <3>1, <1>16 DEF EngineInv, StoppersSound
  <2>5. ASSUME NEW p \in Stopper, stopper[p].at \in {"waitIdle", "waitGpu"},
               NEW x \in Slot, record'[x].hasUpdate
        PROVE  completion'[app[x]].phase = "finished"
    <3>1. record[x].hasUpdate
      BY <2>4, <2>5, <1>7
    <3>2. completion[app[x]].phase = "finished"
      BY <2>5, <3>1 DEF EngineInv, StoppersSound
    <3>3. Live(x)
      BY <3>1 DEF EngineInv, RecordsMatchSlots, Live, EmptyRecord
    <3>4. CASE x = s
      BY <3>4, <3>2, <1>6 DEF Follows
    <3>5. CASE x # s
      BY <3>5, <3>2, <3>3, <1>9
    <3>. QED
      BY <3>4, <3>5
  <2>6. ASSUME NEW p \in Stopper, stopper[p].at = "waitGpu"
        PROVE  Idle'
    <3>1. Idle
      BY <2>6 DEF EngineInv, StoppersSound
    <3>2. Quiet(t)
      BY <2>4, <2>6, <3>1, <1>1 DEF Idle, Quiet, Follows, SlotIs
    <3>3. ASSUME NEW f \in Frame, NEW k \in Kind
          PROVE  task'[f][k] \in {"none"} \cup Terminal
      <4>1. CASE f = app[s]
        BY <4>1, <3>2, <1>6 DEF Quiet
      <4>2. CASE f # app[s]
        BY <4>2, <3>1, <1>8 DEF Idle
      <4>. QED
        BY <4>1, <4>2
    <3>. QED
      BY <3>3 DEF Idle
  <2>. QED
    BY <2>1, <2>2, <2>3, <2>5, <2>6, <1>13 DEF StoppersSound
<1>. QED
  BY <1>4, <1>20, <1>25, <1>26, <1>27, <1>28, <1>29 DEF EngineInv

-----------------------------------------------------------------------------
(* What the steps of the tasks make of a sound frame. *)

(* The task that task k of a frame depends on. *)
Before(t, k) ==
  CASE k = "draw" -> "update"
    [] k = "extract" -> "draw"
    [] k = "finish" -> "extract"
    [] k = "prepare" -> IF t["finish"] = "none" THEN "draw" ELSE "finish"
    [] k = "complete" -> "prepare"

(* Task k moves, nothing else. *)
Moved(t, u, k, to) ==
  t \in Tasks /\ u \in Tasks /\ u[k] = to /\ \A j \in Kind : j # k => u[j] = t[j]

(* What is asked of a frame after a step that leaves the admission. *)
Keeps(r, t, r2, t2) ==
  /\ PreExtract(r2, t2) => PreExtract(r, t)
  /\ Opened(t2) => Opened(t)
  /\ Quiet(t) => Quiet(t2)

LEMMA StartsSound ==
  ASSUME NEW r, NEW t, NEW c, NEW st, NEW g, NEW d, NEW rn, NEW k \in Kind \ {"update"}, NEW u,
         FrameSound(r, t, c, st, g, d, rn),
         t[k] = "waiting", t[Before(t, k)] = "completed", Moved(t, u, k, FirstStep(k))
  PROVE  FrameSound(r, u, c, st, g, d, rn) /\ Keeps(r, t, r, u)
<1>1. r.drawTask # "none" /\ r.hasUpdate
  BY DEF FrameSound, DrawSound, Begun, NoTasks
<1>2. UpdateSound(r, u, c, st, d, rn) /\ DrawSound(r, u, st, g, d, rn)
  BY <1>1 DEF FrameSound, UpdateSound, DrawSound, Moved, Kind
<1>3. k = "draw" => FirstStep(k) = "begin" /\ Before(t, k) = "update"
  BY DEF FirstStep, Before
<1>4. k = "extract" => FirstStep(k) = "join" /\ Before(t, k) = "draw"
  BY DEF FirstStep, Before
<1>5. k = "finish" => FirstStep(k) = "open" /\ Before(t, k) = "extract"
  BY DEF FirstStep, Before
<1>6. k = "prepare" => FirstStep(k) = "join" /\ t[Before(t, k)] = Opener(t)
  BY DEF FirstStep, Before, Opener, Extracting
<1>7. k = "complete" => FirstStep(k) = "complete" /\ Before(t, k) = "prepare"
  BY DEF FirstStep, Before
<1>8. k \in {"draw", "extract", "finish", "prepare", "complete"}
  BY DEF Kind
<1>9. ChainsSound(r, u)
  BY <1>1, <1>3, <1>4, <1>5, <1>6, <1>7, <1>8
  DEF FrameSound, TasksSound, ChainsSound, Moved, Kind, Extracting, Preparing, Opener
<1>10. StagesSound(r, u, st, g)
  <2>1. CASE k = "draw"
    BY <2>1, <1>1, <1>3 DEF FrameSound, TasksSound, StagesSound, ChainsSound, Moved, Kind,
         Extracting, Preparing, Opener, Last, Terminal
  <2>2. CASE k = "extract"
    BY <2>2, <1>1, <1>4 DEF FrameSound, TasksSound, StagesSound, ChainsSound, Moved, Kind,
         Extracting, Preparing, Opener, Last, Terminal
  <2>3. CASE k = "finish"
    BY <2>3, <1>1, <1>5 DEF FrameSound, TasksSound, StagesSound, ChainsSound, Moved, Kind,
         Extracting, Preparing, Opener, Last, Terminal
  <2>4. CASE k = "prepare"
    BY <2>4, <1>1, <1>6 DEF FrameSound, TasksSound, StagesSound, ChainsSound, Moved, Kind,
         Extracting, Preparing, Opener, Last, Terminal
  <2>5. CASE k = "complete"
    BY <2>5, <1>1, <1>7 DEF FrameSound, GpuSound, TasksSound, StagesSound, ChainsSound, Moved, Kind,
         Extracting, Preparing, Opener, Last, Terminal
  <2>. QED
    BY <1>8, <2>1, <2>2, <2>3, <2>4, <2>5
<1>11. Keeps(r, t, r, u)
  BY <1>1, <1>3, <1>4, <1>5, <1>6, <1>7, <1>8
  DEF FrameSound, TasksSound, ChainsSound, Moved, Kind, Extracting, Preparing, Opener, Keeps,
      PreExtract, Opened, Quiet, Terminal
<1>. QED
  BY <1>1, <1>2, <1>9, <1>10, <1>11 DEF FrameSound, Begun, TasksSound

LEMMA CancelledSound ==
  ASSUME NEW r, NEW t, NEW c, NEW st, NEW g, NEW d, NEW rn, NEW k \in Kind \ {"update"}, NEW u,
         FrameSound(r, t, c, st, g, d, rn),
         t[k] = "waiting", t[Before(t, k)] \in {"failed", "cancelled"}, Moved(t, u, k, "cancelled")
  PROVE  FrameSound(r, u, c, st, g, d, rn) /\ Keeps(r, t, r, u)
<1>1. r.drawTask # "none" /\ r.hasUpdate
  BY DEF FrameSound, DrawSound, Begun, NoTasks
<1>2. UpdateSound(r, u, c, st, d, rn) /\ DrawSound(r, u, st, g, d, rn)
  BY <1>1 DEF FrameSound, UpdateSound, DrawSound, Moved, Kind
<1>3. (k = "finish" /\ t["extract"] = "failed") \/ (k = "complete" /\ t["prepare"] = "failed")
  BY <1>1 DEF FrameSound, TasksSound, ChainsSound, Before, Kind, UpdateSound, Extracting,
              Preparing, Opener
<1>9. ChainsSound(r, u)
  BY <1>1, <1>3
  DEF FrameSound, TasksSound, ChainsSound, Moved, Kind, Extracting, Preparing, Opener
<1>10. StagesSound(r, u, st, g)
  BY <1>1, <1>3
  DEF FrameSound, TasksSound, StagesSound, ChainsSound, Moved, Kind, Extracting, Preparing,
      Opener, Last, Terminal
<1>11. Keeps(r, t, r, u)
  BY <1>1, <1>3
  DEF FrameSound, TasksSound, ChainsSound, Moved, Kind, Extracting, Preparing, Opener, Keeps,
      PreExtract, Opened, Quiet, Terminal
<1>. QED
  BY <1>1, <1>2, <1>9, <1>10, <1>11 DEF FrameSound, Begun, TasksSound

LEMMA EndsSound ==
  ASSUME NEW r, NEW t, NEW c, NEW st, NEW g, NEW d, NEW rn, NEW k \in Kind, NEW u,
         FrameSound(r, t, c, st, g, d, rn), t[k] \in {"return", "thrown"},
         Moved(t, u, k, IF t[k] = "return" THEN "completed" ELSE "failed")
  PROVE  FrameSound(r, u, c, st, g, d, rn) /\ Keeps(r, t, r, u)
<1>1. r.hasUpdate
  BY DEF FrameSound, Begun, NoTasks
<1>2. k # "update" => r.drawTask # "none"
  BY DEF FrameSound, DrawSound
<1>3. UpdateSound(r, u, c, st, d, rn)
  BY <1>1 DEF FrameSound, UpdateSound, Moved, Kind
<1>4. DrawSound(r, u, st, g, d, rn)
  BY <1>2 DEF FrameSound, DrawSound, Moved, Kind
<1>5. r.drawTask # "none" => ChainsSound(r, u)
  <2>1. CASE t[k] = "return"
    BY <2>1, <1>1 DEF FrameSound, TasksSound, ChainsSound, Moved, Kind, Extracting, Preparing, Opener
  <2>2. CASE t[k] = "thrown"
    BY <2>2, <1>1 DEF FrameSound, TasksSound, ChainsSound, Moved, Kind, Extracting, Preparing, Opener,
      UpdateSound
  <2>. QED
    BY <2>1, <2>2
<1>6. r.drawTask # "none" => StagesSound(r, u, st, g)
  <2>1. CASE t[k] = "return"
    BY <2>1, <1>1 DEF FrameSound, TasksSound, StagesSound, ChainsSound, Moved, Kind, Extracting,
        Preparing, Opener, Last, Terminal
  <2>2. CASE t[k] = "thrown"
    BY <2>2, <1>1 DEF FrameSound, TasksSound, StagesSound, ChainsSound, Moved, Kind, Extracting,
        Preparing, Opener, Last, Terminal
  <2>. QED
    BY <2>1, <2>2
<1>7. Keeps(r, t, r, u)
  <2>1. PreExtract(r, u) => PreExtract(r, t)
    BY DEF PreExtract, Moved, Kind
  <2>2. Opened(u) => Opened(t)
    BY DEF Opened, Moved, Kind, Opener, Extracting, Preparing
  <2>3. Quiet(t) => Quiet(u)
    BY DEF Quiet, Moved, Kind, Terminal
  <2>. QED
    BY <2>1, <2>2, <2>3 DEF Keeps
<1>. QED
  BY <1>1, <1>3, <1>4, <1>5, <1>6, <1>7 DEF FrameSound, Begun, TasksSound

(* The steps of the update task and of its completion. *)
FinishingOf(c, result) ==
  [c EXCEPT !.phase = "finishing", !.outcome = result,
            !.cancel = IF c.cancel = "stored" THEN "dropped" ELSE c.cancel]
PhaseOf(c, to) == [c EXCEPT !.phase = to]
BoundOf(c) == [c EXCEPT !.cancel = IF c.stopping THEN "called" ELSE "stored"]
StoppedOf(c) ==
  [c EXCEPT !.stopping = TRUE, !.cancel = IF c.cancel = "stored" THEN "called" ELSE c.cancel]

LEMMA CompletionsOf ==
  ASSUME NEW c \in Completions, NEW result \in Outcome,
         NEW to \in {"none", "open", "finishing", "drawing", "applied", "finished"}
  PROVE  /\ FinishingOf(c, result) \in Completions
         /\ FinishingOf(c, result).phase = "finishing"
         /\ FinishingOf(c, result).outcome = result
         /\ PhaseOf(c, to) \in Completions /\ PhaseOf(c, to).phase = to
         /\ PhaseOf(c, to).outcome = c.outcome /\ PhaseOf(c, to).cancel = c.cancel
         /\ BoundOf(c) \in Completions /\ BoundOf(c).phase = c.phase
         /\ BoundOf(c).outcome = c.outcome /\ BoundOf(c).cancel \in {"stored", "called"}
         /\ StoppedOf(c) \in Completions /\ StoppedOf(c).phase = c.phase
         /\ StoppedOf(c).outcome = c.outcome
         /\ (c.cancel = "unbound" => StoppedOf(c).cancel = "unbound")
         /\ (c.cancel \in {"stored", "called"} => StoppedOf(c).cancel \in {"stored", "called"})
BY DEF Completions, FinishingOf, PhaseOf, BoundOf, StoppedOf

(* Only the update task moves. *)
LEMMA UpdateMoves ==
  ASSUME NEW r, NEW t, NEW u, NEW to, Moved(t, u, "update", to)
  PROVE  /\ PreExtract(r, u) <=> PreExtract(r, t)
         /\ Opened(u) <=> Opened(t)
         /\ t["update"] \notin {"none"} \cup Terminal => ~ Quiet(t)
         /\ \A k \in Kind \ {"update"} : u[k] = t[k]
<1>1. \A k \in Kind \ {"update"} : u[k] = t[k]
  BY DEF Moved
<1>2. PreExtract(r, u) <=> PreExtract(r, t)
  BY <1>1 DEF PreExtract, Kind
<1>3. Opened(u) <=> Opened(t)
  BY <1>1 DEF Opened, Opener, Extracting, Preparing, Kind
<1>4. t["update"] \notin {"none"} \cup Terminal => ~ Quiet(t)
  BY DEF Quiet, Kind
<1>. QED
  BY <1>1, <1>2, <1>3, <1>4

LEMMA UpdateStartsSound ==
  ASSUME NEW r, NEW t, NEW c \in Completions, NEW st, NEW g, NEW d, NEW rn,
         NEW u, NEW to \in {"run", "finish"}, NEW c2,
         FrameSound(r, t, c, st, g, d, rn), t["update"] = "waiting", Moved(t, u, "update", to),
         \/ to = "run" /\ c2 = c
         \/ to = "finish" /\ \E result \in {"CANCELLED", "FAILED"} : c2 = FinishingOf(c, result)
  PROVE  FrameSound(r, u, c2, st, g, d, rn) /\ Keeps(r, t, r, u) /\ c.phase = "open"
<1>1. r.hasUpdate /\ c.phase = "open" /\ ~ r.succeeded /\ r.drawTask = "none" /\ c.cancel = "unbound"
  BY DEF FrameSound, Begun, NoTasks, UpdateSound, Kind
<1>2. to = "finish" => c2.phase = "finishing" /\ c2.outcome # "COMPLETED"
  BY CompletionsOf DEF Outcome
<1>3. UpdateSound(r, u, c2, st, d, rn)
  BY <1>1, <1>2 DEF FrameSound, UpdateSound, Moved
<1>4. DrawSound(r, u, st, g, d, rn)
  <2>1. \A k \in Kind \ {"update"} : u[k] = t[k]
    BY UpdateMoves
  <2>. QED
    BY <1>1, <2>1 DEF FrameSound, DrawSound
<1>5. Keeps(r, t, r, u)
  BY UpdateMoves DEF Keeps, Terminal
<1>. QED
  BY <1>1, <1>3, <1>4, <1>5 DEF FrameSound, Begun, TasksSound

LEMMA UpdateSchedulesSound ==
  ASSUME NEW r, NEW t, NEW c \in Completions, NEW st, NEW g, NEW d, NEW rn,
         NEW u, NEW to \in {"return", "finish"}, NEW c2,
         FrameSound(r, t, c, st, g, d, rn), t["update"] = "schedule", Moved(t, u, "update", to),
         \/ to = "return" /\ c2 = BoundOf(c)
         \/ to = "finish" /\ \E result \in {"COMPLETED", "FAILED"} : c2 = FinishingOf(c, result)
  PROVE  FrameSound(r, u, c2, st, g, d, rn) /\ Keeps(r, t, r, u) /\ c.phase = "open"
<1>1. r.hasUpdate /\ c.phase = "open" /\ ~ r.succeeded /\ r.drawTask = "none" /\ st = "UPDATING"
  BY DEF FrameSound, Begun, NoTasks, UpdateSound, Kind
<1>2. to = "finish" => c2.phase = "finishing"
  BY CompletionsOf DEF Outcome
<1>3. to = "return" => c2.phase = "open" /\ c2.cancel \in {"stored", "called"}
  BY <1>1, CompletionsOf DEF Outcome
<1>4. UpdateSound(r, u, c2, st, d, rn)
  BY <1>1, <1>2, <1>3 DEF FrameSound, UpdateSound, Moved
<1>5. DrawSound(r, u, st, g, d, rn)
  BY <1>1, UpdateMoves DEF FrameSound, DrawSound
<1>6. Keeps(r, t, r, u)
  BY UpdateMoves DEF Keeps, Terminal
<1>. QED
  BY <1>1, <1>4, <1>5, <1>6 DEF FrameSound, Begun, TasksSound

LEMMA UpdateRunsSound ==
  ASSUME NEW r, NEW t, NEW c \in Completions, NEW st, NEW g, NEW d, NEW rn, NEW u,
         FrameSound(r, t, c, st, g, d, rn), t["update"] = "run",
         Moved(t, u, "update", "schedule")
  PROVE  FrameSound(r, u, c, "UPDATING", g, d, rn) /\ Keeps(r, t, r, u)
<1>1. r.hasUpdate /\ c.phase = "open" /\ ~ r.succeeded /\ r.drawTask = "none"
      /\ st = "WAITING_UPDATE"
  BY DEF FrameSound, Begun, NoTasks, UpdateSound, Kind
<1>2. UpdateSound(r, u, c, "UPDATING", d, rn)
  BY <1>1 DEF FrameSound, UpdateSound, Moved
<1>3. DrawSound(r, u, "UPDATING", g, d, rn) /\ GpuSound("UPDATING", g)
  BY <1>1, UpdateMoves DEF FrameSound, DrawSound, GpuSound
<1>4. Keeps(r, t, r, u)
  BY UpdateMoves DEF Keeps, Terminal
<1>. QED
  BY <1>1, <1>2, <1>3, <1>4 DEF FrameSound, Begun, TasksSound

LEMMA UpdateReturnsSound ==
  ASSUME NEW r, NEW t, NEW c \in Completions, NEW st, NEW g, NEW d, NEW rn, NEW u,
         FrameSound(r, t, c, st, g, d, rn), t["update"] = "finish", c.phase = "finished",
         Moved(t, u, "update", "return")
  PROVE  FrameSound(r, u, c, st, g, d, rn) /\ Keeps(r, t, r, u)
<1>1. r.hasUpdate
  BY DEF FrameSound, Begun, NoTasks, Kind
<1>2. UpdateSound(r, u, c, st, d, rn)
  BY <1>1 DEF FrameSound, UpdateSound, Moved
<1>3. DrawSound(r, u, st, g, d, rn)
  <2>1. \A k \in Kind \ {"update"} : u[k] = t[k]
    BY UpdateMoves
  <2>. QED
    BY <2>1 DEF FrameSound, DrawSound
<1>4. Keeps(r, t, r, u)
  BY UpdateMoves DEF Keeps, Terminal
<1>5. ASSUME r.drawTask # "none"
      PROVE  ChainsSound(r, u) /\ StagesSound(r, u, st, g)
  BY <1>5 DEF FrameSound, TasksSound, ChainsSound, StagesSound, Moved, Kind, Extracting,
              Preparing, Opener, Last
<1>. QED
  BY <1>1, <1>2, <1>3, <1>4, <1>5 DEF FrameSound, Begun, TasksSound

(* The completion goes on without the update task. *)
LEMMA CompletionSound ==
  ASSUME NEW r, NEW t, NEW c \in Completions, NEW st, NEW g, NEW d, NEW rn, NEW c2,
         FrameSound(r, t, c, st, g, d, rn),
         \/ /\ c.phase = "open" /\ c.cancel \in {"stored", "called"}
            /\ \E result \in Outcome : c2 = FinishingOf(c, result)
         \/ c.phase = "applied" /\ c2 = PhaseOf(c, "finished")
         \/ r.hasUpdate /\ c2 = StoppedOf(c)
  PROVE  FrameSound(r, t, c2, st, g, d, rn)
<1>1. r.hasUpdate
  BY DEF FrameSound, Begun, NoCompletion
<1>2. UpdateSound(r, t, c2, st, d, rn)
  <2>1. CASE /\ c.phase = "open" /\ c.cancel \in {"stored", "called"}
             /\ \E result \in Outcome : c2 = FinishingOf(c, result)
    <3>1. c2.phase = "finishing"
      <4>1. PICK result \in Outcome : c2 = FinishingOf(c, result)
        BY <2>1
      <4>2. FinishingOf(c, result).phase = "finishing"
        BY CompletionsOf
      <4>. QED
        BY <4>1, <4>2
    <3>. QED
      BY <1>1, <2>1, <3>1 DEF FrameSound, UpdateSound
  <2>2. CASE c.phase = "applied" /\ c2 = PhaseOf(c, "finished")
    <3>1. c2.phase = "finished"
      BY <2>2, CompletionsOf DEF Outcome
    <3>. QED
      BY <1>1, <2>2, <3>1 DEF FrameSound, UpdateSound
  <2>3. CASE c2 = StoppedOf(c)
    <3>1. c2.phase = c.phase /\ c2.outcome = c.outcome
      BY <2>3, CompletionsOf DEF Outcome
    <3>2. (c.cancel = "unbound" => c2.cancel = "unbound")
          /\ (c.cancel \in {"stored", "called"} => c2.cancel \in {"stored", "called"})
      BY <2>3, CompletionsOf DEF Outcome
    <3>. QED
      BY <1>1, <3>1, <3>2 DEF FrameSound, UpdateSound
  <2>. QED
    BY <2>1, <2>2, <2>3
<1>. QED
  BY <1>1, <1>2 DEF FrameSound, Begun

(* FinishUpdate, when the update succeeded and when it did not. *)
SucceededOf(r) == [r EXCEPT !.succeeded = TRUE]

LEMMA SucceedsSound ==
  ASSUME NEW ks, NEW r \in RecordOf(ks), NEW t, NEW c \in Completions, NEW st, NEW g, NEW d, NEW rn,
         FrameSound(r, t, c, st, g, d, rn), c.phase = "finishing", c.outcome = "COMPLETED",
         NEW to, to = IF r.requested THEN "drawing" ELSE "applied"
  PROVE  /\ FrameSound(SucceededOf(r), t, PhaseOf(c, to), "WAITING_DRAW", g, d, rn)
         /\ Keeps(r, t, SucceededOf(r), t) /\ st = "UPDATING" /\ r.hasUpdate
<1>1. r.hasUpdate /\ ~ r.succeeded /\ st = "UPDATING" /\ r.drawTask = "none" /\ d = 0
  BY DEF FrameSound, Begun, NoCompletion, UpdateSound
<1>2. PhaseOf(c, to).phase = to
  BY CompletionsOf DEF Outcome
<1>3. /\ SucceededOf(r).hasUpdate = r.hasUpdate /\ SucceededOf(r).succeeded = TRUE
      /\ SucceededOf(r).drawTask = r.drawTask /\ SucceededOf(r).requested = r.requested
  BY DEF RecordOf, SucceededOf
<1>4. UpdateSound(SucceededOf(r), t, PhaseOf(c, to), "WAITING_DRAW", d, rn)
  BY <1>1, <1>2, <1>3 DEF FrameSound, UpdateSound
<1>5. DrawSound(SucceededOf(r), t, "WAITING_DRAW", g, d, rn) /\ GpuSound("WAITING_DRAW", g)
  BY <1>1, <1>3 DEF FrameSound, DrawSound, GpuSound
<1>6. Keeps(r, t, SucceededOf(r), t)
  BY <1>3 DEF Keeps, PreExtract
<1>. QED
  BY <1>1, <1>3, <1>4, <1>5, <1>6 DEF FrameSound, Begun, TasksSound

LEMMA FailsSound ==
  ASSUME NEW r, NEW t, NEW c \in Completions, NEW st, NEW g, NEW d, NEW rn,
         FrameSound(r, t, c, st, g, d, rn), c.phase = "finishing"
  PROVE  FrameSound(r, t, PhaseOf(c, "applied"), st, g, d, "STOPPING") /\ r.hasUpdate
<1>1. r.hasUpdate /\ ~ r.succeeded
  BY DEF FrameSound, Begun, NoCompletion, UpdateSound
<1>2. PhaseOf(c, "applied").phase = "applied"
  BY CompletionsOf DEF Outcome
<1>3. UpdateSound(r, t, PhaseOf(c, "applied"), st, d, "STOPPING")
  BY <1>1, <1>2 DEF FrameSound, UpdateSound
<1>4. DrawSound(r, t, st, g, d, "STOPPING")
  BY DEF FrameSound, DrawSound
<1>. QED
  BY <1>1, <1>3, <1>4 DEF FrameSound, Begun

(* The steps of the tasks that draw.  The submitting task starts two more and
   goes on. *)
Chained(t, u, k, join, next) ==
  /\ t \in Tasks /\ u \in Tasks /\ u[join] = "waiting" /\ u[next] = "waiting" /\ u[k] = "record"
  /\ \A j \in Kind : j \notin {k, join, next} => u[j] = t[j]

DrawnStates == {"WAITING_DRAW", "FINALIZE", "SUBMITTED", "GPU_IN_FLIGHT", "COMPLETE"}

LEMMA DrawsOn ==
  ASSUME NEW r, NEW t, NEW c, NEW st, NEW g, NEW d, NEW rn,
         NEW r2, NEW u, NEW st2 \in DrawnStates, NEW g2,
         FrameSound(r, t, c, st, g, d, rn), r.drawTask # "none",
         r2.hasUpdate = r.hasUpdate, r2.requested = r.requested, r2.succeeded = r.succeeded,
         r2.drawTask # "none", u["update"] = t["update"],
         GpuSound(st2, g2), ChainsSound(r2, u), StagesSound(r2, u, st2, g2)
  PROVE  FrameSound(r2, u, c, st2, g2, d, rn)
<1>1. r.hasUpdate /\ r.succeeded /\ r.requested /\ d # 0
  BY DEF FrameSound, DrawSound, Begun
<1>2. UpdateSound(r2, u, c, st2, d, rn)
  <2>1. c.phase \notin {"open", "finishing"} /\ t["update"] \notin {"waiting", "run", "schedule"}
    BY <1>1 DEF FrameSound, UpdateSound
  <2>. QED
    BY <1>1, <2>1 DEF FrameSound, UpdateSound, DrawnStates
<1>3. DrawSound(r2, u, st2, g2, d, rn)
  BY <1>1 DEF DrawSound
<1>4. Begun(r2, u, c, st2, g2, d)
  BY <1>1 DEF Begun
<1>. QED
  BY <1>1, <1>2, <1>3, <1>4 DEF FrameSound, TasksSound

(* A frame with a draw task. *)
LEMMA Drawn ==
  ASSUME NEW r, NEW t, NEW c, NEW st, NEW g, NEW d, NEW rn,
         FrameSound(r, t, c, st, g, d, rn),
         \E k \in Kind \ {"update"} : t[k] # "none"
  PROVE  /\ r.drawTask # "none" /\ r.hasUpdate /\ st \in DrawnStates
         /\ ChainsSound(r, t) /\ StagesSound(r, t, st, g) /\ GpuSound(st, g)
<1>1. r.drawTask # "none"
  BY DEF FrameSound, DrawSound
<1>2. r.succeeded /\ r.hasUpdate
  BY <1>1 DEF FrameSound, DrawSound, Begun
<1>. QED
  BY <1>1, <1>2 DEF FrameSound, UpdateSound, TasksSound, DrawnStates

LEMMA DrawBeginsSound ==
  ASSUME NEW r, NEW t, NEW c, NEW st, NEW g, NEW d, NEW rn, NEW u,
         FrameSound(r, t, c, st, g, d, rn), t["draw"] = "begin", st = "WAITING_DRAW",
         Moved(t, u, "draw", "scheduleExtract")
  PROVE  FrameSound(r, u, c, "FINALIZE", g, d, rn) /\ Keeps(r, t, r, u) /\ r.hasUpdate
<1>1. /\ r.drawTask # "none" /\ r.hasUpdate
      /\ ChainsSound(r, t) /\ StagesSound(r, t, st, g) /\ GpuSound(st, g)
  BY Drawn DEF Kind
<1>2. ChainsSound(r, u)
  BY <1>1 DEF ChainsSound, Moved, Kind, Extracting, Preparing, Opener
<1>3. StagesSound(r, u, "FINALIZE", g)
  BY <1>1 DEF GpuSound, StagesSound, ChainsSound, Moved, Kind, Extracting, Preparing, Opener, Last,
              Terminal
<1>4. GpuSound("FINALIZE", g)
  BY <1>1 DEF GpuSound
<1>5. Keeps(r, t, r, u)
  BY <1>1 DEF Keeps, PreExtract, Opened, Quiet, ChainsSound, Moved, Kind, Extracting, Preparing,
              Opener, Terminal
<1>6. "FINALIZE" \in DrawnStates /\ u["update"] = t["update"]
  BY DEF DrawnStates, Moved, Kind
<1>7. FrameSound(r, u, c, "FINALIZE", g, d, rn)
  BY <1>1, <1>2, <1>3, <1>4, <1>6, DrawsOn
<1>. QED
  BY <1>1, <1>5, <1>7

LEMMA ExtractsSound ==
  ASSUME NEW r, NEW t, NEW c, NEW st, NEW g, NEW d, NEW rn, NEW u,
         FrameSound(r, t, c, st, g, d, rn), t["draw"] = "scheduleExtract",
         \/ Moved(t, u, "draw", "open") \/ Moved(t, u, "draw", "throw")
         \/ Chained(t, u, "draw", "extract", "finish")
  PROVE  FrameSound(r, u, c, st, g, d, rn) /\ Keeps(r, t, r, u) /\ r.hasUpdate
<1>1. /\ r.drawTask # "none" /\ r.hasUpdate /\ st \in DrawnStates
      /\ ChainsSound(r, t) /\ StagesSound(r, t, st, g) /\ GpuSound(st, g)
  BY Drawn DEF Kind
<1>2. ChainsSound(r, u)
  BY <1>1 DEF ChainsSound, Moved, Chained, Kind, Extracting, Preparing, Opener
<1>3. StagesSound(r, u, st, g)
  BY <1>1 DEF GpuSound, StagesSound, ChainsSound, Moved, Chained, Kind, Extracting, Preparing,
              Opener, Last, Terminal
<1>4. Keeps(r, t, r, u)
  BY <1>1 DEF Keeps, PreExtract, Opened, Quiet, ChainsSound, Moved, Chained, Kind, Extracting,
              Preparing, Opener, Terminal
<1>5. u["update"] = t["update"]
  BY DEF Moved, Chained, Kind
<1>6. FrameSound(r, u, c, st, g, d, rn)
  BY <1>1, <1>2, <1>3, <1>5, DrawsOn
<1>. QED
  BY <1>1, <1>4, <1>6

(* The frame may be handed to the GPU. *)
Registers(st, g, st2, g2) ==
  \/ st = "FINALIZE" /\ st2 = "SUBMITTED" /\ g2 \in {"pending", "ready"}
  \/ st2 = st /\ g2 = g

LEMMA DrawsSound ==
  ASSUME NEW r, NEW t, NEW c, NEW st, NEW g, NEW d, NEW rn, NEW u, NEW st2, NEW g2,
         NEW k \in {"draw", "finish"},
         FrameSound(r, t, c, st, g, d, rn), t[k] = "scheduleDraw", Registers(st, g, st2, g2),
         \/ Moved(t, u, k, "complete") \/ Moved(t, u, k, "throw")
         \/ Chained(t, u, k, "prepare", "complete")
  PROVE  FrameSound(r, u, c, st2, g2, d, rn) /\ Keeps(r, t, r, u) /\ r.hasUpdate
<1>1. /\ r.drawTask # "none" /\ r.hasUpdate /\ st \in DrawnStates
      /\ ChainsSound(r, t) /\ StagesSound(r, t, st, g) /\ GpuSound(st, g)
  BY Drawn DEF Kind
<1>2. st = "FINALIZE" /\ g = "none" /\ ~ Preparing(t)
  <2>1. ~ Preparing(t)
    BY <1>1 DEF ChainsSound, Preparing, Opener, Extracting
  <2>2. st = "FINALIZE"
    BY <1>1 DEF StagesSound, ChainsSound, Extracting
  <2>. QED
    BY <1>1, <2>1, <2>2 DEF GpuSound
<1>3. ChainsSound(r, u)
  <2>1. CASE k = "draw"
    BY <1>1, <1>2, <2>1 DEF ChainsSound, Moved, Chained, Kind, Extracting, Preparing, Opener
  <2>2. CASE k = "finish"
    BY <1>1, <1>2, <2>2 DEF ChainsSound, Moved, Chained, Kind, Extracting, Preparing, Opener
  <2>. QED
    BY <2>1, <2>2
<1>4. StagesSound(r, u, st2, g2)
  <2>1. CASE k = "draw"
    BY <1>1, <1>2, <2>1 DEF StagesSound, ChainsSound, Moved, Chained, Kind, Extracting, Preparing,
              Opener, Last, Terminal, Registers
  <2>2. CASE k = "finish"
    BY <1>1, <1>2, <2>2 DEF StagesSound, ChainsSound, Moved, Chained, Kind, Extracting, Preparing,
              Opener, Last, Terminal, Registers
  <2>. QED
    BY <2>1, <2>2
<1>5. Keeps(r, t, r, u)
  BY <1>1, <1>2 DEF Keeps, PreExtract, Opened, Quiet, ChainsSound, Moved, Chained, Kind, Extracting,
              Preparing, Opener, Terminal
<1>6. u["update"] = t["update"]
  BY DEF Moved, Chained, Kind
<1>7. GpuSound(st2, g2) /\ st2 \in DrawnStates
  BY <1>1, <1>2 DEF GpuSound, Registers, DrawnStates
<1>8. FrameSound(r, u, c, st2, g2, d, rn)
  BY <1>1, <1>3, <1>4, <1>6, <1>7, DrawsOn
<1>. QED
  BY <1>1, <1>5, <1>8

LEMMA JoinsSound ==
  ASSUME NEW r, NEW t, NEW c, NEW st, NEW g, NEW d, NEW rn, NEW u, NEW st2, NEW g2,
         NEW k \in {"extract", "prepare"}, NEW to \in {"return", "thrown"},
         FrameSound(r, t, c, st, g, d, rn), t[k] = "join", Moved(t, u, k, to),
         Registers(st, g, st2, g2), k = "extract" \/ g # "none" => st2 = st /\ g2 = g
  PROVE  FrameSound(r, u, c, st2, g2, d, rn) /\ Keeps(r, t, r, u) /\ r.hasUpdate
<1>1. /\ r.drawTask # "none" /\ r.hasUpdate /\ st \in DrawnStates
      /\ ChainsSound(r, t) /\ StagesSound(r, t, st, g) /\ GpuSound(st, g)
  BY Drawn DEF Kind
<1>3. ChainsSound(r, u)
  <2>1. CASE k = "extract"
    BY <1>1, <2>1 DEF ChainsSound, Moved, Kind, Extracting, Preparing, Opener
  <2>2. CASE k = "prepare"
    BY <1>1, <2>2 DEF ChainsSound, Moved, Kind, Extracting, Preparing, Opener
  <2>. QED
    BY <2>1, <2>2
<1>4. StagesSound(r, u, st2, g2)
  <2>1. CASE k = "extract"
    BY <1>1, <2>1 DEF StagesSound, ChainsSound, Moved, Kind, Extracting, Preparing,
              Opener, Last, Terminal, Registers
  <2>2. CASE k = "prepare"
    BY <1>1, <2>2 DEF StagesSound, ChainsSound, Moved, Kind, Extracting, Preparing,
              Opener, Last, Terminal, Registers, GpuSound
  <2>. QED
    BY <2>1, <2>2
<1>5. Keeps(r, t, r, u)
  BY <1>1 DEF Keeps, PreExtract, Opened, Quiet, ChainsSound, Moved, Kind, Extracting,
              Preparing, Opener, Terminal
<1>6. u["update"] = t["update"]
  BY DEF Moved, Kind
<1>7. GpuSound(st2, g2) /\ st2 \in DrawnStates
  BY <1>1 DEF GpuSound, Registers, DrawnStates
<1>8. FrameSound(r, u, c, st2, g2, d, rn)
  BY <1>1, <1>3, <1>4, <1>6, <1>7, DrawsOn
<1>. QED
  BY <1>1, <1>5, <1>8

LEMMA CompletesSound ==
  ASSUME NEW r, NEW t, NEW c, NEW st, NEW g, NEW d, NEW rn, NEW u, NEW st2,
         NEW k \in {"draw", "finish", "complete"},
         FrameSound(r, t, c, st, g, d, rn), t[k] = "complete", Moved(t, u, k, "notify"),
         st2 = IF g = "none" THEN "COMPLETE" ELSE st
  PROVE  /\ FrameSound(r, u, c, st2, g, d, rn) /\ Keeps(r, t, r, u) /\ r.hasUpdate
         /\ g = "none" => st = "FINALIZE"
<1>1. /\ r.drawTask # "none" /\ r.hasUpdate /\ st \in DrawnStates
      /\ ChainsSound(r, t) /\ StagesSound(r, t, st, g) /\ GpuSound(st, g)
  BY Drawn DEF Kind
<1>2. st = IF g = "none" THEN "FINALIZE" ELSE "SUBMITTED"
  BY <1>1 DEF StagesSound, Kind
<1>3. ChainsSound(r, u)
  <2>1. CASE k = "draw"
    BY <1>1, <2>1 DEF ChainsSound, Moved, Kind, Extracting, Preparing, Opener
  <2>2. CASE k = "finish"
    BY <1>1, <2>2 DEF ChainsSound, Moved, Kind, Extracting, Preparing, Opener
  <2>3. CASE k = "complete"
    BY <1>1, <2>3 DEF ChainsSound, Moved, Kind, Extracting, Preparing, Opener
  <2>. QED
    BY <2>1, <2>2, <2>3
<1>4. StagesSound(r, u, st2, g)
  <2>1. CASE k = "draw"
    BY <1>1, <1>2, <2>1 DEF StagesSound, ChainsSound, Moved, Kind, Extracting, Preparing,
              Opener, Last, Terminal
  <2>2. CASE k = "finish"
    BY <1>1, <1>2, <2>2 DEF StagesSound, ChainsSound, Moved, Kind, Extracting, Preparing,
              Opener, Last, Terminal
  <2>3. CASE k = "complete"
    BY <1>1, <1>2, <2>3 DEF StagesSound, ChainsSound, Moved, Kind, Extracting, Preparing,
              Opener, Last, Terminal
  <2>. QED
    BY <2>1, <2>2, <2>3
<1>5. Keeps(r, t, r, u)
  BY <1>1 DEF Keeps, PreExtract, Opened, Quiet, ChainsSound, Moved, Kind, Extracting,
              Preparing, Opener, Terminal
<1>6. u["update"] = t["update"]
  BY DEF Moved, Kind
<1>7. GpuSound(st2, g) /\ st2 \in DrawnStates
  BY <1>1 DEF GpuSound, DrawnStates
<1>8. FrameSound(r, u, c, st2, g, d, rn)
  BY <1>1, <1>3, <1>4, <1>6, <1>7, DrawsOn
<1>. QED
  BY <1>1, <1>2, <1>5, <1>8

LEMMA ThrowsSound ==
  ASSUME NEW r, NEW t, NEW c, NEW st, NEW g, NEW d, NEW rn, NEW u, NEW k \in Kind,
         NEW to \in {"thrown", "return"},
         FrameSound(r, t, c, st, g, d, rn),
         t[k] = IF to = "thrown" THEN "throw" ELSE "notify", Moved(t, u, k, to)
  PROVE  FrameSound(r, u, c, st, g, d, rn) /\ Keeps(r, t, r, u) /\ r.hasUpdate
<1>1. k # "update"
  BY DEF FrameSound, UpdateSound, Begun, NoTasks
<1>2. /\ r.drawTask # "none" /\ r.hasUpdate /\ st \in DrawnStates
      /\ ChainsSound(r, t) /\ StagesSound(r, t, st, g) /\ GpuSound(st, g)
  BY <1>1, Drawn
<1>3. k \in {"draw", "finish", "complete"}
  BY <1>1, <1>2 DEF Kind, ChainsSound, Extracting, Preparing
<1>4. ChainsSound(r, u)
  <2>1. CASE k = "draw"
    BY <1>2, <2>1 DEF ChainsSound, Moved, Kind, Extracting, Preparing, Opener
  <2>2. CASE k = "finish"
    BY <1>2, <2>2 DEF ChainsSound, Moved, Kind, Extracting, Preparing, Opener
  <2>3. CASE k = "complete"
    BY <1>2, <2>3 DEF ChainsSound, Moved, Kind, Extracting, Preparing, Opener
  <2>. QED
    BY <1>3, <2>1, <2>2, <2>3
<1>5. StagesSound(r, u, st, g)
  <2>1. CASE k = "draw"
    BY <1>2, <2>1 DEF StagesSound, ChainsSound, Moved, Kind, Extracting, Preparing,
              Opener, Last, Terminal
  <2>2. CASE k = "finish"
    BY <1>2, <2>2 DEF StagesSound, ChainsSound, Moved, Kind, Extracting, Preparing,
              Opener, Last, Terminal
  <2>3. CASE k = "complete"
    BY <1>2, <2>3 DEF StagesSound, ChainsSound, Moved, Kind, Extracting, Preparing,
              Opener, Last, Terminal
  <2>. QED
    BY <1>3, <2>1, <2>2, <2>3
<1>6. Keeps(r, t, r, u)
  BY <1>2, <1>3 DEF Keeps, PreExtract, Opened, Quiet, ChainsSound, Moved, Kind, Extracting,
              Preparing, Opener, Terminal
<1>7. u["update"] = t["update"]
  BY <1>1 DEF Moved, Kind
<1>8. FrameSound(r, u, c, st, g, d, rn)
  BY <1>2, <1>4, <1>5, <1>7, DrawsOn
<1>. QED
  BY <1>2, <1>6, <1>8

(* The record learns of the task that ends the frame. *)
NamedOf(r, k) == [r EXCEPT !.drawTask = k]

LEMMA NamesSound ==
  ASSUME NEW ks, NEW r \in RecordOf(ks), NEW t, NEW c, NEW st, NEW g, NEW d, NEW rn, NEW u,
         NEW k \in Kind, NEW to, to = IF t["complete"] # "none" THEN "complete" ELSE "finish",
         FrameSound(r, t, c, st, g, d, rn), t[k] = "record", Moved(t, u, k, "return")
  PROVE  /\ FrameSound(NamedOf(r, to), u, c, st, g, d, rn) /\ Keeps(r, t, NamedOf(r, to), u)
         /\ r.hasUpdate
<1>1. k # "update"
  BY DEF FrameSound, UpdateSound, Begun, NoTasks
<1>2. /\ r.drawTask # "none" /\ r.hasUpdate /\ st \in DrawnStates
      /\ ChainsSound(r, t) /\ StagesSound(r, t, st, g) /\ GpuSound(st, g)
  BY <1>1, Drawn
<1>3. k \in {"draw", "finish"}
  BY <1>1, <1>2 DEF Kind, ChainsSound, Extracting, Preparing
<1>4. /\ NamedOf(r, to).hasUpdate = r.hasUpdate /\ NamedOf(r, to).requested = r.requested
      /\ NamedOf(r, to).succeeded = r.succeeded /\ NamedOf(r, to).drawTask = to
  BY DEF NamedOf, RecordOf
<1>5. ChainsSound(NamedOf(r, to), u)
  <2>1. CASE k = "draw"
    BY <1>2, <1>4, <2>1 DEF ChainsSound, Moved, Kind, Extracting, Preparing, Opener
  <2>2. CASE k = "finish"
    BY <1>2, <1>4, <2>2 DEF ChainsSound, Moved, Kind, Extracting, Preparing, Opener
  <2>. QED
    BY <1>3, <2>1, <2>2
<1>6. StagesSound(NamedOf(r, to), u, st, g)
  <2>1. CASE k = "draw"
    BY <1>2, <1>4, <2>1 DEF StagesSound, ChainsSound, Moved, Kind, Extracting, Preparing,
              Opener, Last, Terminal
  <2>2. CASE k = "finish"
    BY <1>2, <1>4, <2>2 DEF StagesSound, ChainsSound, Moved, Kind, Extracting, Preparing,
              Opener, Last, Terminal
  <2>. QED
    BY <1>3, <2>1, <2>2
<1>7. Keeps(r, t, NamedOf(r, to), u)
  BY <1>2, <1>3, <1>4 DEF Keeps, PreExtract, Opened, Quiet, ChainsSound, Moved, Kind, Extracting,
              Preparing, Opener, Terminal
<1>8. u["update"] = t["update"] /\ to # "none"
  BY <1>1 DEF Moved, Kind
<1>9. FrameSound(NamedOf(r, to), u, c, st, g, d, rn)
  BY <1>2, <1>4, <1>5, <1>6, <1>8, DrawsOn
<1>. QED
  BY <1>2, <1>7, <1>9

LEMMA OpensSound ==
  ASSUME NEW r, NEW t, NEW c, NEW st, NEW g, NEW d, NEW rn, NEW u, NEW k \in Kind,
         FrameSound(r, t, c, st, g, d, rn), t[k] = "open", Moved(t, u, k, "scheduleDraw")
  PROVE  /\ FrameSound(r, u, c, st, g, d, rn) /\ r.hasUpdate
         /\ PreExtract(r, t) /\ ~ PreExtract(r, u) /\ ~ Quiet(t)
<1>1. k # "update"
  BY DEF FrameSound, UpdateSound, Begun, NoTasks
<1>2. /\ r.drawTask # "none" /\ r.hasUpdate /\ st \in DrawnStates
      /\ ChainsSound(r, t) /\ StagesSound(r, t, st, g) /\ GpuSound(st, g)
  BY <1>1, Drawn
<1>3. k \in {"draw", "finish"}
  BY <1>1, <1>2 DEF Kind, ChainsSound, Extracting, Preparing
<1>4. ChainsSound(r, u)
  <2>1. CASE k = "draw"
    BY <1>2, <2>1 DEF ChainsSound, Moved, Kind, Extracting, Preparing, Opener
  <2>2. CASE k = "finish"
    BY <1>2, <2>2 DEF ChainsSound, Moved, Kind, Extracting, Preparing, Opener
  <2>. QED
    BY <1>3, <2>1, <2>2
<1>5. StagesSound(r, u, st, g)
  <2>1. CASE k = "draw"
    BY <1>2, <2>1 DEF StagesSound, ChainsSound, Moved, Kind, Extracting, Preparing,
              Opener, Last, Terminal
  <2>2. CASE k = "finish"
    BY <1>2, <2>2 DEF StagesSound, ChainsSound, Moved, Kind, Extracting, Preparing,
              Opener, Last, Terminal
  <2>. QED
    BY <1>3, <2>1, <2>2
<1>6. PreExtract(r, t) /\ ~ PreExtract(r, u)
  BY <1>2, <1>3 DEF PreExtract, ChainsSound, Moved, Kind, Extracting, Preparing, Opener
<1>7. ~ Quiet(t)
  BY DEF Quiet, Terminal
<1>8. u["update"] = t["update"]
  BY <1>1 DEF Moved, Kind
<1>9. FrameSound(r, u, c, st, g, d, rn)
  BY <1>2, <1>4, <1>5, <1>8, DrawsOn
<1>. QED
  BY <1>2, <1>6, <1>7, <1>9

(* When the task that ends the frame has ended, every task of the frame has. *)
LEMMA LastEndsAll ==
  ASSUME NEW r, NEW t, NEW c, NEW st, NEW g, NEW d, NEW rn,
         FrameSound(r, t, c, st, g, d, rn), r.drawTask # "none", t[r.drawTask] \in Terminal
  PROVE  /\ Quiet(t) /\ t["complete"] # "waiting" /\ t["finish"] # "waiting"
         /\ t["draw"] \notin {"waiting", "begin"} /\ r.hasUpdate /\ ~ PreExtract(r, t)
         /\ t[r.drawTask] = "completed" => Last(t) = "completed" /\ Opened(t)
<1>1. ChainsSound(r, t) /\ r.hasUpdate
  BY DEF FrameSound, TasksSound, DrawSound, Begun
<1>2. \/ r.drawTask = "complete" /\ Preparing(t)
      \/ r.drawTask = "finish" /\ Extracting(t) /\ ~ Preparing(t)
      \/ r.drawTask = "draw" /\ ~ Extracting(t) /\ ~ Preparing(t)
  BY <1>1 DEF ChainsSound, Terminal, Extracting, Preparing, Opener
<1>3. CASE r.drawTask = "complete" /\ Preparing(t)
  <2>1. Opener(t) = "completed" /\ t["prepare"] \in {"completed", "failed"}
    BY <1>1, <1>3 DEF ChainsSound, Terminal
  <2>2. Extracting(t) => t["extract"] = "completed"
    BY <1>1, <2>1 DEF ChainsSound, Opener
  <2>3. t["draw"] = "completed" /\ (Extracting(t) => t["finish"] = "completed")
    BY <1>1, <2>1, <2>2 DEF ChainsSound, Opener
  <2>4. t["update"] = "completed"
    BY <1>1, <2>3 DEF ChainsSound
  <2>. QED
    BY <1>1, <1>3, <2>1, <2>2, <2>3, <2>4
    DEF Quiet, Kind, Terminal, PreExtract, Last, Opened, Extracting, Preparing, ChainsSound
<1>4. CASE r.drawTask = "finish" /\ Extracting(t) /\ ~ Preparing(t)
  <2>1. t["draw"] = "completed" /\ t["extract"] \in {"completed", "failed"}
    BY <1>1, <1>4 DEF ChainsSound, Terminal
  <2>2. t["update"] = "completed"
    BY <1>1, <2>1 DEF ChainsSound
  <2>. QED
    BY <1>1, <1>4, <2>1, <2>2
    DEF Quiet, Kind, Terminal, PreExtract, Last, Opened, Opener, Extracting, Preparing, ChainsSound
<1>5. CASE r.drawTask = "draw" /\ ~ Extracting(t) /\ ~ Preparing(t)
  BY <1>1, <1>5
  DEF Quiet, Kind, Terminal, PreExtract, Last, Opened, Opener, Extracting, Preparing, ChainsSound
<1>. QED
  BY <1>2, <1>3, <1>4, <1>5

LEMMA GpuGoesOn ==
  ASSUME NEW r, NEW t, NEW c, NEW st, NEW g, NEW d, NEW rn, NEW st2, NEW g2,
         FrameSound(r, t, c, st, g, d, rn), g # "none",
         \/ st2 = st /\ g = "pending" /\ g2 = "ready"
         \/ /\ g2 = g /\ r.drawTask # "none" /\ t[r.drawTask] \in Terminal
            /\ \/ st = "SUBMITTED" /\ st2 = "GPU_IN_FLIGHT"
               \/ st = "GPU_IN_FLIGHT" /\ st2 = "COMPLETE" /\ g = "ready"
  PROVE  FrameSound(r, t, c, st2, g2, d, rn) /\ r.hasUpdate /\ st2 # "FREE"
<1>1. r.drawTask # "none" /\ r.hasUpdate /\ GpuSound(st, g)
  BY DEF FrameSound, DrawSound, Begun
<1>2. ChainsSound(r, t) /\ StagesSound(r, t, st, g) /\ r.succeeded /\ st \in DrawnStates
  BY <1>1 DEF FrameSound, TasksSound, DrawSound, UpdateSound, DrawnStates
<1>3. g2 # "none" /\ GpuSound(st2, g2) /\ st2 \in DrawnStates
  BY <1>1, <1>2 DEF GpuSound, DrawnStates
<1>4. StagesSound(r, t, st2, g2)
  <2>1. CASE st2 = st
    BY <1>2, <1>3, <2>1 DEF StagesSound
  <2>2. CASE st2 # st
    <3>1. Quiet(t) /\ t["complete"] # "waiting" /\ t["finish"] # "waiting"
          /\ t["draw"] \notin {"waiting", "begin"} /\ t[r.drawTask] \in Terminal
      BY <2>2, <1>1, LastEndsAll
    <3>2. ASSUME NEW k \in Kind
          PROVE  t[k] \notin {"complete", "waiting", "begin", "scheduleExtract", "open", "scheduleDraw"}
      BY <3>1 DEF Quiet, Terminal
    <3>3. Extracting(t) => t["finish"] # "cancelled"
      BY <1>1, <1>2, <2>2 DEF StagesSound, GpuSound
    <3>. QED
      BY <2>2, <3>1, <3>2, <3>3, <1>2, <1>3 DEF StagesSound, Kind
  <2>. QED
    BY <2>1, <2>2
<1>5. FrameSound(r, t, c, st2, g2, d, rn)
  BY <1>1, <1>2, <1>3, <1>4, DrawsOn
<1>. QED
  BY <1>1, <1>3, <1>5 DEF DrawnStates

-----------------------------------------------------------------------------
(* The steps of the workers. *)

Put(t, k, to) == [t EXCEPT ![k] = to]
PutChain(t, k, join, next) == [t EXCEPT ![join] = "waiting", ![next] = "waiting", ![k] = "record"]

LEMMA Stays ==
  ASSUME EngineInv, NEW s \in Slot, Live(s)
  PROVE  /\ record = [record EXCEPT ![s] = record[s]]
         /\ task = [task EXCEPT ![app[s]] = task[app[s]]]
         /\ completion = [completion EXCEPT ![app[s]] = completion[app[s]]]
         /\ state = [state EXCEPT ![s] = state[s]]
         /\ gpu = [gpu EXCEPT ![s] = gpu[s]]
         /\ draw = [draw EXCEPT ![s] = draw[s]]
BY TypesAre DEF EngineInv, SlotsTyped, FramesTyped

LEMMA PutIs ==
  ASSUME NEW t \in Tasks, NEW k \in Kind, NEW to \in Place
  PROVE  Put(t, k, to) \in Tasks /\ Moved(t, Put(t, k, to), k, to)
BY DEF Put, Moved, Tasks

LEMMA PutChainIs ==
  ASSUME NEW t \in Tasks, NEW k \in {"draw", "finish"},
         NEW join, NEW next,
         <<join, next>> \in {<<"extract", "finish">>, <<"prepare", "complete">>}, next # k
  PROVE  /\ PutChain(t, k, join, next) \in Tasks
         /\ Chained(t, PutChain(t, k, join, next), k, join, next)
<1>1. join \in Kind /\ next \in Kind /\ k \in Kind /\ k # join /\ k # next /\ join # next
  BY DEF Kind
<1>. QED
  BY <1>1 DEF PutChain, Chained, Tasks, Place

LEMMA MoveIs ==
  ASSUME EngineInv, NEW f \in Frame, NEW k \in Kind, NEW to, Move(f, k, to)
  PROVE  task' = [task EXCEPT ![f] = Put(task[f], k, to)]
BY TypesAre DEF EngineInv, FramesTyped, Move, Put

LEMMA ChainIs ==
  ASSUME EngineInv, NEW f \in Frame, NEW k, NEW join, NEW next, Chain(f, k, join, next)
  PROVE  task' = [task EXCEPT ![f] = PutChain(task[f], k, join, next)]
BY TypesAre DEF EngineInv, FramesTyped, Chain, PutChain

LEMMA CompletionIs ==
  ASSUME EngineInv, NEW f \in Frame, NEW x
  PROVE  /\ EnterPhase(f, x) => completion' = [completion EXCEPT ![f] = PhaseOf(completion[f], x)]
         /\ BeginFinish(f, x) =>
              completion' = [completion EXCEPT ![f] = FinishingOf(completion[f], x)]
         /\ BindCancellation(f) => completion' = [completion EXCEPT ![f] = BoundOf(completion[f])]
         /\ RequestStop(f) => completion' = [completion EXCEPT ![f] = StoppedOf(completion[f])]
<1>1. completion \in [Frame -> Completions]
  BY TypesAre DEF EngineInv, FramesTyped
<1>2. EnterPhase(f, x) => completion' = [completion EXCEPT ![f] = PhaseOf(completion[f], x)]
  BY <1>1 DEF EnterPhase, PhaseOf
<1>3. BeginFinish(f, x) => completion' = [completion EXCEPT ![f] = FinishingOf(completion[f], x)]
  BY <1>1 DEF BeginFinish, FinishingOf, Completions
<1>4. BindCancellation(f) => completion' = [completion EXCEPT ![f] = BoundOf(completion[f])]
  BY <1>1 DEF BindCancellation, BoundOf, Bound
<1>5. RequestStop(f) => completion' = [completion EXCEPT ![f] = StoppedOf(completion[f])]
  BY <1>1 DEF RequestStop, StoppedOf, Completions
<1>. QED
  BY <1>2, <1>3, <1>4, <1>5

(* The thread that takes the step leaves the host alone. *)
LEMMA ConductsIs ==
  ASSUME EngineInv, UNCHANGED host, watch' \in {watch, "news"},
         \/ UNCHANGED <<run, lastError>>
         \/ run' = "STOPPING" /\ lastError' \in BOOLEAN /\ host.op # "arm"
  PROVE  Conducts
<1>1. HostTyped /\ RunTyped
  BY TypesAre DEF EngineInv
<1>2. host' \in [op : {host.op}, cursor : 0 .. MaxActiveFrames, failed : BOOLEAN]
  BY <1>1 DEF HostTyped
<1>3. run' \in {run, "STOPPING"} /\ (host.op = "arm" => run' = run) /\ lastError' \in BOOLEAN
  BY <1>1 DEF RunTyped
<1>. QED
  BY <1>2, <1>3 DEF Conducts

LEMMA Moves ==
  ASSUME EngineInv, NEW s \in Slot, Live(s),
         NEW r \in RecordOf(keys), NEW t \in Tasks, NEW c \in Completions,
         NEW st \in FrameState, NEW g \in FutureState,
         Becomes(s, r, t, c, st, g), Conducts, UNCHANGED admissionOpen,
         r.key = record[s].key, r.requested = record[s].requested,
         record[s].hasUpdate, r.hasUpdate,
         FrameSound(r, t, c, st, g, draw[s], run),
         Keeps(record[s], task[app[s]], r, t),
         completion[app[s]].phase = "finished" => c.phase = "finished",
         c.phase = "drawing" => completion[app[s]].phase = "drawing" \/ MutexFree
  PROVE  EngineInv'
<1>1. SlotIs(s)
  BY LiveIs
<1>2. st # "FREE"
  BY DEF FrameSound, UpdateSound
<1>3. c.phase = "drawing" => host.op \in {"none", "asleep"}
  BY <1>1 DEF EngineInv, HostSound, MutexFree, SlotIs
<1>4. FrameSound(r, t, c, st, g, draw[s], run')
  <2>1. run' \in {run, "STOPPING"}
    BY DEF Conducts
  <2>. QED
    BY <2>1, LaterRun
<1>5. Fits(s, r, t, c, st, g, draw[s])
  <2>1. draw[s] \in Index /\ checkpoint \in {"UPDATE", "DRAW"}
    BY TypesAre DEF EngineInv, SlotsTyped
  <2>. QED
    BY <1>2, <1>4, <2>1 DEF Fits, Becomes, Conducts
<1>6. Follows(s, r, t, c)
  BY <1>3 DEF Follows, Keeps
<1>7. Admits(s, r, t)
  BY DEF Admits, Keeps
<1>. QED
  BY <1>5, <1>6, <1>7, FrameMoves

localRest == <<frames, run, pastRuns, record, admission, lastError, host, watch, jobs, stopper>>

LEMMA LocalMoves ==
  ASSUME EngineInv, NEW s \in Slot, Live(s), NEW t \in Tasks, NEW c \in Completions,
         task' = [task EXCEPT ![app[s]] = t], completion' = [completion EXCEPT ![app[s]] = c],
         UNCHANGED localRest, record[s].hasUpdate,
         FrameSound(record[s], t, c, state[s], gpu[s], draw[s], run),
         Keeps(record[s], task[app[s]], record[s], t),
         completion[app[s]].phase = "finished" => c.phase = "finished",
         c.phase = "drawing" => completion[app[s]].phase = "drawing"
  PROVE  EngineInv'
<1>1. Becomes(s, record[s], t, c, state[s], gpu[s])
  BY Stays DEF Becomes, Takes, localRest, frames, admission, pastRuns
<1>2. Conducts /\ UNCHANGED admissionOpen
  BY ConductsIs DEF localRest, admission
<1>3. /\ record[s] \in RecordOf(keys) /\ state[s] \in FrameState /\ gpu[s] \in FutureState
  BY SlotsHaveTypes
<1>. QED
  BY <1>1, <1>2, <1>3, Moves

(* What a slot in use gives the lemmas on sound frames. *)
LEMMA FrameIs ==
  ASSUME EngineInv, NEW s \in Slot, Live(s)
  PROVE  /\ app[s] \in Frame
         /\ record[s] \in RecordOf(keys) /\ task[app[s]] \in Tasks
         /\ completion[app[s]] \in Completions
         /\ FrameSound(record[s], task[app[s]], completion[app[s]], state[s], gpu[s], draw[s], run)
         /\ task[app[s]] # NoTasks \/ completion[app[s]].phase # "none" => record[s].hasUpdate
<1>1. SlotIs(s)
  BY LiveIs
<1>2. app[s] \in Frame
  BY <1>1 DEF SlotIs
<1>3. FrameSound(record[s], task[app[s]], completion[app[s]], state[s], gpu[s], draw[s], run)
  BY <1>1 DEF SlotIs
<1>4. task[app[s]] # NoTasks \/ completion[app[s]].phase # "none" => record[s].hasUpdate
  BY <1>3 DEF FrameSound, Begun, NoCompletion
<1>. QED
  BY <1>2, <1>3, <1>4, SlotsHaveTypes, FramesHaveTypes

LEMMA HasUpdate ==
  ASSUME EngineInv, NEW s \in Slot, Live(s), NEW k \in Kind, task[app[s]][k] # "none"
  PROVE  record[s].hasUpdate
BY FrameIs DEF NoTasks

LEMMA KeepsSame ==
  ASSUME NEW r, NEW t
  PROVE  Keeps(r, t, r, t)
BY DEF Keeps

LEMMA TasksMove ==
  ASSUME EngineInv, NEW s \in Slot, Live(s), UNCHANGED localRest, NEW k \in Kind,
         TaskStarts(app[s], k) \/ TaskIsCancelled(app[s], k) \/ TaskEnds(app[s], k)
  PROVE  EngineInv'
<1>1. /\ app[s] \in Frame /\ record[s] \in RecordOf(keys) /\ task[app[s]] \in Tasks
      /\ completion[app[s]] \in Completions
      /\ FrameSound(record[s], task[app[s]], completion[app[s]], state[s], gpu[s], draw[s], run)
  BY FrameIs
<1>2. completion' = [completion EXCEPT ![app[s]] = completion[app[s]]]
  BY Stays DEF TaskStarts, TaskIsCancelled, TaskEnds
<1>3. record[s].hasUpdate
  <2>1. task[app[s]][k] # "none"
    BY DEF TaskStarts, TaskIsCancelled, TaskEnds
  <2>. QED
    BY <2>1, HasUpdate
<1>4. ASSUME NEW to \in Place, Move(app[s], k, to),
             FrameSound(record[s], Put(task[app[s]], k, to), completion[app[s]], state[s], gpu[s],
                        draw[s], run),
             Keeps(record[s], task[app[s]], record[s], Put(task[app[s]], k, to))
      PROVE  EngineInv'
  <2>1. task' = [task EXCEPT ![app[s]] = Put(task[app[s]], k, to)]
    BY <1>1, <1>4, MoveIs
  <2>2. Put(task[app[s]], k, to) \in Tasks
    BY <1>1, PutIs
  <2>. QED
    BY <1>1, <1>2, <1>3, <1>4, <2>1, <2>2, LocalMoves
<1>5. k \in Kind \ {"update"} => Prerequisite(app[s], k) = Before(task[app[s]], k)
  BY DEF Prerequisite, Before, Kind
<1>6. ASSUME NEW to \in Place
      PROVE  Moved(task[app[s]], Put(task[app[s]], k, to), k, to)
  BY <1>1, PutIs
<1>7. CASE TaskStarts(app[s], k)
  <2>1. k \in Kind \ {"update"} /\ task[app[s]][k] = "waiting"
        /\ task[app[s]][Before(task[app[s]], k)] = "completed" /\ Move(app[s], k, FirstStep(k))
    BY <1>5, <1>7 DEF TaskStarts
  <2>2. FirstStep(k) \in Place
    BY <2>1 DEF FirstStep, Place, Kind
  <2>3. FrameSound(record[s], Put(task[app[s]], k, FirstStep(k)), completion[app[s]], state[s],
                   gpu[s], draw[s], run)
        /\ Keeps(record[s], task[app[s]], record[s], Put(task[app[s]], k, FirstStep(k)))
    BY <1>1, <1>6, <2>1, <2>2, StartsSound
  <2>. QED
    BY <1>4, <2>1, <2>2, <2>3
<1>8. CASE TaskIsCancelled(app[s], k)
  <2>1. k \in Kind \ {"update"} /\ task[app[s]][k] = "waiting"
        /\ task[app[s]][Before(task[app[s]], k)] \in {"failed", "cancelled"}
        /\ Move(app[s], k, "cancelled")
    BY <1>5, <1>8 DEF TaskIsCancelled
  <2>2. "cancelled" \in Place
    BY DEF Place, Terminal
  <2>3. FrameSound(record[s], Put(task[app[s]], k, "cancelled"), completion[app[s]], state[s],
                   gpu[s], draw[s], run)
        /\ Keeps(record[s], task[app[s]], record[s], Put(task[app[s]], k, "cancelled"))
    BY <1>1, <1>6, <2>1, <2>2, CancelledSound
  <2>. QED
    BY <1>4, <2>1, <2>2, <2>3
<1>9. CASE TaskEnds(app[s], k)
  <2>. DEFINE to == IF task[app[s]][k] = "return" THEN "completed" ELSE "failed"
  <2>1. task[app[s]][k] \in {"return", "thrown"} /\ Move(app[s], k, to)
    BY <1>9 DEF TaskEnds
  <2>2. to \in Place
    BY DEF Place, Terminal
  <2>3. Moved(task[app[s]], Put(task[app[s]], k, to), k, to)
    BY <1>6, <2>2
  <2>4. FrameSound(record[s], Put(task[app[s]], k, to), completion[app[s]], state[s],
                   gpu[s], draw[s], run)
        /\ Keeps(record[s], task[app[s]], record[s], Put(task[app[s]], k, to))
    BY <1>1, <2>1, <2>3, EndsSound
  <2>. QED
    BY <1>4, <2>1, <2>2, <2>4
<1>. QED
  BY <1>7, <1>8, <1>9

LEMMA UpdateTaskMoves ==
  ASSUME EngineInv, NEW s \in Slot, Live(s), UNCHANGED localRest,
         \/ UpdateStarts(app[s]) \/ ScheduleUpdate(app[s])
         \/ UpdateFinished(app[s]) \/ UpdateReturns(app[s])
  PROVE  EngineInv'
<1>. DEFINE f == app[s]
            Sound(t, c) == FrameSound(record[s], t, c, state[s], gpu[s], draw[s], run)
<1>1. /\ f \in Frame /\ task[f] \in Tasks /\ completion[f] \in Completions
      /\ Sound(task[f], completion[f])
      /\ task[f] # NoTasks \/ completion[f].phase # "none" => record[s].hasUpdate
  BY FrameIs
<1>2. task = [task EXCEPT ![f] = task[f]] /\ completion = [completion EXCEPT ![f] = completion[f]]
  BY Stays
<1>3. record[s].hasUpdate
  <2>1. task[f]["update"] # "none" \/ completion[f].phase # "none"
    BY DEF UpdateStarts, ScheduleUpdate, UpdateFinished, UpdateReturns
  <2>. QED
    BY <1>1, <2>1 DEF NoTasks, Kind
<1>4. ASSUME NEW to \in Place, Move(f, "update", to)
      PROVE  /\ Put(task[f], "update", to) \in Tasks
             /\ Moved(task[f], Put(task[f], "update", to), "update", to)
             /\ task' = [task EXCEPT ![f] = Put(task[f], "update", to)]
  <2>1. "update" \in Kind
    BY DEF Kind
  <2>. QED
    BY <1>1, <1>4, <2>1, PutIs, MoveIs
<1>5. {"run", "finish", "return"} \subseteq Place
  BY DEF Place
<1>6. ASSUME NEW t \in Tasks, NEW c \in Completions,
             task' = [task EXCEPT ![f] = t], completion' = [completion EXCEPT ![f] = c],
             Sound(t, c), Keeps(record[s], task[f], record[s], t),
             completion[f].phase = "finished" => c.phase = "finished",
             c.phase = "drawing" => completion[f].phase = "drawing"
      PROVE  EngineInv'
  BY <1>3, <1>6, LocalMoves
<1>7. CASE UpdateStarts(f)
  <2>1. CASE Move(f, "update", "run") /\ UNCHANGED completion
    <3>1. Sound(Put(task[f], "update", "run"), completion[f])
          /\ Keeps(record[s], task[f], record[s], Put(task[f], "update", "run"))
      BY <1>1, <1>4, <1>5, <1>7, <2>1, UpdateStartsSound DEF UpdateStarts
    <3>. QED
      BY <1>1, <1>2, <1>4, <1>5, <1>6, <2>1, <3>1
  <2>2. ASSUME NEW result \in {"CANCELLED", "FAILED"}, Move(f, "update", "finish"),
               BeginFinish(f, result)
        PROVE  EngineInv'
    <3>1. completion' = [completion EXCEPT ![f] = FinishingOf(completion[f], result)]
      BY <1>1, <2>2, CompletionIs
    <3>2. Sound(Put(task[f], "update", "finish"), FinishingOf(completion[f], result))
          /\ Keeps(record[s], task[f], record[s], Put(task[f], "update", "finish"))
          /\ completion[f].phase = "open"
      <4>1. task[f]["update"] = "waiting"
        BY <1>7 DEF UpdateStarts
      <4>2. Moved(task[f], Put(task[f], "update", "finish"), "update", "finish")
        BY <1>4, <1>5, <2>2
      <4>. DEFINE c == FinishingOf(completion[f], result)
                  t == Put(task[f], "update", "finish")
      <4>3. \E x \in {"CANCELLED", "FAILED"} : c = FinishingOf(completion[f], x)
        BY <2>2
      <4>5. Moved(task[f], t, "update", "finish")
        BY <4>2
      <4>. HIDE DEF c, t
      <4>4. FrameSound(record[s], t, c, state[s], gpu[s], draw[s], run)
            /\ Keeps(record[s], task[f], record[s], t) /\ completion[f].phase = "open"
        BY <1>1, <4>1, <4>5, <4>3, UpdateStartsSound
      <4>. QED
        BY <4>4 DEF c, t
    <3>3. FinishingOf(completion[f], result) \in Completions
          /\ FinishingOf(completion[f], result).phase = "finishing"
      BY <1>1, CompletionsOf DEF Outcome
    <3>. QED
      BY <1>4, <1>5, <1>6, <2>2, <3>1, <3>2, <3>3
  <2>. QED
    BY <1>7, <2>1, <2>2 DEF UpdateStarts
<1>8. CASE ScheduleUpdate(f)
  <2>1. ASSUME NEW result \in {"COMPLETED", "FAILED"}, Move(f, "update", "finish"),
               BeginFinish(f, result)
        PROVE  EngineInv'
    <3>1. completion' = [completion EXCEPT ![f] = FinishingOf(completion[f], result)]
      BY <1>1, <2>1, CompletionIs
    <3>2. Sound(Put(task[f], "update", "finish"), FinishingOf(completion[f], result))
          /\ Keeps(record[s], task[f], record[s], Put(task[f], "update", "finish"))
          /\ completion[f].phase = "open"
      <4>1. task[f]["update"] = "schedule"
        BY <1>8 DEF ScheduleUpdate
      <4>2. Moved(task[f], Put(task[f], "update", "finish"), "update", "finish")
        BY <1>4, <1>5, <2>1
      <4>. DEFINE c == FinishingOf(completion[f], result)
                  t == Put(task[f], "update", "finish")
      <4>3. \E x \in {"COMPLETED", "FAILED"} : c = FinishingOf(completion[f], x)
        BY <2>1
      <4>5. Moved(task[f], t, "update", "finish")
        BY <4>2
      <4>. HIDE DEF c, t
      <4>4. FrameSound(record[s], t, c, state[s], gpu[s], draw[s], run)
            /\ Keeps(record[s], task[f], record[s], t) /\ completion[f].phase = "open"
        BY <1>1, <4>1, <4>5, <4>3, UpdateSchedulesSound
      <4>. QED
        BY <4>4 DEF c, t
    <3>3. FinishingOf(completion[f], result) \in Completions
          /\ FinishingOf(completion[f], result).phase = "finishing"
      BY <1>1, CompletionsOf DEF Outcome
    <3>. QED
      BY <1>4, <1>5, <1>6, <2>1, <3>1, <3>2, <3>3
  <2>2. CASE Move(f, "update", "return") /\ BindCancellation(f)
    <3>1. completion' = [completion EXCEPT ![f] = BoundOf(completion[f])]
      BY <1>1, <2>2, CompletionIs
    <3>2. Sound(Put(task[f], "update", "return"), BoundOf(completion[f]))
          /\ Keeps(record[s], task[f], record[s], Put(task[f], "update", "return"))
          /\ completion[f].phase = "open"
      <4>1. task[f]["update"] = "schedule"
        BY <1>8 DEF ScheduleUpdate
      <4>2. Moved(task[f], Put(task[f], "update", "return"), "update", "return")
        BY <1>4, <1>5, <2>2
      <4>. QED
        BY <1>1, <4>1, <4>2, UpdateSchedulesSound
    <3>3. BoundOf(completion[f]) \in Completions /\ BoundOf(completion[f]).phase = completion[f].phase
      BY <1>1, CompletionsOf DEF Outcome
    <3>. QED
      BY <1>4, <1>5, <1>6, <2>2, <3>1, <3>2, <3>3
  <2>. QED
    BY <1>8, <2>1, <2>2 DEF ScheduleUpdate
<1>9. CASE UpdateFinished(f)
  <2>1. completion' = [completion EXCEPT ![f] = PhaseOf(completion[f], "finished")]
        /\ completion[f].phase = "applied" /\ task' = [task EXCEPT ![f] = task[f]]
    BY <1>1, <1>2, <1>9, CompletionIs DEF UpdateFinished
  <2>2. Sound(task[f], PhaseOf(completion[f], "finished"))
    BY <1>1, <2>1, CompletionSound
  <2>3. PhaseOf(completion[f], "finished") \in Completions
        /\ PhaseOf(completion[f], "finished").phase = "finished"
    BY <1>1, CompletionsOf DEF Outcome
  <2>. QED
    BY <1>1, <1>6, <2>1, <2>2, <2>3, KeepsSame
<1>10. CASE UpdateReturns(f)
  <2>1. Move(f, "update", "return") /\ completion' = [completion EXCEPT ![f] = completion[f]]
    BY <1>2, <1>10 DEF UpdateReturns
  <2>2. Sound(Put(task[f], "update", "return"), completion[f])
        /\ Keeps(record[s], task[f], record[s], Put(task[f], "update", "return"))
    BY <1>1, <1>4, <1>5, <1>10, <2>1, UpdateReturnsSound DEF UpdateReturns
  <2>. QED
    BY <1>1, <1>4, <1>5, <1>6, <2>1, <2>2
<1>. QED
  BY <1>7, <1>8, <1>9, <1>10

LEMMA ExtractionMoves ==
  ASSUME EngineInv, NEW s \in Slot, Live(s), UNCHANGED localRest, ScheduleExtract(app[s])
  PROVE  EngineInv'
<1>. DEFINE f == app[s]
<1>1. /\ f \in Frame /\ task[f] \in Tasks /\ completion[f] \in Completions
      /\ FrameSound(record[s], task[f], completion[f], state[s], gpu[s], draw[s], run)
  BY FrameIs
<1>2. task[f]["draw"] = "scheduleExtract" /\ completion' = [completion EXCEPT ![f] = completion[f]]
  BY Stays DEF ScheduleExtract
<1>3. PICK t \in Tasks : /\ task' = [task EXCEPT ![f] = t]
                         /\ \/ Moved(task[f], t, "draw", "open") \/ Moved(task[f], t, "draw", "throw")
                            \/ Chained(task[f], t, "draw", "extract", "finish")
  <2>0. "draw" \in Kind /\ "open" \in Place /\ "throw" \in Place
    BY DEF Kind, Place
  <2>1. CASE Move(f, "draw", "open")
    BY <1>1, <2>0, <2>1, MoveIs, PutIs
  <2>2. CASE Move(f, "draw", "throw")
    BY <1>1, <2>0, <2>2, MoveIs, PutIs
  <2>3. CASE Chain(f, "draw", "extract", "finish")
    BY <1>1, <2>0, <2>3, ChainIs, PutChainIs
  <2>. QED
    BY <2>1, <2>2, <2>3 DEF ScheduleExtract
<1>4. FrameSound(record[s], t, completion[f], state[s], gpu[s], draw[s], run)
      /\ Keeps(record[s], task[f], record[s], t) /\ record[s].hasUpdate
  BY <1>1, <1>2, <1>3, ExtractsSound
<1>. QED
  BY <1>1, <1>2, <1>3, <1>4, LocalMoves

LEMMA SimulationMoves ==
  ASSUME EngineInv, NEW s \in Slot, Live(s), SimulationEnds(app[s])
  PROVE  EngineInv'
<1>. DEFINE f == app[s]
<1>1. /\ f \in Frame /\ task[f] \in Tasks /\ completion[f] \in Completions
      /\ FrameSound(record[s], task[f], completion[f], state[s], gpu[s], draw[s], run)
      /\ completion[f].phase # "none" => record[s].hasUpdate
  BY FrameIs
<1>2. PICK result \in Outcome : BeginFinish(f, result)
  BY DEF SimulationEnds
<1>3. completion[f].phase = "open" /\ completion[f].cancel \in {"stored", "called"}
  BY <1>2 DEF SimulationEnds, BeginFinish
<1>4. completion' = [completion EXCEPT ![f] = FinishingOf(completion[f], result)]
  BY <1>1, <1>2, CompletionIs
<1>5. FrameSound(record[s], task[f], FinishingOf(completion[f], result), state[s], gpu[s], draw[s],
                 run)
  BY <1>1, <1>2, <1>3, CompletionSound
<1>6. FinishingOf(completion[f], result) \in Completions
      /\ FinishingOf(completion[f], result).phase = "finishing"
  BY <1>1, CompletionsOf DEF Outcome
<1>7. UNCHANGED localRest /\ task' = [task EXCEPT ![f] = task[f]]
  BY Stays DEF SimulationEnds, localRest
<1>. QED
  BY <1>1, <1>3, <1>4, <1>5, <1>6, <1>7, KeepsSame, LocalMoves

(* The calls of the frame scheduler for the frame in a slot. *)
SchedulerKeeps == UNCHANGED <<app, generation, update, draw, checkpoint, nextFrame>>

LEMMA CallsAre ==
  ASSUME EngineInv, NEW s \in Slot, Live(s)
  PROVE  /\ HandleOf(app[s]) = FrameIn(s) /\ SlotOf(app[s]) = s
         /\ FS!BeginUpdate(FrameIn(s)) =>
              /\ state[s] = "WAITING_UPDATE" /\ state' = [state EXCEPT ![s] = "UPDATING"]
              /\ gpu' = gpu /\ SchedulerKeeps
         /\ FS!EndUpdate(FrameIn(s)) =>
              /\ state[s] = "UPDATING" /\ state' = [state EXCEPT ![s] = "WAITING_DRAW"]
              /\ gpu' = gpu /\ SchedulerKeeps
         /\ FS!BeginFinalize(FrameIn(s)) =>
              /\ state[s] = "WAITING_DRAW" /\ state' = [state EXCEPT ![s] = "FINALIZE"]
              /\ gpu' = gpu /\ SchedulerKeeps
         /\ FS!CompleteFrame(FrameIn(s)) =>
              /\ state[s] = "FINALIZE" /\ state' = [state EXCEPT ![s] = "COMPLETE"]
              /\ gpu' = gpu /\ SchedulerKeeps
         /\ FS!MarkSubmitted(FrameIn(s)) =>
              /\ state[s] = "FINALIZE" /\ state' = [state EXCEPT ![s] = "SUBMITTED"]
              /\ SchedulerKeeps
              /\ \E future \in {"pending", "ready"} : gpu' = [gpu EXCEPT ![s] = future]
         /\ FS!BeginGpu(FrameIn(s)) =>
              /\ state[s] = "SUBMITTED" /\ state' = [state EXCEPT ![s] = "GPU_IN_FLIGHT"]
              /\ gpu' = gpu /\ SchedulerKeeps
         /\ FS!CompleteGpu(FrameIn(s)) =>
              /\ state[s] = "GPU_IN_FLIGHT" /\ state' = [state EXCEPT ![s] = "COMPLETE"]
              /\ gpu[s] = "ready" /\ gpu' = gpu /\ SchedulerKeeps
<1>1. HandleOf(app[s]) = FrameIn(s) /\ SlotOf(app[s]) = s /\ FrameIn(s).slot = s
  BY LiveIs DEF SlotIs
<1>2. ASSUME NEW from, NEW to, FS!Transition(FrameIn(s), from, to)
      PROVE  state[s] = from /\ state' = [state EXCEPT ![s] = to]
  BY <1>1, <1>2 DEF FS!Transition
<1>3. (UNCHANGED FS!restVars) => SchedulerKeeps
  BY DEF FS!restVars, SchedulerKeeps
<1>4. (UNCHANGED <<gpu, FS!restVars>>) => gpu' = gpu /\ SchedulerKeeps
  BY DEF FS!restVars, SchedulerKeeps
<1>5. FS!BeginUpdate(FrameIn(s)) =>
        /\ state[s] = "WAITING_UPDATE" /\ state' = [state EXCEPT ![s] = "UPDATING"]
        /\ gpu' = gpu /\ SchedulerKeeps
  BY <1>2, <1>4 DEF FS!BeginUpdate
<1>6. FS!EndUpdate(FrameIn(s)) =>
        /\ state[s] = "UPDATING" /\ state' = [state EXCEPT ![s] = "WAITING_DRAW"]
        /\ gpu' = gpu /\ SchedulerKeeps
  BY <1>2, <1>4 DEF FS!EndUpdate
<1>7. FS!BeginFinalize(FrameIn(s)) =>
        /\ state[s] = "WAITING_DRAW" /\ state' = [state EXCEPT ![s] = "FINALIZE"]
        /\ gpu' = gpu /\ SchedulerKeeps
  BY <1>2, <1>4 DEF FS!BeginFinalize
<1>8. FS!CompleteFrame(FrameIn(s)) =>
        /\ state[s] = "FINALIZE" /\ state' = [state EXCEPT ![s] = "COMPLETE"]
        /\ gpu' = gpu /\ SchedulerKeeps
  BY <1>2, <1>4 DEF FS!CompleteFrame
<1>9. FS!MarkSubmitted(FrameIn(s)) =>
        /\ state[s] = "FINALIZE" /\ state' = [state EXCEPT ![s] = "SUBMITTED"]
        /\ SchedulerKeeps
        /\ \E future \in {"pending", "ready"} : gpu' = [gpu EXCEPT ![s] = future]
  BY <1>1, <1>2, <1>3 DEF FS!MarkSubmitted
<1>10. FS!BeginGpu(FrameIn(s)) =>
         /\ state[s] = "SUBMITTED" /\ state' = [state EXCEPT ![s] = "GPU_IN_FLIGHT"]
         /\ gpu' = gpu /\ SchedulerKeeps
  BY <1>2, <1>4 DEF FS!BeginGpu
<1>11. FS!CompleteGpu(FrameIn(s)) =>
         /\ state[s] = "GPU_IN_FLIGHT" /\ state' = [state EXCEPT ![s] = "COMPLETE"]
         /\ gpu[s] = "ready" /\ gpu' = gpu /\ SchedulerKeeps
  BY <1>1, <1>2, <1>4 DEF FS!CompleteGpu
<1>. QED
  BY <1>1, <1>5, <1>6, <1>7, <1>8, <1>9, <1>10, <1>11

LEMMA SchedulerMoves ==
  ASSUME EngineInv, NEW s \in Slot, Live(s), NEW t \in Tasks,
         NEW st \in FrameState, NEW g \in FutureState,
         task' = [task EXCEPT ![app[s]] = t], state' = [state EXCEPT ![s] = st],
         gpu' = [gpu EXCEPT ![s] = g], SchedulerKeeps, UNCHANGED schedulerRest,
         record[s].hasUpdate,
         FrameSound(record[s], t, completion[app[s]], st, g, draw[s], run),
         Keeps(record[s], task[app[s]], record[s], t)
  PROVE  EngineInv'
<1>1. Becomes(s, record[s], t, completion[app[s]], st, g)
  BY Stays DEF Becomes, Takes, schedulerRest, SchedulerKeeps, admission, pastRuns
<1>2. Conducts /\ UNCHANGED admissionOpen
  BY ConductsIs DEF schedulerRest, admission
<1>3. record[s] \in RecordOf(keys) /\ completion[app[s]] \in Completions
  BY FrameIs
<1>. QED
  BY <1>1, <1>2, <1>3, Moves

(* What MayRegisterGpu does. *)
LEMMA RegistersIs ==
  ASSUME EngineInv, NEW s \in Slot, Live(s), MayRegisterGpu(app[s])
  PROVE  \E st \in FrameState, g \in FutureState :
           /\ state' = [state EXCEPT ![s] = st] /\ gpu' = [gpu EXCEPT ![s] = g] /\ SchedulerKeeps
           /\ Registers(state[s], gpu[s], st, g)
<1>1. CASE UNCHANGED frames
  <2>1. SchedulerKeeps
    BY <1>1 DEF frames, SchedulerKeeps
  <2>2. Registers(state[s], gpu[s], state[s], gpu[s])
    BY DEF Registers
  <2>3. state' = [state EXCEPT ![s] = state[s]] /\ gpu' = [gpu EXCEPT ![s] = gpu[s]]
    BY <1>1, Stays DEF frames
  <2>. QED
    BY <2>1, <2>2, <2>3, SlotsHaveTypes
<1>2. CASE ~ UNCHANGED frames
  <2>1. FS!MarkSubmitted(FrameIn(s))
    BY <1>2, CallsAre DEF MayRegisterGpu
  <2>2. PICK future \in {"pending", "ready"} : gpu' = [gpu EXCEPT ![s] = future]
    BY <2>1, CallsAre
  <2>3. state[s] = "FINALIZE" /\ state' = [state EXCEPT ![s] = "SUBMITTED"] /\ SchedulerKeeps
    BY <2>1, CallsAre
  <2>4. "SUBMITTED" \in FrameState /\ future \in FutureState
    BY DEF FrameState, FutureState
  <2>5. Registers(state[s], gpu[s], "SUBMITTED", future)
    BY <2>3 DEF Registers
  <2>. QED
    BY <1>2, <2>2, <2>3, <2>4, <2>5
<1>. QED
  BY <1>1, <1>2

LEMMA SchedulerStepMoves ==
  ASSUME EngineInv, NEW s \in Slot, Live(s), SchedulerStep(app[s])
  PROVE  EngineInv'
<1>. DEFINE f == app[s]
            Sound(t, st, g) == FrameSound(record[s], t, completion[f], st, g, draw[s], run)
            Keep(t) == Keeps(record[s], task[f], record[s], t)
<1>1. /\ f \in Frame /\ task[f] \in Tasks /\ completion[f] \in Completions
      /\ Sound(task[f], state[s], gpu[s])
      /\ state[s] \in FrameState /\ gpu[s] \in FutureState
  BY FrameIs, SlotsHaveTypes
<1>2. state = [state EXCEPT ![s] = state[s]] /\ gpu = [gpu EXCEPT ![s] = gpu[s]]
  BY Stays
<1>3. UNCHANGED schedulerRest
  BY DEF SchedulerStep
<1>4. HandleOf(f) = FrameIn(s) /\ SlotOf(f) = s
  BY CallsAre
<1>5. ASSUME NEW k \in Kind, NEW to \in Place, Move(f, k, to)
      PROVE  /\ Put(task[f], k, to) \in Tasks /\ Moved(task[f], Put(task[f], k, to), k, to)
             /\ task' = [task EXCEPT ![f] = Put(task[f], k, to)]
  BY <1>1, <1>5, PutIs, MoveIs
<1>6. ASSUME NEW k \in Kind, task[f][k] # "none"
      PROVE  record[s].hasUpdate
  BY <1>6, HasUpdate
<1>7. ASSUME NEW t \in Tasks, NEW st \in FrameState, NEW g \in FutureState,
             task' = [task EXCEPT ![f] = t], state' = [state EXCEPT ![s] = st],
             gpu' = [gpu EXCEPT ![s] = g], SchedulerKeeps, record[s].hasUpdate,
             Sound(t, st, g), Keep(t)
      PROVE  EngineInv'
  BY <1>3, <1>7, SchedulerMoves
<1>8. {"update", "draw", "extract", "finish", "prepare", "complete"} = Kind
  BY DEF Kind
<1>9. {"schedule", "scheduleExtract", "complete", "throw", "return", "thrown", "notify"}
        \subseteq Place
  BY DEF Place
<1>10. CASE RunUpdate(f)
  <2>. DEFINE t == Put(task[f], "update", "schedule")
  <2>1. task[f]["update"] = "run" /\ Move(f, "update", "schedule") /\ FS!BeginUpdate(FrameIn(s))
    BY <1>4, <1>10 DEF RunUpdate
  <2>2. state' = [state EXCEPT ![s] = "UPDATING"] /\ gpu' = [gpu EXCEPT ![s] = gpu[s]]
        /\ SchedulerKeeps
    BY <1>2, <2>1, CallsAre
  <2>3. t \in Tasks /\ Moved(task[f], t, "update", "schedule") /\ task' = [task EXCEPT ![f] = t]
    BY <1>5, <1>8, <1>9, <2>1
  <2>4. Sound(t, "UPDATING", gpu[s]) /\ Keep(t)
    BY <1>1, <2>1, <2>3, UpdateRunsSound
  <2>5. record[s].hasUpdate /\ "UPDATING" \in FrameState
    BY <1>6, <1>8, <2>1 DEF FrameState
  <2>. QED
    BY <1>1, <1>7, <2>2, <2>3, <2>4, <2>5
<1>11. CASE RunDraw(f)
  <2>. DEFINE t == Put(task[f], "draw", "scheduleExtract")
  <2>1. run \in {"RUNNING", "STOPPING"}
    BY LiveIs DEF SlotIs
  <2>2. task[f]["draw"] = "begin" /\ Move(f, "draw", "scheduleExtract")
        /\ FS!BeginFinalize(FrameIn(s))
    BY <1>4, <1>11, <2>1 DEF RunDraw
  <2>3. state[s] = "WAITING_DRAW" /\ state' = [state EXCEPT ![s] = "FINALIZE"]
        /\ gpu' = [gpu EXCEPT ![s] = gpu[s]] /\ SchedulerKeeps
    BY <1>2, <2>2, CallsAre
  <2>4. t \in Tasks /\ Moved(task[f], t, "draw", "scheduleExtract")
        /\ task' = [task EXCEPT ![f] = t]
    BY <1>5, <1>8, <1>9, <2>2
  <2>5. Sound(t, "FINALIZE", gpu[s]) /\ Keep(t) /\ record[s].hasUpdate
    BY <1>1, <2>2, <2>3, <2>4, DrawBeginsSound
  <2>6. "FINALIZE" \in FrameState
    BY DEF FrameState
  <2>. QED
    BY <1>1, <1>7, <2>3, <2>4, <2>5, <2>6
<1>12. ASSUME NEW k \in Kind, ScheduleDrawing(f, k)
       PROVE  EngineInv'
  <2>1. PICK st \in FrameState, g \in FutureState :
          /\ state' = [state EXCEPT ![s] = st] /\ gpu' = [gpu EXCEPT ![s] = g] /\ SchedulerKeeps
          /\ Registers(state[s], gpu[s], st, g)
    BY <1>12, RegistersIs DEF ScheduleDrawing
  <2>2. task[f][k] = "scheduleDraw"
    BY <1>12 DEF ScheduleDrawing
  <2>3. k \in {"draw", "finish"}
    <3>1. k # "update"
      BY <1>1, <2>2 DEF FrameSound, UpdateSound, Begun, NoTasks
    <3>2. ChainsSound(record[s], task[f])
      BY <1>1, <2>2, <3>1, Drawn
    <3>. QED
      BY <1>8, <2>2, <3>1, <3>2 DEF ChainsSound, Extracting, Preparing
  <2>4. PICK t \in Tasks : /\ task' = [task EXCEPT ![f] = t]
                           /\ \/ Moved(task[f], t, k, "complete") \/ Moved(task[f], t, k, "throw")
                              \/ Chained(task[f], t, k, "prepare", "complete")
    <3>1. CASE Move(f, k, "complete")
      BY <1>5, <1>9, <3>1
    <3>2. CASE Move(f, k, "throw")
      BY <1>5, <1>9, <3>2
    <3>3. CASE Chain(f, k, "prepare", "complete")
      BY <1>1, <2>3, <3>3, ChainIs, PutChainIs
    <3>. QED
      BY <1>12, <3>1, <3>2, <3>3 DEF ScheduleDrawing
  <2>5. Sound(t, st, g) /\ Keep(t) /\ record[s].hasUpdate
    BY <1>1, <2>1, <2>2, <2>3, <2>4, DrawsSound
  <2>. QED
    BY <1>7, <2>1, <2>4, <2>5
<1>13. ASSUME NEW k \in Kind, JoinRuns(f, k)
       PROVE  EngineInv'
  <2>1. PICK st \in FrameState, g \in FutureState :
          /\ state' = [state EXCEPT ![s] = st] /\ gpu' = [gpu EXCEPT ![s] = g] /\ SchedulerKeeps
          /\ Registers(state[s], gpu[s], st, g)
          /\ k # "prepare" \/ gpu[s] # "none" => st = state[s] /\ g = gpu[s]
    <3>1. CASE k = "prepare" /\ gpu[s] = "none"
      BY <1>4, <1>13, <3>1, RegistersIs DEF JoinRuns
    <3>2. CASE ~ (k = "prepare" /\ gpu[s] = "none")
      <4>1. UNCHANGED frames
        BY <1>4, <1>13, <3>2 DEF JoinRuns
      <4>2. Registers(state[s], gpu[s], state[s], gpu[s])
        BY DEF Registers
      <4>3. SchedulerKeeps /\ state' = [state EXCEPT ![s] = state[s]]
            /\ gpu' = [gpu EXCEPT ![s] = gpu[s]]
        BY <1>2, <4>1 DEF frames, SchedulerKeeps
      <4>. QED
        BY <1>1, <4>2, <4>3
    <3>. QED
      BY <3>1, <3>2
  <2>2. task[f][k] = "join"
    BY <1>13 DEF JoinRuns
  <2>3. k \in {"extract", "prepare"}
    <3>1. k # "update"
      BY <1>1, <2>2 DEF FrameSound, UpdateSound, Begun, NoTasks
    <3>2. ChainsSound(record[s], task[f])
      BY <1>1, <2>2, <3>1, Drawn
    <3>. QED
      BY <1>8, <2>2, <3>1, <3>2 DEF ChainsSound, Extracting, Preparing
  <2>4. PICK to \in {"return", "thrown"} : Move(f, k, to)
    BY <1>13 DEF JoinRuns
  <2>. DEFINE t == Put(task[f], k, to)
  <2>5. t \in Tasks /\ Moved(task[f], t, k, to) /\ task' = [task EXCEPT ![f] = t]
    BY <1>5, <1>9, <2>4
  <2>6. k = "extract" \/ gpu[s] # "none" => st = state[s] /\ g = gpu[s]
    BY <2>1
  <2>7. Sound(t, st, g) /\ Keep(t) /\ record[s].hasUpdate
    BY <1>1, <2>1, <2>2, <2>3, <2>5, <2>6, JoinsSound
  <2>. QED
    BY <1>7, <2>1, <2>5, <2>7
<1>14. ASSUME NEW k \in Kind, CompleteDraw(f, k)
       PROVE  EngineInv'
  <2>. DEFINE t == Put(task[f], k, "notify")
              st == IF gpu[s] = "none" THEN "COMPLETE" ELSE state[s]
  <2>1. task[f][k] = "complete" /\ Move(f, k, "notify")
    BY <1>14 DEF CompleteDraw
  <2>2. state' = [state EXCEPT ![s] = st] /\ gpu' = [gpu EXCEPT ![s] = gpu[s]] /\ SchedulerKeeps
    <3>1. CASE gpu[s] = "none"
      BY <1>2, <1>4, <1>14, <3>1, CallsAre DEF CompleteDraw
    <3>2. CASE gpu[s] # "none"
      BY <1>2, <1>4, <1>14, <3>2 DEF CompleteDraw, frames, SchedulerKeeps
    <3>. QED
      BY <3>1, <3>2
  <2>3. k \in {"draw", "finish", "complete"}
    <3>1. k # "update"
      BY <1>1, <2>1 DEF FrameSound, UpdateSound, Begun, NoTasks
    <3>2. ChainsSound(record[s], task[f])
      BY <1>1, <2>1, <3>1, Drawn
    <3>. QED
      BY <1>8, <2>1, <3>1, <3>2 DEF ChainsSound, Extracting, Preparing
  <2>4. t \in Tasks /\ Moved(task[f], t, k, "notify") /\ task' = [task EXCEPT ![f] = t]
    BY <1>5, <1>9, <2>1
  <2>5. Sound(t, st, gpu[s]) /\ Keep(t) /\ record[s].hasUpdate
    BY <1>1, <2>1, <2>3, <2>4, CompletesSound
  <2>6. st \in FrameState
    BY <1>1 DEF FrameState
  <2>. QED
    BY <1>1, <1>7, <2>2, <2>4, <2>5, <2>6
<1>. QED
  BY <1>10, <1>11, <1>12, <1>13, <1>14 DEF SchedulerStep

LEMMA GpuMoves ==
  ASSUME EngineInv, NEW s \in Slot, GpuStep(s)
  PROVE  EngineInv'
<1>1. gpu[s] = "pending" /\ gpu' = [gpu EXCEPT ![s] = "ready"] /\ state' = state
      /\ SchedulerKeeps /\ UNCHANGED schedulerRest /\ UNCHANGED task
  BY DEF GpuStep, GpuSignals, FS!GpuSignals, FS!restVars, SchedulerKeeps
<1>2. Live(s)
  BY <1>1 DEF EngineInv, SlotsSound
<1>3. /\ app[s] \in Frame /\ task[app[s]] \in Tasks
      /\ FrameSound(record[s], task[app[s]], completion[app[s]], state[s], gpu[s], draw[s], run)
  BY <1>2, FrameIs
<1>4. FrameSound(record[s], task[app[s]], completion[app[s]], state[s], "ready", draw[s], run)
      /\ record[s].hasUpdate
  BY <1>1, <1>3, GpuGoesOn
<1>5. task' = [task EXCEPT ![app[s]] = task[app[s]]] /\ state' = [state EXCEPT ![s] = state[s]]
  BY <1>1, <1>2, Stays
<1>6. state[s] \in FrameState /\ "ready" \in FutureState
  BY SlotsHaveTypes DEF FutureState
<1>. QED
  BY <1>1, <1>2, <1>3, <1>4, <1>5, <1>6, KeepsSame, SchedulerMoves

(* The steps under the metadata mutex. *)
mutexRest == <<pastRuns, nextDraw, host, jobs, stopper>>

LEMMA FinishUpdateMoves ==
  ASSUME EngineInv, NEW s \in Slot, Live(s), UNCHANGED mutexRest, FinishUpdate(app[s])
  PROVE  EngineInv'
<1>. DEFINE f == app[s]
<1>1. /\ f \in Frame /\ task[f] \in Tasks /\ completion[f] \in Completions
      /\ record[s] \in RecordOf(keys) /\ state[s] \in FrameState /\ gpu[s] \in FutureState
      /\ FrameSound(record[s], task[f], completion[f], state[s], gpu[s], draw[s], run)
  BY FrameIs, SlotsHaveTypes
<1>2. HandleOf(f) = FrameIn(s) /\ SlotOf(f) = s /\ KeyOf(f) = record[s].key
  BY LiveIs DEF SlotIs
<1>3. /\ completion[f].phase = "finishing" /\ MutexFree /\ UNCHANGED admissionOpen
      /\ task' = [task EXCEPT ![f] = task[f]]
  BY Stays DEF FinishUpdate
<1>4. CASE completion[f].outcome = "COMPLETED"
  <2>. DEFINE to == IF record[s].requested THEN "drawing" ELSE "applied"
              r == SucceededOf(record[s])
              c == PhaseOf(completion[f], to)
  <2>1. /\ FS!EndUpdate(FrameIn(s)) /\ record' = [record EXCEPT ![s].succeeded = TRUE]
        /\ EnterPhase(f, to) /\ NoFailure /\ watch' \in {watch, "news"}
    BY <1>2, <1>4 DEF FinishUpdate, Applied, Notify
  <2>2. state' = [state EXCEPT ![s] = "WAITING_DRAW"] /\ gpu' = [gpu EXCEPT ![s] = gpu[s]]
        /\ SchedulerKeeps
    BY <2>1, CallsAre, Stays
  <2>3. record' = [record EXCEPT ![s] = r]
    BY <2>1 DEF SucceededOf
  <2>4. completion' = [completion EXCEPT ![f] = c]
    BY <1>1, <2>1, CompletionIs
  <2>5. FrameSound(r, task[f], c, "WAITING_DRAW", gpu[s], draw[s], run)
        /\ Keeps(record[s], task[f], r, task[f]) /\ record[s].hasUpdate
    BY <1>1, <1>3, <1>4, SucceedsSound
  <2>6. r \in RecordOf(keys) /\ r.key = record[s].key /\ r.requested = record[s].requested
        /\ r.hasUpdate = record[s].hasUpdate
    BY <1>1 DEF SucceededOf, RecordOf
  <2>7. c \in Completions /\ "WAITING_DRAW" \in FrameState
    BY <1>1, CompletionsOf DEF Outcome, FrameState
  <2>8. Becomes(s, r, task[f], c, "WAITING_DRAW", gpu[s])
    BY <1>3, <2>2, <2>3, <2>4, Stays DEF Becomes, Takes, SchedulerKeeps, mutexRest, pastRuns
  <2>9. Conducts
    BY <2>1, ConductsIs DEF mutexRest, NoFailure
  <2>. HIDE DEF r, c
  <2>. QED
    BY <1>1, <1>3, <2>5, <2>6, <2>7, <2>8, <2>9, Moves
<1>5. CASE completion[f].outcome # "COMPLETED"
  <2>. DEFINE c == PhaseOf(completion[f], "applied")
  <2>1. /\ EnterPhase(f, "applied") /\ run' = "STOPPING" /\ Notify /\ UNCHANGED <<frames, record>>
        /\ lastError' = (completion[f].outcome = "FAILED" \/ run = "RUNNING" \/ lastError)
    BY <1>2, <1>5 DEF FinishUpdate
  <2>2. completion' = [completion EXCEPT ![f] = c]
    BY <1>1, <2>1, CompletionIs
  <2>3. FrameSound(record[s], task[f], c, state[s], gpu[s], draw[s], run') /\ record[s].hasUpdate
    BY <1>1, <1>3, <2>1, FailsSound
  <2>4. c \in Completions /\ c.phase = "applied"
    BY <1>1, CompletionsOf DEF Outcome
  <2>5. Becomes(s, record[s], task[f], c, state[s], gpu[s])
    BY <1>3, <2>1, <2>2, Stays DEF Becomes, Takes, frames, mutexRest, pastRuns
  <2>6. host.op # "arm"
    BY <1>3 DEF MutexFree
  <2>7. Conducts
    <3>1. lastError' \in BOOLEAN
      BY <2>1
    <3>. QED
      BY <2>1, <2>6, <3>1, ConductsIs DEF mutexRest, Notify
  <2>8. state[s] # "FREE"
    BY LiveIs DEF SlotIs
  <2>9. Fits(s, record[s], task[f], c, state[s], gpu[s], draw[s])
    <3>1. draw[s] \in Index /\ checkpoint \in {"UPDATE", "DRAW"}
      BY TypesAre DEF EngineInv, SlotsTyped
    <3>. QED
      BY <1>1, <2>3, <2>4, <2>5, <2>7, <2>8, <3>1 DEF Fits, Becomes, Conducts
  <2>10. Follows(s, record[s], task[f], c)
    BY <1>3, <2>3, <2>4 DEF Follows
  <2>11. Admits(s, record[s], task[f])
    BY <1>3 DEF Admits
  <2>. HIDE DEF c
  <2>. QED
    BY <2>5, <2>7, <2>9, <2>10, <2>11, FrameMoves
<1>. QED
  BY <1>4, <1>5

LEMMA DrawTaskMoves ==
  ASSUME EngineInv, NEW s \in Slot, Live(s), UNCHANGED mutexRest, MutexFree, NEW k \in Kind,
         UNCHANGED <<frames, completion>>,
         \/ DrawThrows(app[s], k) \/ RecordSuccessor(app[s], k)
         \/ FinishDraw(app[s], k) \/ DrawCompletes(app[s], k)
  PROVE  EngineInv'
<1>. DEFINE f == app[s]
<1>1. /\ f \in Frame /\ task[f] \in Tasks /\ completion[f] \in Completions
      /\ record[s] \in RecordOf(keys) /\ state[s] \in FrameState /\ gpu[s] \in FutureState
      /\ FrameSound(record[s], task[f], completion[f], state[s], gpu[s], draw[s], run)
  BY FrameIs, SlotsHaveTypes
<1>2. SlotOf(f) = s
  BY LiveIs DEF SlotIs
<1>3. ASSUME NEW to \in Place, Move(f, k, to)
      PROVE  /\ Put(task[f], k, to) \in Tasks /\ Moved(task[f], Put(task[f], k, to), k, to)
             /\ task' = [task EXCEPT ![f] = Put(task[f], k, to)]
  BY <1>1, <1>3, PutIs, MoveIs
<1>4. {"thrown", "return", "scheduleDraw"} \subseteq Place
  BY DEF Place
<1>5. ASSUME NEW r, NEW t, record' = [record EXCEPT ![s] = r], task' = [task EXCEPT ![f] = t]
      PROVE  Becomes(s, r, t, completion[f], state[s], gpu[s])
  BY <1>5, Stays DEF Becomes, Takes, frames, mutexRest, pastRuns
<1>6. host.op # "arm" /\ UNCHANGED host
  BY DEF MutexFree, mutexRest
<1>7. record = [record EXCEPT ![s] = record[s]]
  BY Stays
<1>8. ASSUME NEW to \in {"thrown", "return"},
             task[f][k] = IF to = "thrown" THEN "throw" ELSE "notify",
             Move(f, k, to), UNCHANGED <<record, admissionOpen>>, Conducts
      PROVE  EngineInv'
  <2>. DEFINE t == Put(task[f], k, to)
  <2>1. t \in Tasks /\ Moved(task[f], t, k, to) /\ task' = [task EXCEPT ![f] = t]
    BY <1>3, <1>4, <1>8
  <2>2. FrameSound(record[s], t, completion[f], state[s], gpu[s], draw[s], run)
        /\ Keeps(record[s], task[f], record[s], t) /\ record[s].hasUpdate
    BY <1>1, <1>8, <2>1, ThrowsSound
  <2>3. Becomes(s, record[s], t, completion[f], state[s], gpu[s])
    BY <1>5, <1>7, <1>8, <2>1
  <2>. HIDE DEF t
  <2>. QED
    BY <1>1, <1>8, <2>1, <2>2, <2>3, Moves
<1>9. CASE DrawThrows(f, k)
  <2>1. Conducts
    BY <1>6, <1>9, ConductsIs DEF DrawThrows, Fail, Notify
  <2>. QED
    BY <1>4, <1>8, <1>9, <2>1 DEF DrawThrows
<1>10. CASE DrawCompletes(f, k)
  <2>1. Conducts
    BY <1>6, <1>10, ConductsIs DEF DrawCompletes, NoFailure, Notify
  <2>. QED
    BY <1>4, <1>8, <1>10, <2>1 DEF DrawCompletes
<1>11. CASE RecordSuccessor(f, k)
  <2>. DEFINE to == IF task[f]["complete"] # "none" THEN "complete" ELSE "finish"
              r == NamedOf(record[s], to)
              t == Put(task[f], k, "return")
  <2>1. Conducts /\ UNCHANGED admissionOpen /\ task[f][k] = "record" /\ Move(f, k, "return")
    BY <1>6, <1>11, ConductsIs DEF RecordSuccessor, NoFailure
  <2>2. record' = [record EXCEPT ![s] = r]
    BY <1>2, <1>11 DEF RecordSuccessor, NamedOf, Successor
  <2>3. t \in Tasks /\ Moved(task[f], t, k, "return") /\ task' = [task EXCEPT ![f] = t]
    BY <1>3, <1>4, <2>1
  <2>4. FrameSound(r, t, completion[f], state[s], gpu[s], draw[s], run)
        /\ Keeps(record[s], task[f], r, t) /\ record[s].hasUpdate
    BY <1>1, <2>1, <2>3, NamesSound
  <2>5. r \in RecordOf(keys) /\ r.key = record[s].key /\ r.requested = record[s].requested
        /\ r.hasUpdate = record[s].hasUpdate
    BY <1>1 DEF NamedOf, RecordOf
  <2>6. Becomes(s, r, t, completion[f], state[s], gpu[s])
    BY <1>5, <2>2, <2>3
  <2>. HIDE DEF r, t
  <2>. QED
    BY <1>1, <2>1, <2>3, <2>4, <2>5, <2>6, Moves
<1>12. CASE FinishDraw(f, k)
  <2>. DEFINE t == Put(task[f], k, "scheduleDraw")
  <2>1. /\ Conducts /\ admissionOpen' = TRUE /\ watch' = "news" /\ UNCHANGED record
        /\ task[f][k] = "open" /\ Move(f, k, "scheduleDraw")
    BY <1>6, <1>12, ConductsIs DEF FinishDraw, NoFailure, Notify, OpenAdmission
  <2>2. t \in Tasks /\ Moved(task[f], t, k, "scheduleDraw") /\ task' = [task EXCEPT ![f] = t]
    BY <1>3, <1>4, <2>1
  <2>3. /\ FrameSound(record[s], t, completion[f], state[s], gpu[s], draw[s], run)
        /\ record[s].hasUpdate /\ PreExtract(record[s], task[f]) /\ ~ PreExtract(record[s], t)
        /\ ~ Quiet(task[f])
    BY <1>1, <2>1, <2>2, OpensSound
  <2>4. Becomes(s, record[s], t, completion[f], state[s], gpu[s])
    BY <1>5, <1>7, <2>1, <2>2
  <2>5. state[s] # "FREE"
    BY LiveIs DEF SlotIs
  <2>6. FrameSound(record[s], t, completion[f], state[s], gpu[s], draw[s], run')
    BY <2>1, <2>3, LaterRun DEF Conducts
  <2>7. Fits(s, record[s], t, completion[f], state[s], gpu[s], draw[s])
    <3>1. draw[s] \in Index /\ checkpoint \in {"UPDATE", "DRAW"}
      BY TypesAre DEF EngineInv, SlotsTyped
    <3>. QED
      BY <1>1, <2>1, <2>2, <2>4, <2>5, <2>6, <3>1 DEF Fits, Becomes, Conducts
  <2>8. Follows(s, record[s], t, completion[f])
    BY <1>1, <2>3 DEF Follows, MutexFree
  <2>9. Admits(s, record[s], t)
    BY <2>1, <2>3 DEF Admits
  <2>. HIDE DEF t
  <2>. QED
    BY <2>1, <2>4, <2>7, <2>8, <2>9, FrameMoves
<1>. QED
  BY <1>9, <1>10, <1>11, <1>12

(* What is left of the completion of a frame that has gone. *)
LEMMA DeadFinishes ==
  ASSUME EngineInv, NEW f \in Frame, Dead(f), UNCHANGED localRest, UpdateFinished(f)
  PROVE  EngineInv'
<1>. DEFINE c == PhaseOf(completion[f], "finished")
<1>1. completion[f] \in Completions /\ completion[f].phase = "applied"
  BY FramesHaveTypes DEF UpdateFinished
<1>2. completion' = [completion EXCEPT ![f] = c] /\ task' = task
  BY CompletionIs DEF UpdateFinished
<1>3. c \in Completions /\ c.phase = "finished"
  BY <1>1, CompletionsOf DEF Outcome
<1>4. SlotsTyped /\ FramesTyped /\ RunTyped /\ HostTyped
  BY TypesAre DEF EngineInv
<1>. HIDE DEF c
<1>5. completion'[f] = c /\ \A x \in Frame \ {f} : completion'[x] = completion[x]
  BY <1>2, <1>4 DEF FramesTyped
<1>6. /\ state' = state /\ app' = app /\ generation' = generation /\ update' = update
      /\ draw' = draw /\ gpu' = gpu /\ checkpoint' = checkpoint /\ nextFrame' = nextFrame
      /\ run' = run /\ runGeneration' = runGeneration /\ stopInProgress' = stopInProgress
      /\ completedStop' = completedStop /\ keys' = keys /\ record' = record
      /\ nextDraw' = nextDraw /\ admissionOpen' = admissionOpen /\ lastError' = lastError
      /\ host' = host /\ watch' = watch /\ jobs' = jobs /\ stopper' = stopper
  BY DEF localRest, frames, pastRuns, admission
<1>7. ASSUME NEW s \in Slot, Live(s)
      PROVE  app[s] \in Frame /\ app[s] # f /\ completion'[app[s]] = completion[app[s]]
  BY <1>5, <1>7, LiveIs, LiveFrame DEF SlotIs
<1>8. TypeOK'
  <2>1. FramesTyped'
    BY <1>2, <1>3, <1>4, <1>6 DEF FramesTyped
  <2>2. SlotsTyped' /\ RunTyped' /\ HostTyped'
    BY <1>4, <1>6 DEF SlotsTyped, RunTyped, HostTyped
  <2>3. (SlotsTyped /\ FramesTyped /\ RunTyped /\ HostTyped)' => TypeOK'
    BY TypesAre, PTL
  <2>. QED
    BY <2>1, <2>2, <2>3
<1>9. KeysSound' /\ RecordsMatchSlots'
  BY <1>6 DEF EngineInv, KeysSound, RecordsMatchSlots, FrameIn
<1>10. SlotsSound'
  BY <1>2, <1>6, <1>7 DEF EngineInv, SlotsSound, FrameIn, Live
<1>11. DeadSound'
  <2>1. f < nextFrame
    BY <1>1, <1>4, Numbers DEF EngineInv, DeadSound, NoCompletion, SlotsTyped
  <2>2. \A x \in Frame : Dead(x)' <=> Dead(x)
    BY <1>6 DEF Dead, Live, FrameIn
  <2>3. ASSUME NEW x \in Frame, Dead(x)
        PROVE  /\ task'[x] = NoTasks /\ completion'[x].phase \in {"none", "applied", "finished"}
               /\ x >= nextFrame => completion'[x] = NoCompletion
    <3>1. CASE x = f
      BY <3>1, <2>3, <2>1, <1>2, <1>3, <1>4, <1>5, Numbers DEF EngineInv, DeadSound, SlotsTyped
    <3>2. CASE x # f
      BY <3>2, <2>3, <1>2, <1>5 DEF EngineInv, DeadSound
    <3>. QED
      BY <3>1, <3>2
  <2>. QED
    BY <2>2, <2>3, <1>6 DEF DeadSound
<1>12. CheckpointSound' /\ AdmissionSound'
  BY <1>2, <1>6 DEF EngineInv, CheckpointSound, AdmissionSound, Live, FrameIn, DrawCheckpointFollows
<1>13. HostSound'
  <2>1. \A x \in Frame : completion'[x].phase = "drawing" => completion[x].phase = "drawing"
    BY <1>3, <1>5
  <2>2. Room' <=> Room
    BY <1>6 DEF Room, FS!IndicesLeft, FS!SlotOf
  <2>. QED
    BY <2>1, <2>2, <1>6 DEF EngineInv, HostSound, Live
<1>14. RestSound'
  <2>1. run \notin {"CREATED", "STOPPED"}
    BY <1>1 DEF EngineInv, RestSound, NoCompletion
  <2>. QED
    BY <2>1, <1>6 DEF RestSound
<1>15. StoppersSound'
  <2>1. ASSUME NEW p \in Stopper, stopper[p].at \in {"waitIdle", "waitGpu"}, NEW s \in Slot,
               record[s].hasUpdate
        PROVE  completion'[app[s]].phase = "finished"
    <3>1. Live(s)
      BY <2>1 DEF EngineInv, RecordsMatchSlots, Live, EmptyRecord
    <3>. QED
      BY <2>1, <3>1, <1>7 DEF EngineInv, StoppersSound
  <2>2. Idle' <=> Idle
    BY <1>2 DEF Idle
  <2>3. \A p \in Stopper : Cleans(p)' <=> Cleans(p)
    BY <1>6 DEF Cleans
  <2>. QED
    BY <2>1, <2>2, <2>3, <1>6 DEF EngineInv, StoppersSound
<1>. QED
  BY <1>8, <1>9, <1>10, <1>11, <1>12, <1>13, <1>14, <1>15 DEF EngineInv

-----------------------------------------------------------------------------
(* The request of a draw. *)

(* The frame whose draw is requested is the newest one, and the admission is
   closed. *)
LEMMA Newest ==
  ASSUME EngineInv, NEW s \in Slot, Live(s),
         PreExtract(record[s], task[app[s]]) \/ draw[s] = 0
  PROVE  app[s] + 1 = nextFrame /\ \A x \in Slot : Live(x) /\ app[x] + 1 = nextFrame => x = s
<1>1. app[s] + 1 = nextFrame
  BY DEF EngineInv, AdmissionSound, CheckpointSound
<1>2. ASSUME NEW x \in Slot, Live(x), app[x] + 1 = nextFrame
      PROVE  x = s
  <2>1. app[x] \in Nat /\ app[s] \in Nat
    BY <1>2, LiveIs, Numbers DEF SlotIs
  <2>. QED
    BY <1>1, <1>2, <2>1, OneSlot
<1>. QED
  BY <1>1, <1>2

Requests(s, r, t, d) ==
  /\ record[s].hasUpdate /\ r.hasUpdate /\ r.requested = TRUE
  /\ \/ draw[s] = 0 /\ d # 0 /\ checkpoint' = "UPDATE"
     \/ draw[s] = d /\ checkpoint' = checkpoint
  /\ UNCHANGED <<admissionOpen, host, stopInProgress, completedStop, jobs, stopper>>
  /\ watch' \in {watch, "news"} /\ lastError' \in BOOLEAN
  /\ host.op \in {"none", "asleep"}
  /\ completion[app[s]].phase # "finished" \/ run = "RUNNING"
  /\ PreExtract(record[s], task[app[s]]) /\ ~ Opened(t)
  /\ nextDraw' \in 0 .. InvalidIndex
  /\ run' = "RUNNING" => nextDraw' = nextFrame

LEMMA RequestMoves ==
  ASSUME EngineInv, NEW s \in Slot, Live(s), NEW r, NEW t, NEW c, NEW d,
         Takes(s, r, t, c, state[s], gpu[s], d), Fits(s, r, t, c, state[s], gpu[s], d),
         Requests(s, r, t, d)
  PROVE  EngineInv'
<1>1. SlotIs(s)
  BY LiveIs
<1>2. RunTyped /\ HostTyped
  BY TypesAre DEF EngineInv
<1>3. SlotsTyped' /\ FramesTyped' /\ KeysSound' /\ RecordsMatchSlots' /\ SlotsSound' /\ DeadSound'
  BY FrameTaken
<1>4. Alone(s, r, t, c, state[s], gpu[s], d)
  BY FrameAlone
<1>5. record'[s] = r /\ task'[app[s]] = t /\ draw'[s] = d
  BY <1>4 DEF Alone
<1>6. ASSUME NEW x \in Slot, x # s
      PROVE  record'[x] = record[x] /\ draw'[x] = draw[x]
  BY <1>4, <1>6 DEF Alone
<1>7. \A x \in Slot : Live(x)' <=> Live(x)
  BY <1>4 DEF Alone
<1>8. \A x \in Slot : FrameIn(x)' = FrameIn(x)
  BY <1>4 DEF Alone
<1>9. run \in {"RUNNING", "STOPPING"} /\ run' \in {"RUNNING", "STOPPING"}
      /\ (run' = "RUNNING" => run = "RUNNING")
  BY <1>4 DEF Alone
<1>10. /\ keys' = keys /\ runGeneration' = runGeneration /\ nextFrame' = nextFrame /\ app' = app
       /\ stopInProgress' = stopInProgress /\ completedStop' = completedStop
       /\ jobs' = jobs /\ stopper' = stopper /\ admissionOpen' = admissionOpen /\ host' = host
  BY <1>4 DEF Alone, Requests
<1>11. app[s] + 1 = nextFrame /\ \A x \in Slot : Live(x) /\ app[x] + 1 = nextFrame => x = s
  BY Newest DEF Requests
<1>12. ~ admissionOpen
  BY DEF Requests, EngineInv, AdmissionSound
<1>13. \A x \in Slot : x # s /\ Live(x) => draw[x] # 0 /\ ~ PreExtract(record[x], task[app[x]])
  BY <1>11, Newest
<1>14. \A x \in Slot : x # s /\ Live(x) => task'[app[x]] = task[app[x]]
  BY <1>4 DEF Alone
<1>20. TypeOK'
  <2>1. RunTyped'
    BY <1>2, <1>9, <1>10 DEF RunTyped, Requests
  <2>2. HostTyped'
    <3>1. watch' \in {"none", "captured", "refused", "news"}
      BY <1>2 DEF HostTyped, Requests
    <3>. QED
      BY <1>2, <1>10, <3>1 DEF HostTyped
  <2>3. (SlotsTyped /\ FramesTyped /\ RunTyped /\ HostTyped)' => TypeOK'
    BY TypesAre, PTL
  <2>. QED
    BY <1>3, <2>1, <2>2, <2>3
<1>21. CheckpointSound'
  <2>1. \A x \in Slot : Live(x) /\ draw'[x] = 0 => app[x] + 1 = nextFrame
    BY <1>5, <1>6, <1>11, <1>13
  <2>2. checkpoint' = "DRAW" <=> \E x \in Slot : Live(x) /\ draw'[x] = 0
    <3>1. CASE draw[s] = 0 /\ d # 0 /\ checkpoint' = "UPDATE"
      BY <3>1, <1>5, <1>6, <1>13
    <3>2. CASE draw[s] = d /\ checkpoint' = checkpoint
      BY <3>2, <1>5, <1>6 DEF EngineInv, CheckpointSound
    <3>. QED
      BY <3>1, <3>2 DEF Requests
  <2>. QED
    BY <2>1, <2>2, <1>7, <1>10 DEF CheckpointSound
<1>22. AdmissionSound'
  <2>1. ASSUME NEW x \in Slot, Live(x), PreExtract(record'[x], task'[app[x]])
        PROVE  app[x] + 1 = nextFrame /\ ~ admissionOpen
    <3>1. CASE x = s
      BY <3>1, <1>11, <1>12
    <3>2. CASE x # s
      BY <3>2, <2>1, <1>6, <1>13, <1>14
    <3>. QED
      BY <3>1, <3>2
  <2>2. ~ Opened(task'[app[s]])
    BY <1>5 DEF Requests
  <2>3. ASSUME run' = "RUNNING"
        PROVE  DrawCheckpointFollows'
    <3>1. nextDraw' = nextFrame'
      BY <2>3, <1>10 DEF Requests
    <3>2. ASSUME NEW x \in Slot, record'[x].key # None, FrameIn(x)'.app + 1 = nextFrame',
                 ~ record'[x].requested
          PROVE  FALSE
      <4>1. Live(x) /\ FrameIn(x).app = app[x]
        BY <3>2, <1>7, LiveIs DEF Live, SlotIs
      <4>2. x = s
        BY <3>2, <4>1, <1>8, <1>10, <1>11
      <4>. QED
        BY <3>2, <4>2, <1>5 DEF Requests
    <3>. QED
      BY <3>1, <3>2 DEF DrawCheckpointFollows
  <2>. QED
    BY <2>1, <2>2, <2>3, <1>7, <1>10, <1>11 DEF AdmissionSound
<1>23. HostSound'
  BY <1>10, <1>12 DEF EngineInv, HostSound, Requests
<1>24. RestSound'
  BY <1>9 DEF RestSound
<1>25. StoppersSound'
  <2>1. (stopInProgress' => run' = "STOPPING") /\ completedStop' <= runGeneration'
        /\ completedStop' < runGeneration'
    BY <1>9, <1>10 DEF EngineInv, StoppersSound, Fits
  <2>2. \A p, q \in Stopper : Cleans(p)' /\ Cleans(q)' => p = q
    BY <1>10 DEF EngineInv, StoppersSound, Cleans
  <2>3. ASSUME NEW p \in Stopper
        PROVE  /\ stopper'[p].observed <= runGeneration'
               /\ Cleans(p)' => /\ stopInProgress' /\ stopper'[p].observed = runGeneration'
                                /\ host'.op \in {"none", "asleep"}
               /\ stopper'[p].at = "await" /\ stopper'[p].observed = runGeneration'
                    /\ run' \in {"RUNNING", "STOPPING"} => stopInProgress'
               /\ stopper'[p].at \in {"request", "waitIdle", "waitGpu"} => jobs' = {}
    BY <1>9, <1>10 DEF EngineInv, StoppersSound, Cleans
  <2>4. ASSUME NEW p \in Stopper
        PROVE  stopper[p].at \notin {"waitIdle", "waitGpu"}
    <3>1. CASE run = "RUNNING"
      BY <3>1 DEF EngineInv, StoppersSound, Cleans
    <3>2. CASE completion[app[s]].phase # "finished"
      BY <3>2 DEF EngineInv, StoppersSound, Requests
    <3>. QED
      BY <3>1, <3>2 DEF Requests
  <2>. QED
    BY <2>1, <2>2, <2>3, <2>4, <1>10 DEF StoppersSound
<1>. QED
  BY <1>3, <1>20, <1>21, <1>22, <1>23, <1>24, <1>25 DEF EngineInv

(* The frame when the draw task is published. *)
RequestedOf(r, k) == [r EXCEPT !.requested = TRUE, !.drawTask = k]

(* Nothing was published so far. *)
Unasked(r, d) == r.hasUpdate /\ r.drawTask = "none" /\ d = 0

(* The completion that waited for it goes on. *)
Applies(c, c2) ==
  /\ c2.phase = IF c.phase = "drawing" THEN "applied" ELSE c.phase
  /\ c2.outcome = c.outcome /\ c2.cancel = c.cancel

(* The draw task is published, or not for want of memory, or not yet. *)
Asks(r, t, k, u, d, rn) ==
  \/ r.succeeded /\ d # 0 /\ k = "draw" /\ Moved(t, u, "draw", "waiting")
  \/ r.succeeded /\ d # 0 /\ k = "none" /\ u = t /\ rn = "STOPPING"
  \/ ~ r.succeeded /\ d = 0 /\ k = "none" /\ u = t

LEMMA RequestedSound ==
  ASSUME NEW ks, NEW r \in RecordOf(ks), NEW t \in Tasks, NEW c, NEW st, NEW g, NEW d, NEW rn,
         FrameSound(r, t, c, st, g, d, rn), Unasked(r, d),
         NEW k \in {"none", "draw"}, NEW u, NEW c2, NEW d2, NEW rn2 \in {rn, "STOPPING"},
         Applies(c, c2), Asks(r, t, k, u, d2, rn2)
  PROVE  FrameSound(RequestedOf(r, k), u, c2, st, g, d2, rn2) /\ ~ Opened(u)
<1>1. \A j \in Kind \ {"update"} : t[j] = "none"
  BY DEF FrameSound, DrawSound, Unasked
<1>0. r.hasUpdate
  BY DEF Unasked
<1>2. /\ RequestedOf(r, k) \in RecordOf(ks) /\ RequestedOf(r, k).requested = TRUE
      /\ RequestedOf(r, k).hasUpdate /\ RequestedOf(r, k).key = r.key
      /\ RequestedOf(r, k).drawTask = k /\ RequestedOf(r, k).succeeded = r.succeeded
  BY <1>0 DEF RequestedOf, RecordOf
<1>3. u["update"] = t["update"] /\ \A j \in Kind \ {"update", "draw"} : u[j] = "none"
  BY <1>1 DEF Asks, Moved, Kind
<1>4. u["draw"] = IF k = "draw" THEN "waiting" ELSE "none"
  BY <1>1 DEF Asks, Moved, Kind
<1>5. ~ Opened(u)
  BY <1>3, <1>4 DEF Opened, Opener, Extracting, Preparing, Kind
<1>. DEFINE q == RequestedOf(r, k)
<1>. HIDE DEF q
<1>6. /\ q.requested = TRUE /\ q.hasUpdate /\ q.drawTask = k /\ q.succeeded = r.succeeded
  BY <1>2 DEF q
<1>7. UpdateSound(q, u, c2, st, d2, rn2)
  BY <1>3, <1>6 DEF FrameSound, UpdateSound, Applies, Asks, Unasked
<1>8. DrawSound(q, u, st, g, d2, rn2)
  BY <1>3, <1>4, <1>6 DEF FrameSound, DrawSound, Kind, Asks, Unasked
<1>9. TasksSound(q, u, st, g)
  <2>1. ASSUME k = "draw"
        PROVE  ChainsSound(q, u) /\ StagesSound(q, u, st, g)
    <3>1. st = "WAITING_DRAW" /\ g = "none"
      BY <2>1 DEF FrameSound, DrawSound, Asks, Unasked
    <3>2. ChainsSound(q, u)
      BY <2>1, <1>3, <1>4, <1>6 DEF ChainsSound, Extracting, Preparing, Opener, Kind
    <3>3. StagesSound(q, u, st, g)
      BY <2>1, <3>1, <1>3, <1>4, <1>6 DEF StagesSound, Extracting, Preparing, Opener, Last, Kind, Terminal,
         FrameSound, UpdateSound, Unasked
    <3>. QED
      BY <3>2, <3>3
  <2>. QED
    BY <2>1, <1>6 DEF TasksSound
<1>10. FrameSound(q, u, c2, st, g, d2, rn2)
  BY <1>6, <1>7, <1>8, <1>9 DEF FrameSound, Begun
<1>. QED
  BY <1>2, <1>5, <1>10 DEF q

LEMMA SignalIs ==
  ASSUME EngineInv, NEW s \in Slot, Live(s), FS!SignalDraw(FrameIn(s))
  PROVE  /\ draw[s] = 0 /\ draw' = [draw EXCEPT ![s] = generation[s]]
         /\ generation[s] \in Index /\ generation[s] # 0 /\ checkpoint' = "UPDATE"
         /\ UNCHANGED <<state, app, generation, update, gpu, nextFrame>>
<1>1. SlotIs(s)
  BY LiveIs
<1>2. FrameIn(s) \in FS!Handle /\ generation[s] \in Index
  BY <1>1, TypesAre DEF EngineInv, SlotsTyped, FrameIn, SlotIs
<1>3. generation[s] # 0
  BY <1>1, <1>2, HandlesAre DEF SlotIs
<1>. QED
  BY <1>1, <1>2, <1>3 DEF SlotIs, FS!SignalDraw

(* What surrounds the request: the thread is in no other operation of the
   host, and the draw checkpoint goes on to the next frame. *)
Requesting(s, c) ==
  /\ c \in Completions /\ completion' = [completion EXCEPT ![app[s]] = c]
  /\ Applies(completion[app[s]], c)
  /\ host.op \in {"none", "asleep"}
  /\ completion[app[s]].phase # "finished" \/ run = "RUNNING"
  /\ UNCHANGED <<pastRuns, admissionOpen, host, jobs, stopper>>
  /\ watch' \in {watch, "news"}
  /\ nextDraw' \in 0 .. InvalidIndex
  /\ run' = "RUNNING" => nextDraw' = nextFrame

LEMMA RequestingMoves ==
  ASSUME EngineInv, NEW s \in Slot, Live(s), record[s].hasUpdate, NEW c, Requesting(s, c),
         \/ ScheduleDraw(s, [record[s] EXCEPT !.requested = TRUE]) /\ record[s].succeeded
         \/ /\ record' = [record EXCEPT ![s] = [record[s] EXCEPT !.requested = TRUE]]
            /\ ~ record[s].succeeded
            /\ NoFailure /\ UNCHANGED <<frames, task>>
  PROVE  EngineInv'
<1>. DEFINE f == app[s]
            r == record[s]
<1>1. /\ f \in Frame /\ r \in RecordOf(keys) /\ task[f] \in Tasks /\ completion[f] \in Completions
      /\ FrameSound(r, task[f], completion[f], state[s], gpu[s], draw[s], run)
  BY FrameIs
<1>2. SlotIs(s) /\ RunTyped
  BY LiveIs, TypesAre DEF EngineInv
<1>3. draw[s] = 0 /\ r.drawTask = "none" /\ PreExtract(r, task[f])
  <2>1. r.succeeded => draw[s] = 0
    BY SignalIs DEF ScheduleDraw
  <2>2. r.drawTask # "none" => r.succeeded /\ draw[s] # 0
    BY <1>1 DEF FrameSound, DrawSound
  <2>3. ~ r.succeeded => draw[s] = 0
    BY <1>1 DEF FrameSound, UpdateSound
  <2>. QED
    BY <2>1, <2>2, <2>3 DEF PreExtract
<1>4. PICK k \in {"none", "draw"}, u \in Tasks, d \in Index :
        /\ record' = [record EXCEPT ![s] = RequestedOf(r, k)]
        /\ task' = [task EXCEPT ![f] = u]
        /\ draw' = [draw EXCEPT ![s] = d]
        /\ run' \in {run, "STOPPING"} /\ lastError' \in BOOLEAN
        /\ UNCHANGED <<state, app, generation, update, gpu, nextFrame>>
        /\ \/ d # 0 /\ checkpoint' = "UPDATE"
           \/ d = draw[s] /\ checkpoint' = checkpoint
        /\ Asks(r, task[f], k, u, d, run')
  <2>1. [r EXCEPT !.requested = TRUE] = RequestedOf(r, "none")
    BY <1>1, <1>3 DEF RequestedOf, RecordOf
  <2>2. [[r EXCEPT !.requested = TRUE] EXCEPT !.drawTask = "draw"] = RequestedOf(r, "draw")
    BY <1>1 DEF RequestedOf, RecordOf
  <2>3. CASE ~ r.succeeded
    <3>1. draw' = [draw EXCEPT ![s] = draw[s]] /\ task' = [task EXCEPT ![f] = task[f]]
      BY <2>3, Stays DEF frames
    <3>2. draw[s] \in Index
      BY SlotsHaveTypes
    <3>3. Asks(r, task[f], "none", task[f], draw[s], run')
      BY <1>3, <2>3 DEF Asks
    <3>. QED
      BY <1>1, <1>2, <2>1, <2>3, <3>1, <3>2, <3>3 DEF frames, NoFailure, RunTyped
  <2>4. ASSUME r.succeeded, FS!SignalDraw(FrameIn(s)),
               record' = [record EXCEPT ![s] = RequestedOf(r, "draw")],
               Move(FrameIn(s).app, "draw", "waiting"), NoFailure
        PROVE  \E u \in Tasks : /\ Moved(task[f], u, "draw", "waiting")
                                /\ task' = [task EXCEPT ![f] = u]
    <3>1. FrameIn(s).app = f /\ "draw" \in Kind /\ "waiting" \in Place
      BY <1>2 DEF SlotIs, Kind, Place
    <3>. QED
      BY <1>1, <2>4, <3>1, MoveIs, PutIs
  <2>5. CASE r.succeeded
    <3>1. FS!SignalDraw(FrameIn(s))
      BY <2>5 DEF ScheduleDraw
    <3>2. /\ draw' = [draw EXCEPT ![s] = generation[s]]
          /\ generation[s] \in Index /\ generation[s] # 0 /\ checkpoint' = "UPDATE"
          /\ UNCHANGED <<state, app, generation, update, gpu, nextFrame>>
      BY <3>1, SignalIs
    <3>3. CASE /\ record' = [record EXCEPT ![s] = RequestedOf(r, "draw")]
               /\ Move(FrameIn(s).app, "draw", "waiting") /\ NoFailure
      <4>1. PICK u \in Tasks : /\ Moved(task[f], u, "draw", "waiting")
                              /\ task' = [task EXCEPT ![f] = u]
        BY <2>4, <2>5, <3>1, <3>3
      <4>2. Asks(r, task[f], "draw", u, generation[s], run')
        BY <2>5, <3>2, <4>1 DEF Asks
      <4>. QED
        BY <1>2, <3>2, <3>3, <4>1, <4>2 DEF NoFailure, RunTyped
    <3>4. CASE /\ record' = [record EXCEPT ![s] = RequestedOf(r, "none")]
               /\ Fail /\ UNCHANGED task
      <4>1. task' = [task EXCEPT ![f] = task[f]]
        BY <3>4, Stays
      <4>2. Asks(r, task[f], "none", task[f], generation[s], run')
        BY <2>5, <3>2, <3>4 DEF Asks, Fail
      <4>. QED
        BY <1>1, <2>5, <3>2, <3>4, <4>1, <4>2 DEF Fail
    <3>. QED
      BY <2>1, <2>2, <2>5, <3>3, <3>4 DEF ScheduleDraw
  <2>. QED
    BY <2>3, <2>5
<1>. DEFINE q == RequestedOf(r, k)
<1>5. /\ FrameSound(q, u, c, state[s], gpu[s], d, run') /\ ~ Opened(u)
      /\ q \in RecordOf(keys) /\ q.requested = TRUE /\ q.hasUpdate /\ q.key = r.key
  <2>1. Applies(completion[f], c)
    BY DEF Requesting
  <2>2. Asks(r, task[f], k, u, d, run')
    BY <1>4
  <2>3. run' \in {run, "STOPPING"} /\ Unasked(r, draw[s])
    BY <1>3, <1>4 DEF Unasked
  <2>4. /\ r \in RecordOf(keys) /\ task[f] \in Tasks
        /\ FrameSound(r, task[f], completion[f], state[s], gpu[s], draw[s], run)
    BY <1>1
  <2>5. k \in {"none", "draw"}
    OBVIOUS
  <2>. HIDE DEF r, f, q
  <2>6. FrameSound(RequestedOf(r, k), u, c, state[s], gpu[s], d, run') /\ ~ Opened(u)
    BY <2>1, <2>2, <2>3, <2>4, <2>5, RequestedSound
  <2>7. RequestedOf(r, k) \in RecordOf(keys)
    BY <2>4, <2>5 DEF RequestedOf, RecordOf
  <2>8. RequestedOf(r, k).requested = TRUE /\ RequestedOf(r, k).key = r.key
    BY <2>4 DEF RequestedOf, RecordOf
  <2>9. RequestedOf(r, k).hasUpdate = r.hasUpdate
    BY <2>4 DEF RequestedOf, RecordOf
  <2>10. r.hasUpdate
    BY <2>3 DEF Unasked
  <2>. QED
    BY <2>6, <2>7, <2>8, <2>9, <2>10 DEF q
<1>6. Takes(s, q, u, c, state[s], gpu[s], d)
  BY <1>4, Stays DEF Takes, Requesting, pastRuns
<1>7. state[s] \in FrameState /\ gpu[s] \in FutureState /\ state[s] # "FREE"
      /\ checkpoint' \in {"UPDATE", "DRAW"}
  <2>1. checkpoint \in {"UPDATE", "DRAW"}
    BY TypesAre DEF EngineInv, SlotsTyped
  <2>. QED
    BY <1>2, <1>4, <2>1, SlotsHaveTypes DEF SlotIs
<1>. HIDE DEF q
<1>8. Fits(s, q, u, c, state[s], gpu[s], d)
  BY <1>4, <1>5, <1>7 DEF Fits, Requesting
<1>9. Requests(s, q, u, d)
  BY <1>3, <1>4, <1>5 DEF Requests, Requesting, pastRuns
<1>. QED
  BY <1>6, <1>8, <1>9, RequestMoves

LEMMA DrawMoves ==
  ASSUME EngineInv, Draw
  PROVE  EngineInv'
<1>. DEFINE s == nextDraw % MaxActiveFrames
<1>1. s \in Slot /\ RunTyped
  BY Numbers, TypesAre DEF EngineInv, RunTyped, Slot
<1>. HIDE DEF s
<1>2. /\ host.op = "none" /\ MutexFree /\ run = "RUNNING" /\ record[s].hasUpdate
      /\ FrameIn(s).app = nextDraw /\ ~ record[s].requested
      /\ UNCHANGED <<pastRuns, admissionOpen, completion, host, jobs, stopper>>
  BY DEF Draw, s
<1>3. Live(s)
  BY <1>1, <1>2 DEF EngineInv, RecordsMatchSlots, Live, EmptyRecord
<1>4. SlotIs(s)
  BY <1>1, <1>3, LiveIs
<1>5. draw[s] = 0
  BY <1>2, <1>4 DEF SlotIs, FrameSound, DrawSound
<1>6. nextDraw + 1 = nextFrame
  BY <1>1, <1>2, <1>3, <1>4, <1>5, Newest DEF SlotIs
<1>7. [record[s] EXCEPT !.requested = TRUE].succeeded = record[s].succeeded
  BY <1>1, SlotsHaveTypes DEF RecordOf
<1>8. \/ ScheduleDraw(s, [record[s] EXCEPT !.requested = TRUE]) /\ record[s].succeeded
      \/ /\ record' = [record EXCEPT ![s] = [record[s] EXCEPT !.requested = TRUE]]
         /\ ~ record[s].succeeded
         /\ NoFailure /\ UNCHANGED <<frames, task>>
  BY <1>7 DEF Draw, s
<1>9. nextFrame \in 0 .. InvalidIndex /\ watch' \in {watch, "news"} /\ nextDraw' \in {nextDraw, nextDraw + 1}
      /\ (run' = "RUNNING" => nextDraw' = nextDraw + 1)
  <2>1. nextFrame \in 0 .. InvalidIndex
    BY Numbers, TypesAre DEF EngineInv, SlotsTyped
  <2>. QED
    BY <1>2, <2>1 DEF Draw, Notify
<1>10. Requesting(s, completion[app[s]])
  <2>1. completion' = [completion EXCEPT ![app[s]] = completion[app[s]]]
        /\ completion[app[s]] \in Completions
    BY <1>1, <1>2, <1>3, Stays, FrameIs
  <2>2. completion[app[s]].phase # "drawing"
    BY <1>2, <1>4 DEF MutexFree, SlotIs
  <2>. QED
    BY <1>1, <1>2, <1>6, <1>9, <2>1, <2>2 DEF Requesting, RunTyped, Applies
<1>. QED
  BY <1>1, <1>2, <1>3, <1>8, <1>10, RequestingMoves

LEMMA RequestedDrawMoves ==
  ASSUME EngineInv, NEW s \in Slot, Live(s), UNCHANGED mutexRest, ScheduleRequestedDraw(app[s])
  PROVE  EngineInv'
<1>. DEFINE f == app[s]
            c == PhaseOf(completion[f], "applied")
<1>1. SlotIs(s) /\ RunTyped /\ SlotOf(f) = s
  BY LiveIs, TypesAre DEF EngineInv, SlotIs
<1>2. completion[f].phase = "drawing" /\ completion[f] \in Completions /\ f \in Frame
  BY FrameIs DEF ScheduleRequestedDraw
<1>3. record[s].hasUpdate /\ record[s].succeeded /\ record[s].requested /\ draw[s] = 0
  BY <1>1, <1>2 DEF SlotIs, FrameSound, UpdateSound, Begun, NoCompletion
<1>4. [record[s] EXCEPT !.requested = TRUE] = record[s]
  BY <1>3, SlotsHaveTypes DEF RecordOf
<1>5. ScheduleDraw(s, [record[s] EXCEPT !.requested = TRUE])
  BY <1>1, <1>4 DEF ScheduleRequestedDraw
<1>6. host.op \in {"none", "asleep"}
  BY <1>2 DEF EngineInv, HostSound
<1>7. ASSUME run = "RUNNING"
      PROVE  nextDraw = nextFrame
  <2>1. ASSUME NEW x \in Slot, record[x].key # None, FrameIn(x).app + 1 = nextFrame,
               ~ record[x].requested
        PROVE  FALSE
    <3>1. Live(x) /\ FrameIn(x).app = app[x]
      BY <2>1, LiveIs DEF Live, SlotIs
    <3>2. x = s
      BY <1>3, <2>1, <3>1, Newest
    <3>. QED
      BY <1>3, <2>1, <3>2
  <2>. QED
    BY <1>7, <2>1 DEF EngineInv, AdmissionSound, DrawCheckpointFollows
<1>8. run' = "RUNNING" => run = "RUNNING"
  BY <1>5 DEF ScheduleDraw, Fail, NoFailure
<1>9. Requesting(s, c)
  <2>1. completion' = [completion EXCEPT ![f] = c]
    BY <1>2, CompletionIs DEF ScheduleRequestedDraw
  <2>2. c \in Completions /\ c.phase = "applied" /\ c.outcome = completion[f].outcome
        /\ c.cancel = completion[f].cancel
    <3>1. "COMPLETED" \in Outcome
      BY DEF Outcome
    <3>. QED
      BY <1>2, <3>1, CompletionsOf
  <2>3. UNCHANGED <<pastRuns, admissionOpen, host, jobs, stopper>> /\ nextDraw' = nextDraw
        /\ watch' = "news"
    BY DEF mutexRest, ScheduleRequestedDraw, Notify
  <2>. HIDE DEF c
  <2>. QED
    BY <1>1, <1>2, <1>6, <1>7, <1>8, <2>1, <2>2, <2>3 DEF Requesting, RunTyped, Applies
<1>. HIDE DEF c
<1>. QED
  BY <1>3, <1>5, <1>9, RequestingMoves

-----------------------------------------------------------------------------
(* The workers together; a frame that has gone has only the end of its
   completion left. *)
LEMMA DeadTasks ==
  ASSUME EngineInv, NEW f \in Frame, Dead(f)
  PROVE  /\ \A k \in Kind : task[f][k] = "none"
         /\ completion[f].phase \in {"none", "applied", "finished"}
BY DEF EngineInv, DeadSound, NoTasks

LEMMA WorkersMove ==
  ASSUME EngineInv, NEW f \in Frame, WorkerStep(f) \/ SimulationEnds(f)
  PROVE  EngineInv'
<1>1. LocalStep(f) => UNCHANGED localRest
  BY DEF LocalStep, localRest
<1>2. MutexStep(f) => UNCHANGED mutexRest
  BY DEF MutexStep, mutexRest
<1>3. CASE Dead(f)
  <2>1. /\ task[f]["update"] = "none" /\ task[f]["draw"] = "none"
        /\ \A k \in Kind : task[f][k] = "none"
        /\ completion[f].phase \in {"none", "applied", "finished"}
    BY <1>3, DeadTasks DEF Kind
  <2>2. LocalStep(f) => UpdateFinished(f)
    BY <2>1 DEF LocalStep, TaskStarts, TaskIsCancelled, TaskEnds, UpdateStarts, ScheduleUpdate,
                UpdateReturns, ScheduleExtract
  <2>3. ~ SchedulerStep(f)
    BY <2>1 DEF SchedulerStep, RunUpdate, RunDraw, ScheduleDrawing, JoinRuns, CompleteDraw
  <2>4. ~ MutexStep(f)
    BY <2>1 DEF MutexStep, FinishUpdate, ScheduleRequestedDraw, DrawThrows, RecordSuccessor,
                FinishDraw, DrawCompletes
  <2>5. ~ SimulationEnds(f)
    BY <2>1 DEF SimulationEnds, BeginFinish
  <2>. QED
    BY <1>1, <1>3, <2>2, <2>3, <2>4, <2>5, DeadFinishes DEF WorkerStep
<1>4. CASE ~ Dead(f)
  <2>1. PICK s \in Slot : Live(s) /\ app[s] = f
    BY <1>4, LiveOrDead
  <2>2. CASE LocalStep(f)
    <3>1. CASE \E k \in Kind : TaskStarts(f, k) \/ TaskIsCancelled(f, k) \/ TaskEnds(f, k)
      BY <1>1, <2>1, <2>2, <3>1, TasksMove
    <3>2. CASE UpdateStarts(f) \/ ScheduleUpdate(f) \/ UpdateFinished(f) \/ UpdateReturns(f)
      BY <1>1, <2>1, <2>2, <3>2, UpdateTaskMoves
    <3>3. CASE ScheduleExtract(f)
      BY <1>1, <2>1, <2>2, <3>3, ExtractionMoves
    <3>. QED
      BY <2>2, <3>1, <3>2, <3>3 DEF LocalStep
  <2>3. CASE SchedulerStep(f)
    BY <2>1, <2>3, SchedulerStepMoves
  <2>4. CASE MutexStep(f)
    <3>1. CASE FinishUpdate(f)
      BY <1>2, <2>1, <2>4, <3>1, FinishUpdateMoves
    <3>2. CASE ScheduleRequestedDraw(f)
      BY <1>2, <2>1, <2>4, <3>2, RequestedDrawMoves
    <3>3. ASSUME NEW k \in Kind, MutexFree, UNCHANGED <<frames, completion>>,
                 \/ DrawThrows(f, k) \/ RecordSuccessor(f, k)
                 \/ FinishDraw(f, k) \/ DrawCompletes(f, k)
          PROVE  EngineInv'
      BY <1>2, <2>1, <2>4, <3>3, DrawTaskMoves
    <3>. QED
      BY <2>4, <3>1, <3>2, <3>3 DEF MutexStep
  <2>5. CASE SimulationEnds(f)
    BY <2>1, <2>5, SimulationMoves
  <2>. QED
    BY <2>2, <2>3, <2>4, <2>5 DEF WorkerStep
<1>. QED
  BY <1>3, <1>4

-----------------------------------------------------------------------------
(* Steps that leave the frames alone. *)

FramesStay == UNCHANGED <<frames, keys, runGeneration, record, task, completion, admission>>

(* The run goes on, begins to stop, or stays where no run is. *)
RunGoesOn ==
  \/ run' = run
  \/ run \in {"RUNNING", "STOPPING"} /\ run' = "STOPPING"
  \/ run \in {"CREATED", "STOPPED"} /\ run' = "STOPPED"

LEMMA Remains ==
  ASSUME EngineInv, FramesStay, RunGoesOn, RunTyped', HostTyped', HostSound', StoppersSound',
         run' \in {"CREATED", "STOPPED"} => host'.op \in {"none", "asleep"}
  PROVE  EngineInv'
<1>1. /\ state' = state /\ app' = app /\ generation' = generation /\ update' = update
      /\ draw' = draw /\ gpu' = gpu /\ checkpoint' = checkpoint /\ nextFrame' = nextFrame
      /\ runGeneration' = runGeneration /\ keys' = keys /\ record' = record /\ task' = task
      /\ completion' = completion /\ nextDraw' = nextDraw /\ admissionOpen' = admissionOpen
  BY DEF FramesStay, frames, admission
<1>2. SlotsTyped /\ FramesTyped
  BY TypesAre DEF EngineInv
<1>3. \A s \in Slot : Live(s) => run \in {"RUNNING", "STOPPING"}
  BY LiveIs DEF SlotIs
<1>4. run' = "RUNNING" => run = "RUNNING"
  BY DEF RunGoesOn
<1>5. TypeOK'
  <2>1. SlotsTyped' /\ FramesTyped'
    BY <1>1, <1>2 DEF SlotsTyped, FramesTyped
  <2>2. (SlotsTyped /\ FramesTyped /\ RunTyped /\ HostTyped)' => TypeOK'
    BY TypesAre, PTL
  <2>. QED
    BY <2>1, <2>2
<1>6. KeysSound'
  <2>1. run' \in {"RUNNING", "STOPPING"} => run \in {"RUNNING", "STOPPING"}
    BY DEF RunGoesOn
  <2>. QED
    BY <1>1, <2>1 DEF EngineInv, KeysSound
<1>7. RecordsMatchSlots' /\ CheckpointSound'
  BY <1>1 DEF EngineInv, RecordsMatchSlots, CheckpointSound, FrameIn, Live
<1>8. SlotsSound'
  <2>1. ASSUME NEW s \in Slot, Live(s)
        PROVE  FrameSound(record[s], task[app[s]], completion[app[s]], state[s], gpu[s], draw[s],
                          run')
    <3>1. run' \in {run, "STOPPING"}
      BY <1>3, <2>1 DEF RunGoesOn
    <3>2. FrameSound(record[s], task[app[s]], completion[app[s]], state[s], gpu[s], draw[s], run)
      BY <2>1, LiveIs DEF SlotIs
    <3>. QED
      BY <3>1, <3>2, LaterRun
  <2>. QED
    BY <1>1, <2>1 DEF EngineInv, SlotsSound, FrameIn, Live
<1>9. DeadSound'
  BY <1>1 DEF EngineInv, DeadSound, Dead, Live, FrameIn
<1>10. AdmissionSound'
  <2>1. DrawCheckpointFollows' <=> DrawCheckpointFollows
    BY <1>1 DEF DrawCheckpointFollows, FrameIn
  <2>2. \A s \in Slot : Live(s)' <=> Live(s)
    BY <1>1 DEF Live
  <2>. QED
    BY <1>1, <1>4, <2>1, <2>2 DEF EngineInv, AdmissionSound
<1>11. RestSound'
  <2>1. run' \in {"CREATED", "STOPPED"} => run \in {"CREATED", "STOPPED"}
    BY DEF RunGoesOn
  <2>. QED
    BY <1>1, <2>1 DEF EngineInv, RestSound
<1>. QED
  BY <1>5, <1>6, <1>7, <1>8, <1>9, <1>10, <1>11 DEF EngineInv

LEMMA RoomStays ==
  ASSUME FramesStay
  PROVE  /\ Room' <=> Room
         /\ \A s \in Slot : Live(s)' <=> Live(s)
BY DEF FramesStay, frames, Room, FS!IndicesLeft, FS!SlotOf, Live

(* What the orchestrating thread does with itself. *)
LEMMA HostMoves ==
  ASSUME EngineInv, FramesStay, UNCHANGED <<stopInProgress, completedStop, jobs, stopper>>,
         \/ UNCHANGED run
         \/ run' = "STOPPING" /\ host.op \in {"begin", "accept", "update"},
         lastError' \in BOOLEAN, HostTyped', HostSound',
         \/ host'.op \in {"none", "asleep"} \/ run = "RUNNING"
         \/ host'.op = host.op
  PROVE  EngineInv'
<1>1. RunTyped
  BY TypesAre DEF EngineInv
<1>2. RunTyped' /\ RunGoesOn
  <2>1. host.op \in {"begin", "accept", "update"} => run \in {"RUNNING", "STOPPING"}
    BY <1>1 DEF EngineInv, RestSound, RunTyped
  <2>2. RunGoesOn
    BY <2>1 DEF RunGoesOn
  <2>3. runGeneration' = runGeneration /\ nextDraw' = nextDraw /\ admissionOpen' = admissionOpen
    BY DEF FramesStay, admission
  <2>. QED
    BY <1>1, <2>2, <2>3 DEF RunTyped
<1>3. run' \in {"CREATED", "STOPPED"} => host'.op \in {"none", "asleep"}
  BY DEF EngineInv, RestSound
<1>4. StoppersSound'
  <2>1. runGeneration' = runGeneration /\ record' = record /\ completion' = completion
        /\ app' = app /\ task' = task /\ jobs' = jobs /\ stopper' = stopper
        /\ stopInProgress' = stopInProgress /\ completedStop' = completedStop
    BY DEF FramesStay, frames
  <2>2. \A p \in Stopper : Cleans(p)' <=> Cleans(p)
    BY <2>1 DEF Cleans
  <2>3. Idle' <=> Idle
    BY <2>1 DEF Idle
  <2>4. run' \in {"RUNNING", "STOPPING"} <=> run \in {"RUNNING", "STOPPING"}
    BY <1>1 DEF EngineInv, RestSound, RunTyped
  <2>5. (stopInProgress' => run' = "STOPPING") /\ completedStop' <= runGeneration'
        /\ (run' \in {"RUNNING", "STOPPING"} => completedStop' < runGeneration')
    BY <2>1, <2>4 DEF EngineInv, StoppersSound
  <2>6. \A p, q \in Stopper : Cleans(p)' /\ Cleans(q)' => p = q
    BY <2>2 DEF EngineInv, StoppersSound
  <2>7. ASSUME NEW p \in Stopper
        PROVE  /\ stopper'[p].observed <= runGeneration'
               /\ Cleans(p) => /\ stopInProgress' /\ stopper'[p].observed = runGeneration'
                               /\ host'.op \in {"none", "asleep"}
               /\ stopper'[p].at = "await" /\ stopper'[p].observed = runGeneration'
                    /\ run' \in {"RUNNING", "STOPPING"} => stopInProgress'
               /\ stopper'[p].at \in {"request", "waitIdle", "waitGpu"} => jobs' = {}
               /\ stopper'[p].at \in {"waitIdle", "waitGpu"} =>
                    \A s \in Slot : record'[s].hasUpdate => completion'[app'[s]].phase = "finished"
               /\ stopper'[p].at = "waitGpu" => Idle
    BY <2>1, <2>4 DEF EngineInv, StoppersSound
  <2>. QED
    BY <2>2, <2>3, <2>5, <2>6, <2>7 DEF StoppersSound
<1>. QED
  BY <1>2, <1>3, <1>4, Remains

LEMMA OccupyIs ==
  ASSUME NEW op, Occupy(op)
  PROVE  host' = [op |-> op, cursor |-> 0, failed |-> FALSE]
BY DEF Occupy, HostIdle

LEMMA HostCallsMove ==
  ASSUME EngineInv, HostCalls \/ WaitEnds
  PROVE  EngineInv'
<1>1. RunTyped /\ HostTyped
  BY TypesAre DEF EngineInv
<1>2. UNCHANGED idleRest /\ MutexFree /\ host.op \in {"none", "asleep"}
  BY DEF HostCalls, WaitEnds, MutexFree
<1>3. /\ FramesStay /\ UNCHANGED <<stopInProgress, completedStop, jobs, stopper>> /\ run' = run
      /\ completion' = completion /\ admissionOpen' = admissionOpen
  BY <1>2 DEF idleRest, FramesStay, pastRuns, admission
<1>4. /\ lastError' \in BOOLEAN
      /\ host' \in [op : {"none", "begin", "accept", "update", "asleep"},
                    cursor : 0 .. MaxActiveFrames, failed : BOOLEAN]
      /\ watch' \in {watch, "captured"}
      /\ \/ run = "RUNNING" \/ host'.op = "none" \/ host'.op = host.op
      /\ host'.op = "asleep" => watch \in {"refused", "news"} /\ watch' = watch
  <2>. DEFINE Hosts == [op : {"none", "begin", "accept", "update", "asleep"},
                        cursor : 0 .. MaxActiveFrames, failed : BOOLEAN]
  <2>1. ASSUME NEW op \in {"none", "begin", "accept", "update", "asleep"}, Occupy(op)
        PROVE  host' \in Hosts /\ host'.op = op
    <3>1. host' = [op |-> op, cursor |-> 0, failed |-> FALSE]
      BY <2>1, OccupyIs
    <3>. QED
      BY <3>1, Numbers
  <2>2. ASSUME UNCHANGED host
        PROVE  host' \in Hosts /\ host'.op = host.op
    BY <1>1, <1>2, <2>2 DEF HostTyped
  <2>. HIDE DEF Hosts
  <2>3. lastError \in BOOLEAN
    BY <1>1 DEF RunTyped
  <2>4. ASSUME NEW op \in {"begin", "accept", "update"}, Enter(op)
        PROVE  /\ lastError' \in BOOLEAN /\ host' \in Hosts /\ watch' = watch /\ run = "RUNNING"
               /\ host'.op = op
    BY <2>1, <2>3, <2>4 DEF Enter
  <2>5. CASE TryBeginFrame \/ CanAcceptUpdate \/ Update
    BY <2>4, <2>5 DEF TryBeginFrame, CanAcceptUpdate, Update, Hosts
  <2>6. CASE WaitForProgress
    BY <2>1, <2>3, <2>6 DEF WaitForProgress, Enter, Hosts
  <2>7. CASE CaptureVersion /\ host.op = "none"
    BY <2>2, <2>3, <2>7 DEF CaptureVersion, Hosts
  <2>8. CASE ClearLastError /\ host.op = "none"
    BY <2>2, <2>8 DEF ClearLastError, Hosts
  <2>9. CASE WaitEnds
    BY <2>1, <2>3, <2>9 DEF WaitEnds, Hosts
  <2>. QED
    BY <2>5, <2>6, <2>7, <2>8, <2>9 DEF HostCalls
<1>5. HostTyped'
  BY <1>1, <1>3, <1>4 DEF HostTyped
<1>6. HostSound'
  <2>1. Room' <=> Room
    BY <1>3, RoomStays
  <2>2. \A f \in Frame : completion'[f].phase # "drawing"
    BY <1>2, <1>3 DEF MutexFree
  <2>. QED
    BY <1>2, <1>3, <1>4, <2>1, <2>2 DEF EngineInv, HostSound
<1>. QED
  BY <1>3, <1>4, <1>5, <1>6, HostMoves

(* The slots that the reaping leaves. *)
LEMMA ReapsNothing ==
  ASSUME EngineInv, Reap, ReapSkip \/ ReapAwaitGpu
  PROVE  EngineInv'
<1>1. RunTyped /\ HostTyped
  BY TypesAre DEF EngineInv
<1>2. /\ host.op \in {"begin", "accept", "update"} /\ host.cursor < MaxActiveFrames
      /\ UNCHANGED <<pastRuns, admission, jobs, stopper>>
      /\ UNCHANGED <<frames, record, task, completion>> /\ Advance
  BY DEF Reap, ReapSkip, ReapAwaitGpu, InReapingCall, cursor
<1>3. /\ FramesStay /\ UNCHANGED <<stopInProgress, completedStop, jobs, stopper>>
      /\ completion' = completion /\ admissionOpen' = admissionOpen
  BY <1>2 DEF FramesStay, pastRuns, admission
<1>4. /\ run' = run \/ run' = "STOPPING"
      /\ lastError' \in BOOLEAN /\ watch' \in {watch, "news"}
  BY <1>1 DEF ReapSkip, ReapAwaitGpu, NoteFailure, Fail, NoFailure, Notify, RunTyped
<1>5. host' \in [op : {host.op}, cursor : 0 .. MaxActiveFrames, failed : BOOLEAN]
  <2>1. host.cursor \in 0 .. MaxActiveFrames
    BY <1>1 DEF HostTyped
  <2>2. host.cursor + 1 \in 0 .. MaxActiveFrames
    BY <1>2, <2>1, Numbers
  <2>3. host' = [host EXCEPT !.cursor = host.cursor + 1, !.failed = FALSE]
    BY <1>2 DEF Advance
  <2>. QED
    BY <1>1, <2>2, <2>3 DEF HostTyped
<1>6. HostTyped'
  BY <1>1, <1>3, <1>4, <1>5 DEF HostTyped
<1>7. HostSound'
  <2>1. host'.op = host.op
    BY <1>5
  <2>. QED
    BY <1>2, <1>3, <2>1 DEF EngineInv, HostSound
<1>. QED
  BY <1>2, <1>3, <1>4, <1>5, <1>6, <1>7, HostMoves

LEMMA RefuseMoves ==
  ASSUME EngineInv, EndReaping, Refuse
  PROVE  EngineInv'
<1>1. RunTyped /\ HostTyped
  BY TypesAre DEF EngineInv
<1>2. /\ FramesStay /\ UNCHANGED <<stopInProgress, completedStop, jobs, stopper>>
      /\ run' = run /\ admissionOpen' = admissionOpen /\ lastError' = lastError
  BY DEF EndReaping, Refuse, FramesStay, admission
<1>3. host' = HostIdle
  BY DEF Refuse, Occupy, HostIdle
<1>4. watch' \in {watch, "none", "refused"}
  BY DEF Refuse
<1>5. ASSUME watch' = "refused", run = "RUNNING", admissionOpen, Room
      PROVE  FALSE
  <2>1. host.op = "accept"
    BY <1>5 DEF Refuse
  <2>2. watch' = "none"
    BY <1>5, <2>1 DEF Refuse
  <2>. QED
    BY <1>5, <2>2
<1>6. HostTyped'
  BY <1>1, <1>2, <1>3, <1>4, Numbers DEF HostTyped, HostIdle
<1>7. HostSound'
  <2>1. Room' <=> Room
    BY <1>2, RoomStays
  <2>. QED
    BY <1>2, <1>3, <1>5, <2>1 DEF HostSound, HostIdle
<1>8. host'.op = "none" /\ lastError' \in BOOLEAN
  BY <1>1, <1>2, <1>3 DEF HostIdle, RunTyped
<1>. QED
  BY <1>2, <1>6, <1>7, <1>8, HostMoves

(* User jobs come only while the engine runs. *)
LEMMA JobsMove ==
  ASSUME EngineInv, JobStep
  PROVE  EngineInv'
<1>1. RunTyped /\ HostTyped
  BY TypesAre DEF EngineInv
<1>2. /\ FramesStay /\ UNCHANGED <<stopInProgress, completedStop, stopper>>
      /\ UNCHANGED <<run, runGeneration, nextDraw, admissionOpen, lastError, host, watch>>
      /\ UNCHANGED <<record, completion, app, task>>
  BY DEF JobStep, FramesStay, frames, pastRuns, admission
<1>3. jobs' \subseteq Job /\ (jobs = {} => jobs' = {} \/ run = "RUNNING")
  BY <1>1 DEF JobStep, SubmitUserJob, JobEnds, HostTyped
<1>4. RunTyped' /\ HostTyped' /\ RunGoesOn
  BY <1>1, <1>2, <1>3 DEF RunTyped, HostTyped, RunGoesOn
<1>5. HostSound'
  <2>1. (Room' <=> Room) /\ \A s \in Slot : Live(s)' <=> Live(s)
    BY <1>2, RoomStays
  <2>2. nextFrame' = nextFrame
    BY <1>2 DEF FramesStay, frames
  <2>. QED
    BY <1>2, <2>1, <2>2 DEF EngineInv, HostSound
<1>6. StoppersSound'
  <2>1. \A p \in Stopper : Cleans(p)' <=> Cleans(p)
    BY <1>2 DEF Cleans
  <2>2. Idle' <=> Idle
    BY <1>2 DEF Idle
  <2>3. ASSUME NEW p \in Stopper, stopper[p].at \in {"request", "waitIdle", "waitGpu"}
        PROVE  jobs' = {}
    BY <1>3, <2>3 DEF EngineInv, StoppersSound, Cleans
  <2>. QED
    BY <1>2, <2>1, <2>2, <2>3 DEF EngineInv, StoppersSound
<1>7. run' \in {"CREATED", "STOPPED"} => host'.op \in {"none", "asleep"}
  BY <1>2 DEF EngineInv, RestSound
<1>. QED
  BY <1>2, <1>4, <1>5, <1>6, <1>7, Remains

(* A caller of Stop, p, goes to "to" having observed generation g. *)
Goes(p, to, g) == stopper' = [stopper EXCEPT ![p] = [at |-> to, observed |-> g]]

LEMMA GoesIs ==
  ASSUME EngineInv, NEW p \in Stopper, NEW to, GoTo(p, to)
  PROVE  Goes(p, to, stopper[p].observed)
<1>1. stopper \in [Stopper ->
         [at : {"out", "called", "await", "joinJobs", "request", "waitIdle", "waitGpu"},
          observed : 0 .. LastRun]]
  BY TypesAre DEF EngineInv, HostTyped
<1>2. [stopper[p] EXCEPT !.at = to] = [at |-> to, observed |-> stopper[p].observed]
  BY <1>1
<1>3. stopper' = [stopper EXCEPT ![p] = [stopper[p] EXCEPT !.at = to]]
  BY DEF GoTo
<1>. QED
  BY <1>2, <1>3 DEF Goes

(* What is asked of where it goes. *)
MayGo(p, to, g) ==
  /\ g <= runGeneration
  /\ to \in {"joinJobs", "request", "waitIdle", "waitGpu"} =>
       /\ stopInProgress' /\ g = runGeneration /\ host.op \in {"none", "asleep"}
       /\ \A q \in Stopper : q # p => ~ Cleans(q)
  /\ to = "await" /\ g = runGeneration /\ run' \in {"RUNNING", "STOPPING"} => stopInProgress'
  /\ to \in {"request", "waitIdle", "waitGpu"} => jobs = {}
  /\ to \in {"waitIdle", "waitGpu"} =>
       \A s \in Slot : record[s].hasUpdate => completion[app[s]].phase = "finished"
  /\ to = "waitGpu" => Idle

LEMMA StopperMoves ==
  ASSUME EngineInv, FramesStay, NEW p \in Stopper,
         NEW to \in {"out", "called", "await", "joinJobs", "request", "waitIdle", "waitGpu"},
         NEW g \in 0 .. LastRun, Goes(p, to, g), MayGo(p, to, g),
         UNCHANGED <<completedStop, lastError, host, jobs>>, watch' \in {watch, "news"},
         \/ UNCHANGED <<run, stopInProgress>>
         \/ /\ run \in {"CREATED", "STOPPED"} /\ run' = "STOPPED" /\ UNCHANGED stopInProgress
         \/ /\ run \in {"RUNNING", "STOPPING"} /\ run' = "STOPPING"
            /\ stopInProgress' = TRUE /\ host.op \in {"none", "asleep"}
  PROVE  EngineInv'
<1>1. RunTyped /\ HostTyped
  BY TypesAre DEF EngineInv
<1>2. /\ runGeneration' = runGeneration /\ record' = record /\ completion' = completion
      /\ app' = app /\ task' = task /\ jobs' = jobs /\ completedStop' = completedStop
      /\ host' = host /\ lastError' = lastError /\ nextDraw' = nextDraw
      /\ admissionOpen' = admissionOpen /\ nextFrame' = nextFrame
  BY DEF FramesStay, frames, admission
<1>3. RunGoesOn /\ RunTyped'
  BY <1>1, <1>2 DEF RunGoesOn, RunTyped
<1>4. stopper'[p] = [at |-> to, observed |-> g] /\ \A q \in Stopper : q # p => stopper'[q] = stopper[q]
  BY <1>1 DEF Goes, HostTyped
<1>5. HostTyped'
  <2>1. stopper' \in [Stopper ->
          [at : {"out", "called", "await", "joinJobs", "request", "waitIdle", "waitGpu"},
           observed : 0 .. LastRun]]
    BY <1>1 DEF Goes, HostTyped
  <2>. QED
    BY <1>1, <1>2, <2>1 DEF HostTyped
<1>6. HostSound'
  <2>1. (Room' <=> Room) /\ \A s \in Slot : Live(s)' <=> Live(s)
    BY RoomStays
  <2>2. host.op = "arm" => run' = "RUNNING"
    BY DEF EngineInv, HostSound
  <2>3. run' = "RUNNING" => run = "RUNNING"
    BY DEF RunGoesOn
  <2>. QED
    BY <1>2, <2>1, <2>2, <2>3 DEF EngineInv, HostSound
<1>7. StoppersSound'
  <2>1. (stopInProgress' => run' = "STOPPING") /\ completedStop' <= runGeneration'
        /\ (run' \in {"RUNNING", "STOPPING"} => completedStop' < runGeneration')
        /\ (stopInProgress => stopInProgress')
    BY <1>2 DEF EngineInv, StoppersSound
  <2>2. Idle' <=> Idle
    BY <1>2 DEF Idle
  <2>3. Cleans(p)' <=> to \in {"joinJobs", "request", "waitIdle", "waitGpu"}
    BY <1>4 DEF Cleans
  <2>4. \A q \in Stopper : q # p => (Cleans(q)' <=> Cleans(q))
    BY <1>4 DEF Cleans
  <2>5. \A q, x \in Stopper : Cleans(q)' /\ Cleans(x)' => q = x
    BY <2>3, <2>4 DEF EngineInv, StoppersSound, MayGo
  <2>6. ASSUME NEW q \in Stopper
        PROVE  /\ stopper'[q].observed <= runGeneration'
               /\ Cleans(q)' => /\ stopInProgress' /\ stopper'[q].observed = runGeneration'
                                /\ host'.op \in {"none", "asleep"}
               /\ stopper'[q].at = "await" /\ stopper'[q].observed = runGeneration'
                    /\ run' \in {"RUNNING", "STOPPING"} => stopInProgress'
               /\ stopper'[q].at \in {"request", "waitIdle", "waitGpu"} => jobs' = {}
               /\ stopper'[q].at \in {"waitIdle", "waitGpu"} =>
                    \A s \in Slot : record'[s].hasUpdate => completion'[app'[s]].phase = "finished"
               /\ stopper'[q].at = "waitGpu" => Idle'
    <3>1. CASE q = p
      BY <3>1, <1>2, <1>4, <2>2, <2>3 DEF MayGo
    <3>2. CASE q # p
      <4>1. run' \in {"RUNNING", "STOPPING"} => run \in {"RUNNING", "STOPPING"}
        OBVIOUS
      <4>. QED
        BY <3>2, <4>1, <1>2, <1>4, <2>1, <2>2, <2>4 DEF EngineInv, StoppersSound
    <3>. QED
      BY <3>1, <3>2
  <2>. QED
    BY <2>1, <2>5, <2>6 DEF StoppersSound
<1>8. run' \in {"CREATED", "STOPPED"} => host'.op \in {"none", "asleep"}
  BY <1>2 DEF EngineInv, RestSound
<1>. QED
  BY <1>3, <1>5, <1>6, <1>7, <1>8, Remains

LEMMA StopWaits ==
  ASSUME EngineInv, NEW p \in Stopper,
         \/ Stop(p)
         \/ /\ StopWork(p)
            /\ \/ BeginStop(p) \/ AwaitStop(p) \/ JoinUserJobs(p) \/ JoinUpdates(p)
               \/ WaitIdle(p)
  PROVE  EngineInv'
<1>1. RunTyped /\ HostTyped
  BY TypesAre DEF EngineInv
<1>. DEFINE g == stopper[p].observed
<1>2. g \in 0 .. LastRun /\ g <= runGeneration /\ runGeneration \in 0 .. LastRun
  BY <1>1 DEF HostTyped, RunTyped, EngineInv, StoppersSound
<1>3. FramesStay /\ UNCHANGED <<completedStop, lastError, host, jobs>>
  BY DEF Stop, StopWork, BeginStop, AwaitStop, JoinUserJobs, JoinUpdates, WaitIdle, Waits,
         FramesStay, frames, pastRuns, admission
<1>4. watch' \in {watch, "news"}
  BY DEF Stop, BeginStop, AwaitStop, JoinUserJobs, JoinUpdates, WaitIdle, Waits, Notify
<1>5. \A to : GoTo(p, to) => Goes(p, to, g)
  BY GoesIs
<1>6. /\ Cleans(p) => /\ stopInProgress /\ g = runGeneration /\ host.op \in {"none", "asleep"}
                      /\ \A q \in Stopper : q # p => ~ Cleans(q)
      /\ ~ stopInProgress => \A q \in Stopper : ~ Cleans(q)
  BY DEF EngineInv, StoppersSound
<1>. HIDE DEF g
<1>7. CASE Stop(p)
  <2>1. Goes(p, "called", runGeneration) /\ UNCHANGED <<run, stopInProgress>>
    BY <1>7 DEF Stop, Goes, pastRuns
  <2>2. MayGo(p, "called", runGeneration)
    BY <1>2 DEF MayGo
  <2>. QED
    BY <1>2, <1>3, <1>4, <2>1, <2>2, StopperMoves
<1>8. CASE BeginStop(p)
  <2>1. MutexFree /\ host.op \in {"none", "asleep"}
    BY <1>8 DEF BeginStop, MutexFree
  <2>2. CASE /\ run \in {"CREATED", "STOPPED"} /\ run' = "STOPPED" /\ GoTo(p, "out")
             /\ UNCHANGED <<stopInProgress, watch>>
    <3>1. MayGo(p, "out", g)
      BY <1>2 DEF MayGo
    <3>. QED
      BY <1>2, <1>3, <1>4, <1>5, <2>2, <3>1, StopperMoves
  <2>3. CASE /\ run \in {"RUNNING", "STOPPING"}
             /\ stopInProgress \/ runGeneration # g
             /\ GoTo(p, IF stopInProgress THEN "await" ELSE "out")
             /\ UNCHANGED <<run, stopInProgress, watch>>
    <3>1. CASE stopInProgress
      <4>1. MayGo(p, "await", g)
        BY <1>2, <2>3, <3>1 DEF MayGo
      <4>. QED
        BY <1>2, <1>3, <1>4, <1>5, <2>3, <3>1, <4>1, StopperMoves
    <3>2. CASE ~ stopInProgress
      <4>1. MayGo(p, "out", g)
        BY <1>2 DEF MayGo
      <4>. QED
        BY <1>2, <1>3, <1>4, <1>5, <2>3, <3>2, <4>1, StopperMoves
    <3>. QED
      BY <3>1, <3>2
  <2>4. CASE /\ run \in {"RUNNING", "STOPPING"} /\ ~ stopInProgress /\ runGeneration = g
             /\ stopInProgress' = TRUE /\ run' = "STOPPING" /\ Notify /\ GoTo(p, "joinJobs")
    <3>1. MayGo(p, "joinJobs", g)
      BY <1>2, <1>6, <2>1, <2>4 DEF MayGo
    <3>. QED
      BY <1>2, <1>3, <1>4, <1>5, <2>1, <2>4, <3>1, StopperMoves
  <2>. QED
    BY <1>8, <2>2, <2>3, <2>4 DEF BeginStop, g
<1>9. CASE AwaitStop(p)
  <2>1. GoTo(p, "out") /\ UNCHANGED <<run, stopInProgress>>
    BY <1>9 DEF AwaitStop, Waits
  <2>2. MayGo(p, "out", g)
    BY <1>2 DEF MayGo
  <2>. QED
    BY <1>2, <1>3, <1>4, <1>5, <2>1, <2>2, StopperMoves
<1>10. CASE JoinUserJobs(p)
  <2>1. GoTo(p, "request") /\ UNCHANGED <<run, stopInProgress>> /\ Cleans(p) /\ jobs = {}
    BY <1>10 DEF JoinUserJobs, Waits, Cleans
  <2>2. MayGo(p, "request", g)
    BY <1>2, <1>6, <2>1 DEF MayGo
  <2>. QED
    BY <1>2, <1>3, <1>4, <1>5, <2>1, <2>2, StopperMoves
<1>11. CASE JoinUpdates(p)
  <2>1. /\ GoTo(p, "waitIdle") /\ UNCHANGED <<run, stopInProgress>> /\ Cleans(p)
        /\ stopper[p].at = "request" /\ \A f \in Updates : Joined(f)
    BY <1>11 DEF JoinUpdates, Waits, Cleans
  <2>2. jobs = {}
    BY <2>1 DEF EngineInv, StoppersSound
  <2>3. ASSUME NEW s \in Slot, record[s].hasUpdate
        PROVE  completion[app[s]].phase = "finished"
    <3>1. Live(s)
      BY <2>3 DEF EngineInv, RecordsMatchSlots, Live, EmptyRecord
    <3>2. FrameIn(s).app = app[s]
      BY <3>1, LiveIs DEF SlotIs
    <3>3. app[s] \in Updates
      BY <2>3, <3>2 DEF Updates
    <3>. QED
      BY <2>1, <3>3 DEF Joined
  <2>4. MayGo(p, "waitIdle", g)
    BY <1>2, <1>6, <2>1, <2>2, <2>3 DEF MayGo
  <2>. QED
    BY <1>2, <1>3, <1>4, <1>5, <2>1, <2>4, StopperMoves
<1>12. CASE WaitIdle(p)
  <2>1. /\ GoTo(p, "waitGpu") /\ UNCHANGED <<run, stopInProgress>> /\ Cleans(p) /\ Idle
        /\ stopper[p].at = "waitIdle"
    BY <1>12 DEF WaitIdle, Waits, Cleans
  <2>2. jobs = {} /\ \A s \in Slot : record[s].hasUpdate => completion[app[s]].phase = "finished"
    BY <2>1 DEF EngineInv, StoppersSound
  <2>3. MayGo(p, "waitGpu", g)
    BY <1>2, <1>6, <2>1, <2>2 DEF MayGo
  <2>. QED
    BY <1>2, <1>3, <1>4, <1>5, <2>1, <2>3, StopperMoves
<1>. QED
  BY <1>7, <1>8, <1>9, <1>10, <1>11, <1>12

LEMMA StopUpdateMoves ==
  ASSUME EngineInv, NEW p \in Stopper, NEW f \in Frame, StopWork(p), StopUpdate(p, f)
  PROVE  EngineInv'
<1>1. PICK s \in Slot : record[s].hasUpdate /\ FrameIn(s).app = f
  BY DEF StopUpdate, Updates
<1>2. Live(s)
  BY <1>1 DEF EngineInv, RecordsMatchSlots, Live, EmptyRecord
<1>3. app[s] = f
  BY <1>1, <1>2, LiveIs DEF SlotIs
<1>. DEFINE c == StoppedOf(completion[f])
<1>4. /\ task[f] \in Tasks /\ completion[f] \in Completions
      /\ FrameSound(record[s], task[f], completion[f], state[s], gpu[s], draw[s], run)
  BY <1>2, <1>3, FrameIs
<1>5. UNCHANGED localRest /\ task' = [task EXCEPT ![f] = task[f]]
      /\ completion' = [completion EXCEPT ![f] = c]
  BY <1>2, <1>3, Stays, CompletionIs DEF StopWork, StopUpdate, localRest, pastRuns
<1>6. c \in Completions /\ c.phase = completion[f].phase
  BY <1>4, CompletionsOf DEF Outcome
<1>7. FrameSound(record[s], task[f], c, state[s], gpu[s], draw[s], run)
  BY <1>1, <1>4, CompletionSound
<1>. HIDE DEF c
<1>. QED
  BY <1>1, <1>2, <1>3, <1>4, <1>5, <1>6, <1>7, KeepsSame, LocalMoves

(* What a slot is reaped for. *)
LEMMA CollectableIs ==
  ASSUME EngineInv, InReapingCall, cursor < MaxActiveFrames, Collectable(cursor)
  PROVE  /\ cursor \in Slot /\ Live(cursor) /\ host.op # "arm"
         /\ DrawStatus(cursor) = task[app[cursor]][record[cursor].drawTask]
         /\ record[cursor].drawTask # "none"
         /\ task[app[cursor]][record[cursor].drawTask] \in Terminal
<1>1. cursor \in Slot
  BY TypesAre, Numbers DEF EngineInv, HostTyped, cursor, Slot
<1>2. Live(cursor)
  BY <1>1 DEF Collectable, EngineInv, RecordsMatchSlots, Live, EmptyRecord
<1>3. FrameIn(cursor).app = app[cursor]
  BY <1>1, <1>2, LiveIs DEF SlotIs
<1>. QED
  BY <1>1, <1>2, <1>3 DEF Collectable, DrawStatus, InReapingCall

LEMMA GpuReapMoves ==
  ASSUME EngineInv, Reap, Collectable(cursor), ReapBeginGpu \/ ReapCompleteGpu
  PROVE  EngineInv'
<1>1. InReapingCall /\ cursor < MaxActiveFrames /\ UNCHANGED <<pastRuns, admission, jobs, stopper>>
  BY DEF Reap
<1>2. /\ cursor \in Slot /\ Live(cursor) /\ host.op # "arm"
      /\ record[cursor].drawTask # "none"
      /\ task[app[cursor]][record[cursor].drawTask] \in Terminal
  BY <1>1, CollectableIs
<1>3. PICK s \in Slot : s = cursor
  BY <1>2
<1>4. RunTyped /\ HostTyped
  BY TypesAre DEF EngineInv
<1>5. /\ task[app[s]] \in Tasks /\ completion[app[s]] \in Completions
      /\ record[s] \in RecordOf(keys) /\ gpu[s] \in FutureState
      /\ FrameSound(record[s], task[app[s]], completion[app[s]], state[s], gpu[s], draw[s], run)
  BY <1>2, <1>3, FrameIs, SlotsHaveTypes
<1>6. PICK st \in {"GPU_IN_FLIGHT", "COMPLETE"} :
        /\ state' = [state EXCEPT ![s] = st] /\ gpu' = gpu /\ SchedulerKeeps /\ gpu[s] # "none"
        /\ \/ state[s] = "SUBMITTED" /\ st = "GPU_IN_FLIGHT"
           \/ state[s] = "GPU_IN_FLIGHT" /\ st = "COMPLETE" /\ gpu[s] = "ready"
  <2>1. CASE ReapBeginGpu
    BY <1>2, <1>3, <2>1, CallsAre DEF ReapBeginGpu
  <2>2. CASE ReapCompleteGpu
    BY <1>2, <1>3, <2>2, CallsAre DEF ReapCompleteGpu
  <2>. QED
    BY <2>1, <2>2
<1>7. FrameSound(record[s], task[app[s]], completion[app[s]], st, gpu[s], draw[s], run)
      /\ record[s].hasUpdate
  <2>. DEFINE f == app[s]
              k == record[s].drawTask
  <2>1. k # "none" /\ task[f][k] \in Terminal /\ gpu[s] # "none"
    BY <1>2, <1>3, <1>6
  <2>2. FrameSound(record[s], task[f], completion[f], state[s], gpu[s], draw[s], run)
    BY <1>5
  <2>3. CASE state[s] = "SUBMITTED" /\ st = "GPU_IN_FLIGHT"
    BY <2>1, <2>2, <2>3, GpuGoesOn
  <2>4. CASE state[s] = "GPU_IN_FLIGHT" /\ st = "COMPLETE" /\ gpu[s] = "ready"
    BY <2>1, <2>2, <2>4, GpuGoesOn
  <2>. QED
    BY <1>6, <2>3, <2>4
<1>8. UNCHANGED <<record, task, completion>>
  BY DEF ReapBeginGpu, ReapCompleteGpu
<1>9. Becomes(s, record[s], task[app[s]], completion[app[s]], st, gpu[s])
  BY <1>1, <1>2, <1>3, <1>6, <1>8, Stays DEF Becomes, Takes, SchedulerKeeps, pastRuns, admission
<1>10. Conducts
  <2>1. /\ run' = run \/ run' = "STOPPING"
        /\ lastError' \in BOOLEAN /\ watch' \in {watch, "news"}
    BY <1>4 DEF ReapBeginGpu, ReapCompleteGpu, NoteFailure, Fail, NoFailure, Notify, RunTyped
  <2>2. host' = host \/ host' = [host EXCEPT !.failed = TRUE]
    BY DEF ReapBeginGpu, ReapCompleteGpu
  <2>3. host' \in [op : {host.op}, cursor : 0 .. MaxActiveFrames, failed : BOOLEAN]
    BY <1>4, <2>2 DEF HostTyped
  <2>. QED
    BY <1>2, <2>1, <2>3 DEF Conducts
<1>11. UNCHANGED admissionOpen /\ st \in FrameState
  BY <1>1 DEF admission, FrameState
<1>. QED
  BY <1>2, <1>3, <1>5, <1>7, <1>9, <1>10, <1>11, KeepsSame, Moves

(* The update of a begun frame is published. *)
Arms(r, r2) ==
  /\ ~ r.hasUpdate /\ r2.hasUpdate /\ r2.drawTask = r.drawTask /\ r2.requested = r.requested
  /\ r2.succeeded = r.succeeded
OpensUpdate(c, c2) == c2.phase = "open" /\ c2.cancel = c.cancel

LEMMA PublishedSound ==
  ASSUME NEW r, NEW t, NEW c, NEW st, NEW g, NEW d, NEW rn,
         FrameSound(r, t, c, st, g, d, rn), NEW r2, NEW u, NEW c2,
         Arms(r, r2), Moved(t, u, "update", "waiting"), OpensUpdate(c, c2)
  PROVE  /\ FrameSound(r2, u, c2, "WAITING_UPDATE", g, d, rn)
         /\ PreExtract(r, t) /\ ~ Opened(u) /\ c = NoCompletion
<1>1. /\ r.drawTask = "none" /\ ~ r.requested /\ ~ r.succeeded
      /\ t = NoTasks /\ c = NoCompletion /\ st = "ACQUIRED" /\ g = "none" /\ d = 0
  BY DEF FrameSound, Begun, Arms
<1>2. u["update"] = "waiting" /\ \A k \in Kind \ {"update"} : u[k] = "none"
  BY <1>1 DEF Moved, NoTasks
<1>3. /\ c2.cancel = "unbound" /\ c2.phase = "open"
      /\ r2.hasUpdate /\ r2.drawTask = "none" /\ ~ r2.requested /\ ~ r2.succeeded
  BY <1>1 DEF NoCompletion, OpensUpdate, Arms
<1>4. UpdateSound(r2, u, c2, "WAITING_UPDATE", d, rn)
  BY <1>1, <1>2, <1>3 DEF UpdateSound
<1>5. DrawSound(r2, u, "WAITING_UPDATE", g, d, rn) /\ GpuSound("WAITING_UPDATE", g)
  BY <1>1, <1>2, <1>3 DEF DrawSound, GpuSound
<1>6. ~ Opened(u)
  BY <1>2 DEF Opened, Opener, Extracting, Preparing, Kind
<1>. QED
  BY <1>1, <1>3, <1>4, <1>5, <1>6 DEF FrameSound, Begun, TasksSound, PreExtract

LEMMA PublishMoves ==
  ASSUME EngineInv, NEW s \in Slot, Live(s), ~ record[s].hasUpdate, run = "RUNNING",
         PublishUpdate(record[s].key), FS!ArmFrame(FrameIn(s)),
         record' = [record EXCEPT ![s].hasUpdate = TRUE], Move(app[s], "update", "waiting"),
         completion' = [completion EXCEPT ![app[s]].phase = "open"], NoFailure,
         host' \in [op : {host.op, "none"}, cursor : 0 .. MaxActiveFrames, failed : BOOLEAN],
         host'.op # "arm", host'.op # host.op => host.op = "arm"
  PROVE  EngineInv'
<1>. DEFINE f == app[s]
            r == [record[s] EXCEPT !.hasUpdate = TRUE]
            t == Put(task[f], "update", "waiting")
            c == PhaseOf(completion[f], "open")
<1>1. /\ f \in Frame /\ task[f] \in Tasks /\ completion[f] \in Completions
      /\ record[s] \in RecordOf(keys) /\ gpu[s] \in FutureState
      /\ FrameSound(record[s], task[f], completion[f], state[s], gpu[s], draw[s], run)
  BY FrameIs, SlotsHaveTypes
<1>2. UNCHANGED <<pastRuns, admission, jobs, stopper>> /\ watch' = "news"
  BY DEF PublishUpdate, Notify
<1>3. /\ state' = [state EXCEPT ![s] = "WAITING_UPDATE"] /\ gpu' = [gpu EXCEPT ![s] = gpu[s]]
      /\ SchedulerKeeps
  <2>1. FrameIn(s).slot = s
    BY LiveIs DEF SlotIs
  <2>. QED
    BY <2>1, Stays DEF FS!ArmFrame, FS!Transition, FS!restVars, SchedulerKeeps
<1>4. /\ r \in RecordOf(keys) /\ r.key = record[s].key /\ r.drawTask = record[s].drawTask
      /\ r.requested = record[s].requested /\ r.succeeded = record[s].succeeded /\ r.hasUpdate
  BY <1>1 DEF RecordOf
<1>5. t \in Tasks /\ Moved(task[f], t, "update", "waiting") /\ task' = [task EXCEPT ![f] = t]
  <2>1. "update" \in Kind /\ "waiting" \in Place
    BY DEF Kind, Place
  <2>. QED
    BY <1>1, <2>1, PutIs, MoveIs
<1>6. c \in Completions /\ c.phase = "open" /\ c.cancel = completion[f].cancel
      /\ completion' = [completion EXCEPT ![f] = c]
  <2>1. "COMPLETED" \in Outcome
    BY DEF Outcome
  <2>2. c \in Completions /\ c.phase = "open" /\ c.cancel = completion[f].cancel
    BY <1>1, <2>1, CompletionsOf
  <2>. QED
    BY <2>2 DEF PhaseOf
<1>7. record' = [record EXCEPT ![s] = r]
  OBVIOUS
<1>. HIDE DEF r, t, c
<1>8. /\ FrameSound(r, t, c, "WAITING_UPDATE", gpu[s], draw[s], run)
      /\ PreExtract(record[s], task[f]) /\ ~ Opened(t) /\ completion[f] = NoCompletion
  <2>1. Arms(record[s], r) /\ OpensUpdate(completion[f], c) /\ Moved(task[f], t, "update", "waiting")
    BY <1>4, <1>5, <1>6 DEF Arms, OpensUpdate
  <2>. QED
    BY <1>1, <2>1, PublishedSound
<1>9. run' = run /\ lastError' = lastError /\ RunTyped
  BY TypesAre DEF EngineInv, NoFailure
<1>10. Becomes(s, r, t, c, "WAITING_UPDATE", gpu[s])
  BY <1>2, <1>3, <1>5, <1>6, <1>7, Stays DEF Becomes, Takes, SchedulerKeeps, pastRuns, admission
<1>11. Conducts
  BY <1>2, <1>9 DEF Conducts, RunTyped
<1>12. Fits(s, r, t, c, "WAITING_UPDATE", gpu[s], draw[s])
  <2>1. draw[s] \in Index /\ checkpoint \in {"UPDATE", "DRAW"}
    BY TypesAre DEF EngineInv, SlotsTyped
  <2>. QED
    BY <1>1, <1>3, <1>4, <1>5, <1>6, <1>8, <1>9, <2>1 DEF Fits, SchedulerKeeps, FrameState
<1>13. Follows(s, r, t, c)
  BY <1>4, <1>6, <1>8 DEF Follows, NoCompletion
<1>14. Admits(s, r, t)
  BY <1>2, <1>8 DEF Admits, admission
<1>. QED
  BY <1>10, <1>11, <1>12, <1>13, <1>14, FrameMoves

-----------------------------------------------------------------------------
(* A frame leaves its slot: it is reaped, aborted, or its update could not be
   published. *)

ReleasedCheckpoint(s) ==
  IF checkpoint = "DRAW" /\ draw[s] = 0 /\ app[s] + 1 = nextFrame THEN "UPDATE" ELSE checkpoint

Vacates(s, c) ==
  /\ record' = [record EXCEPT ![s] = EmptyRecord]
  /\ task' = [task EXCEPT ![app[s]] = NoTasks]
  /\ completion' = [completion EXCEPT ![app[s]] = c]
  /\ state' = [state EXCEPT ![s] = "FREE"] /\ gpu' = [gpu EXCEPT ![s] = "none"]
  /\ app' = [app EXCEPT ![s] = InvalidIndex]
  /\ update' = [update EXCEPT ![s] = 0] /\ draw' = [draw EXCEPT ![s] = 0]
  /\ checkpoint' = ReleasedCheckpoint(s)
  /\ UNCHANGED <<generation, nextFrame, keys, runGeneration, stopInProgress, completedStop, jobs,
                 stopper>>
  /\ c \in Completions /\ c.phase \in {"none", "applied", "finished"}

(* What it leaves of the books of the host. *)
Releases(s) ==
  /\ run' \in {run, "STOPPING"} /\ lastError' \in BOOLEAN /\ watch' \in {watch, "news"}
  /\ host' \in [op : {host.op, "none"}, cursor : 0 .. MaxActiveFrames, failed : BOOLEAN]
  /\ host'.op # "arm"
  /\ watch' = "news" \/ host'.op \notin {"none", "asleep"}
  /\ nextDraw' \in 0 .. InvalidIndex
  /\ \/ admissionOpen' = admissionOpen
     \/ admissionOpen' = TRUE /\ app[s] + 1 = nextFrame
  /\ admissionOpen' \/ run' # "RUNNING" \/ Opened(task[app[s]])
  /\ run' = "RUNNING" =>
       \/ nextDraw' = nextFrame /\ app[s] + 1 = nextFrame
       \/ nextDraw' = nextDraw /\ record[s].requested

LEMMA SlotLeaves ==
  ASSUME EngineInv, NEW s \in Slot, Live(s), NEW c, Vacates(s, c), Releases(s)
  PROVE  EngineInv'
<1>1. SlotIs(s)
  BY LiveIs
<1>2. SlotsTyped /\ FramesTyped /\ RunTyped /\ HostTyped
  BY TypesAre DEF EngineInv
<1>3. /\ run \in {"RUNNING", "STOPPING"} /\ run' \in {"RUNNING", "STOPPING"}
      /\ (run' = "RUNNING" => run = "RUNNING") /\ app[s] \in Frame /\ app[s] < nextFrame
  BY <1>1 DEF SlotIs, Releases
<1>4. /\ keys' = keys /\ runGeneration' = runGeneration /\ nextFrame' = nextFrame
      /\ generation' = generation /\ stopInProgress' = stopInProgress
      /\ completedStop' = completedStop /\ jobs' = jobs /\ stopper' = stopper
  BY DEF Vacates
<1>5. /\ record'[s] = EmptyRecord /\ state'[s] = "FREE" /\ gpu'[s] = "none" /\ draw'[s] = 0
      /\ task'[app[s]] = NoTasks /\ completion'[app[s]] = c
  BY <1>1, <1>2 DEF Vacates, SlotsTyped, FramesTyped, SlotIs
<1>6. ASSUME NEW x \in Slot, x # s
      PROVE  /\ record'[x] = record[x] /\ state'[x] = state[x] /\ gpu'[x] = gpu[x]
             /\ draw'[x] = draw[x] /\ app'[x] = app[x]
  BY <1>2, <1>6 DEF Vacates, SlotsTyped, FramesTyped
<1>7. ASSUME NEW f \in Frame, f # app[s]
      PROVE  task'[f] = task[f] /\ completion'[f] = completion[f]
  BY <1>2, <1>7 DEF Vacates, FramesTyped
<1>8. ~ Live(s)'
  BY <1>5 DEF Live, EmptyRecord
<1>9. \A x \in Slot : x # s => (Live(x)' <=> Live(x)) /\ FrameIn(x)' = FrameIn(x)
  BY <1>6 DEF Live, FrameIn
<1>10. ASSUME NEW x \in Slot, x # s, Live(x)
       PROVE  /\ app[x] \in Frame /\ app[x] # app[s] /\ FrameIn(x).app = app[x]
              /\ task'[app'[x]] = task[app[x]] /\ completion'[app'[x]] = completion[app[x]]
  <2>1. app[x] \in Frame /\ app[x] # app[s] /\ FrameIn(x).app = app[x]
    BY <1>10, OneSlot, LiveIs DEF SlotIs
  <2>. QED
    BY <2>1, <1>6, <1>7, <1>10
<1>11. TypeOK'
  <2>1. SlotsTyped'
    <3>1. InvalidIndex \in Index /\ 0 \in Index /\ "FREE" \in FrameState /\ "none" \in FutureState
      BY Numbers DEF FrameState, FutureState
    <3>2. checkpoint' \in {"UPDATE", "DRAW"}
      BY <1>2 DEF Vacates, ReleasedCheckpoint, SlotsTyped
    <3>. QED
      BY <1>2, <1>4, <3>1, <3>2 DEF SlotsTyped, Vacates
  <2>2. FramesTyped'
    <3>1. EmptyRecord \in RecordOf(keys) /\ NoTasks \in Tasks
      BY DEF EmptyRecord, RecordOf, NoTasks, Tasks, Place
    <3>. QED
      BY <1>2, <1>4, <3>1 DEF FramesTyped, Vacates
  <2>3. RunTyped'
    <3>1. admissionOpen' \in BOOLEAN
      BY <1>2 DEF Releases, RunTyped
    <3>. QED
      BY <1>2, <1>3, <1>4, <3>1 DEF RunTyped, Releases
  <2>4. HostTyped'
    <3>1. host' \in [op : {"none", "begin", "accept", "update", "arm", "asleep"},
                     cursor : 0 .. MaxActiveFrames, failed : BOOLEAN]
      BY <1>2 DEF HostTyped, Releases
    <3>2. watch' \in {"none", "captured", "refused", "news"}
      BY <1>2 DEF HostTyped, Releases
    <3>. QED
      BY <1>2, <1>4, <3>1, <3>2 DEF HostTyped
  <2>5. (SlotsTyped /\ FramesTyped /\ RunTyped /\ HostTyped)' => TypeOK'
    BY TypesAre, PTL
  <2>. QED
    BY <2>1, <2>2, <2>3, <2>4, <2>5
<1>12. KeysSound'
  BY <1>3, <1>4 DEF EngineInv, KeysSound
<1>13. RecordsMatchSlots'
  <2>1. ASSUME NEW x \in Slot
        PROVE  IF record'[x].key = None
                 THEN state'[x] = "FREE" /\ record'[x] = EmptyRecord
                 ELSE /\ state'[x] # "FREE" /\ record'[x].key.run = runGeneration'
                      /\ FrameIn(x)'.app = app'[x] /\ FrameIn(x)'.gen = generation'[x]
    <3>1. CASE x = s
      BY <3>1, <1>5 DEF EmptyRecord
    <3>2. CASE x # s
      <4>1. record'[x] = record[x] /\ state'[x] = state[x] /\ app'[x] = app[x]
            /\ FrameIn(x)' = FrameIn(x)
        BY <3>2, <1>6, <1>9
      <4>. QED
        BY <4>1, <1>4 DEF EngineInv, RecordsMatchSlots
    <3>. QED
      BY <3>1, <3>2
  <2>. QED
    BY <2>1 DEF RecordsMatchSlots
<1>14. SlotsSound'
  <2>1. ASSUME NEW x \in Slot
        PROVE  /\ ~ Live(x)' => gpu'[x] = "none" /\ draw'[x] = 0
               /\ Live(x)' => /\ FrameSound(record'[x], task'[app'[x]], completion'[app'[x]],
                                            state'[x], gpu'[x], draw'[x], run')
                              /\ FrameIn(x)'.slot = x
    <3>1. CASE x = s
      BY <3>1, <1>5, <1>8
    <3>2. CASE x # s /\ ~ Live(x)
      <4>1. gpu[x] = "none" /\ draw[x] = 0
        BY <3>2 DEF EngineInv, SlotsSound
      <4>. QED
        BY <3>2, <4>1, <1>6, <1>9
    <3>3. CASE x # s /\ Live(x)
      <4>1. /\ FrameSound(record[x], task[app[x]], completion[app[x]], state[x], gpu[x], draw[x],
                          run)
            /\ FrameIn(x).slot = x
        BY <3>3, LiveIs DEF SlotIs
      <4>2. run' \in {run, "STOPPING"}
        BY DEF Releases
      <4>3. FrameSound(record[x], task[app[x]], completion[app[x]], state[x], gpu[x], draw[x],
                       run')
        BY <4>1, <4>2, LaterRun
      <4>. QED
        BY <3>3, <4>1, <4>3, <1>6, <1>9, <1>10
    <3>. QED
      BY <3>1, <3>2, <3>3
  <2>. QED
    BY <2>1 DEF SlotsSound
<1>15. DeadSound'
  <2>1. ASSUME NEW f \in Frame, Dead(f)'
        PROVE  /\ task'[f] = NoTasks /\ completion'[f].phase \in {"none", "applied", "finished"}
               /\ f >= nextFrame' => completion'[f] = NoCompletion
    <3>1. CASE f = app[s]
      <4>1. ~ (f >= nextFrame)
        BY <3>1, <1>2, <1>3, Numbers DEF SlotsTyped
      <4>. QED
        BY <3>1, <4>1, <1>4, <1>5 DEF Vacates
    <3>2. CASE f # app[s]
      <4>1. Dead(f)
        BY <2>1, <3>2, <1>1, <1>9 DEF Dead, SlotIs
      <4>. QED
        BY <3>2, <4>1, <1>4, <1>7 DEF EngineInv, DeadSound
    <3>. QED
      BY <3>1, <3>2
  <2>. QED
    BY <2>1 DEF DeadSound
<1>16. CheckpointSound'
  <2>1. ASSUME NEW x \in Slot, Live(x)', draw'[x] = 0
        PROVE  app'[x] + 1 = nextFrame
    <3>1. x # s /\ Live(x) /\ draw[x] = 0 /\ app'[x] = app[x]
      BY <2>1, <1>6, <1>8, <1>9
    <3>. QED
      BY <3>1 DEF EngineInv, CheckpointSound
  <2>2. checkpoint' = "DRAW" <=> \E x \in Slot : Live(x)' /\ draw'[x] = 0
    <3>1. CASE draw[s] = 0
      <4>1. app[s] + 1 = nextFrame /\ checkpoint = "DRAW"
        BY <3>1 DEF EngineInv, CheckpointSound
      <4>2. checkpoint' = "UPDATE"
        BY <3>1, <4>1 DEF Vacates, ReleasedCheckpoint
      <4>3. ASSUME NEW x \in Slot, Live(x)', draw'[x] = 0
            PROVE  FALSE
        <5>1. x # s /\ Live(x) /\ draw[x] = 0
          BY <4>3, <1>6, <1>8, <1>9
        <5>2. app[x] + 1 = nextFrame
          BY <5>1 DEF EngineInv, CheckpointSound
        <5>. QED
          BY <3>1, <5>1, <5>2, Newest
      <4>. QED
        BY <4>2, <4>3
    <3>2. CASE draw[s] # 0
      <4>1. checkpoint' = checkpoint
        BY <3>2 DEF Vacates, ReleasedCheckpoint
      <4>2. checkpoint = "DRAW" <=> \E x \in Slot : Live(x) /\ draw[x] = 0
        BY DEF EngineInv, CheckpointSound
      <4>3. \A x \in Slot : Live(x)' /\ draw'[x] = 0 <=> Live(x) /\ draw[x] = 0
        BY <3>2, <1>6, <1>8, <1>9
      <4>. QED
        BY <4>1, <4>2, <4>3
    <3>. QED
      BY <3>1, <3>2
  <2>. QED
    BY <2>1, <2>2, <1>4 DEF CheckpointSound
<1>17. AdmissionSound'
  <2>1. ASSUME NEW x \in Slot, Live(x)', PreExtract(record'[x], task'[app'[x]])
        PROVE  app'[x] + 1 = nextFrame /\ ~ admissionOpen'
    <3>1. x # s /\ Live(x)
      BY <2>1, <1>8, <1>9
    <3>2. PreExtract(record[x], task[app[x]])
      BY <2>1, <3>1, <1>6, <1>10
    <3>3. app[x] + 1 = nextFrame /\ ~ admissionOpen
      BY <3>1, <3>2 DEF EngineInv, AdmissionSound
    <3>4. app[s] + 1 # nextFrame
      BY <3>1, <3>2, Newest
    <3>. QED
      BY <3>1, <3>3, <3>4, <1>6 DEF Releases
  <2>2. ASSUME ~ admissionOpen', run' = "RUNNING"
        PROVE  \E x \in Slot : Live(x)' /\ app'[x] + 1 = nextFrame /\ ~ Opened(task'[app'[x]])
    <3>1. admissionOpen' = admissionOpen /\ Opened(task[app[s]])
      BY <2>2 DEF Releases
    <3>2. PICK x \in Slot : Live(x) /\ app[x] + 1 = nextFrame /\ ~ Opened(task[app[x]])
      BY <3>1, <2>2, <1>3 DEF EngineInv, AdmissionSound
    <3>3. x # s
      BY <3>1, <3>2
    <3>4. Live(x)' /\ app'[x] = app[x] /\ task'[app'[x]] = task[app[x]]
      BY <3>2, <3>3, <1>6, <1>9, <1>10
    <3>. QED
      BY <3>2, <3>4
  <2>3. ASSUME run' = "RUNNING"
        PROVE  DrawCheckpointFollows'
    <3>1. \A x \in Slot : record'[x].key # None => x # s /\ Live(x) /\ record'[x] = record[x]
                          /\ FrameIn(x)' = FrameIn(x)
      BY <1>6, <1>8, <1>9 DEF Live
    <3>2. CASE nextDraw' = nextFrame /\ app[s] + 1 = nextFrame
      <4>1. ASSUME NEW x \in Slot, record'[x].key # None, FrameIn(x)'.app + 1 = nextFrame'
            PROVE  FALSE
        <5>1. x # s /\ Live(x) /\ FrameIn(x).app + 1 = nextFrame
          BY <3>1, <4>1, <1>4
        <5>2. app[x] + 1 = nextFrame /\ app[x] \in Nat /\ app[s] \in Nat /\ app[x] # app[s]
          BY <5>1, <1>3, <1>10, Numbers
        <5>. QED
          BY <3>2, <5>2
      <4>. QED
        BY <3>2, <4>1, <1>4 DEF DrawCheckpointFollows
    <3>3. CASE nextDraw' = nextDraw /\ record[s].requested
      <4>. DEFINE undrawn(x) == /\ record[x].key # None /\ FrameIn(x).app + 1 = nextFrame
                                /\ ~ record[x].requested
      <4>1. ASSUME NEW x \in Slot
            PROVE  /\ record'[x].key # None /\ FrameIn(x)'.app + 1 = nextFrame'
                   /\ ~ record'[x].requested
                   <=> undrawn(x)
        <5>1. CASE x = s
          BY <3>3, <5>1, <1>5 DEF EmptyRecord
        <5>2. CASE x # s
          BY <5>2, <1>4, <1>6, <1>9
        <5>. QED
          BY <5>1, <5>2
      <4>2. IF \E x \in Slot : undrawn(x) THEN nextDraw + 1 = nextFrame ELSE nextDraw = nextFrame
        BY <2>3, <1>3 DEF EngineInv, AdmissionSound, DrawCheckpointFollows
      <4>. QED
        BY <3>3, <4>1, <4>2, <1>4 DEF DrawCheckpointFollows
    <3>. QED
      BY <2>3, <3>2, <3>3 DEF Releases
  <2>. QED
    BY <2>1, <2>2, <2>3, <1>4 DEF AdmissionSound
<1>18. HostSound'
  <2>1. ASSUME host'.op \notin {"none", "asleep"}, NEW f \in Frame
        PROVE  completion'[f].phase # "drawing"
    <3>1. host.op \notin {"none", "asleep"}
      BY <2>1 DEF Releases
    <3>2. CASE f = app[s]
      BY <3>2, <1>5 DEF Vacates
    <3>3. CASE f # app[s]
      BY <3>1, <3>3, <1>7 DEF EngineInv, HostSound
    <3>. QED
      BY <3>2, <3>3
  <2>2. host'.op # "arm"
    BY DEF Releases
  <2>3. host'.op = "asleep" => watch' = "news"
    BY DEF Releases
  <2>4. host'.op \in {"none", "asleep"} => watch' # "refused"
    BY DEF Releases
  <2>. QED
    BY <2>1, <2>2, <2>3, <2>4 DEF HostSound
<1>19. RestSound'
  BY <1>3 DEF RestSound
<1>20. StoppersSound'
  <2>1. (stopInProgress' => run' = "STOPPING") /\ completedStop' <= runGeneration'
        /\ completedStop' < runGeneration'
    BY <1>3, <1>4 DEF EngineInv, StoppersSound, Releases
  <2>2. \A p, q \in Stopper : Cleans(p)' /\ Cleans(q)' => p = q
    BY <1>4 DEF EngineInv, StoppersSound, Cleans
  <2>3. ASSUME NEW p \in Stopper
        PROVE  /\ stopper'[p].observed <= runGeneration'
               /\ Cleans(p)' => /\ stopInProgress' /\ stopper'[p].observed = runGeneration'
                                /\ host'.op \in {"none", "asleep"}
               /\ stopper'[p].at = "await" /\ stopper'[p].observed = runGeneration'
                    /\ run' \in {"RUNNING", "STOPPING"} => stopInProgress'
               /\ stopper'[p].at \in {"request", "waitIdle", "waitGpu"} => jobs' = {}
    BY <1>3, <1>4 DEF EngineInv, StoppersSound, Cleans, Releases
  <2>4. ASSUME NEW p \in Stopper, stopper[p].at \in {"waitIdle", "waitGpu"},
               NEW x \in Slot, record'[x].hasUpdate
        PROVE  completion'[app'[x]].phase = "finished"
    <3>1. x # s
      BY <2>4, <1>5 DEF EmptyRecord
    <3>2. record[x].hasUpdate /\ completion[app[x]].phase = "finished"
      BY <2>4, <3>1, <1>6 DEF EngineInv, StoppersSound
    <3>3. Live(x)
      BY <3>2 DEF EngineInv, RecordsMatchSlots, Live, EmptyRecord
    <3>. QED
      BY <3>1, <3>2, <3>3, <1>10
  <2>5. ASSUME NEW p \in Stopper, stopper[p].at = "waitGpu"
        PROVE  Idle'
    <3>1. Idle
      BY <2>5 DEF EngineInv, StoppersSound
    <3>2. ASSUME NEW f \in Frame, NEW k \in Kind
          PROVE  task'[f][k] \in {"none"} \cup Terminal
      <4>1. CASE f = app[s]
        BY <4>1, <1>5 DEF NoTasks
      <4>2. CASE f # app[s]
        BY <4>2, <3>1, <1>7 DEF Idle
      <4>. QED
        BY <4>1, <4>2
    <3>. QED
      BY <3>2 DEF Idle
  <2>. QED
    BY <2>1, <2>2, <2>3, <2>4, <2>5, <1>4 DEF StoppersSound
<1>. QED
  BY <1>11, <1>12, <1>13, <1>14, <1>15, <1>16, <1>17, <1>18, <1>19, <1>20 DEF EngineInv

(* What the calls that free a slot do to it. *)
Frees(s) ==
  /\ state' = [state EXCEPT ![s] = "FREE"] /\ gpu' = [gpu EXCEPT ![s] = "none"]
  /\ app' = [app EXCEPT ![s] = InvalidIndex]
  /\ update' = [update EXCEPT ![s] = 0] /\ draw' = [draw EXCEPT ![s] = 0]
  /\ UNCHANGED <<generation, nextFrame>>

LEMMA FreesIs ==
  ASSUME EngineInv, NEW s \in Slot, Live(s)
  PROVE  /\ FS!RecycleFrame(FrameIn(s)) => Frees(s) /\ UNCHANGED checkpoint
         /\ FS!AbortFrame(FrameIn(s)) /\ state[s] \notin {"SUBMITTED", "GPU_IN_FLIGHT"} =>
              Frees(s) /\ checkpoint' = ReleasedCheckpoint(s)
<1>1. SlotIs(s)
  BY LiveIs
<1>2. FrameIn(s).slot = s /\ state[s] # "FREE"
  BY <1>1 DEF SlotIs
<1>3. FS!ResetFrameData(s) /\ UNCHANGED nextFrame => Frees(s)
  BY DEF FS!ResetFrameData, Frees
<1>4. FS!RecycleFrame(FrameIn(s)) => Frees(s) /\ UNCHANGED checkpoint
  BY <1>2, <1>3 DEF FS!RecycleFrame
<1>5. ASSUME FS!AbortFrame(FrameIn(s)), state[s] \notin {"SUBMITTED", "GPU_IN_FLIGHT"}
      PROVE  Frees(s) /\ checkpoint' = ReleasedCheckpoint(s)
  <2>1. FS!ResetFrameData(s) /\ UNCHANGED nextFrame
    BY <1>2, <1>5 DEF FS!AbortFrame
  <2>2. checkpoint' = ReleasedCheckpoint(s)
    BY <1>2, <1>5 DEF FS!AbortFrame, FS!ReleasesCheckpoint, ReleasedCheckpoint
  <2>. QED
    BY <1>3, <2>1, <2>2
<1>. QED
  BY <1>4, <1>5

(* A frame whose draw has ended needs nothing any more. *)
LEMMA DoneIs ==
  ASSUME NEW r, NEW t, NEW c, NEW st, NEW g, NEW d, NEW rn,
         FrameSound(r, t, c, st, g, d, rn), r.drawTask # "none", t[r.drawTask] \in Terminal
  PROVE  /\ Quiet(t) /\ d # 0 /\ r.requested
         /\ c.phase \in {"applied", "finished"}
         /\ t[r.drawTask] = "completed" => Opened(t)
         /\ st \in {"SUBMITTED", "GPU_IN_FLIGHT"} => g # "none"
<1>1. Quiet(t) /\ r.hasUpdate /\ (t[r.drawTask] = "completed" => Opened(t))
  BY LastEndsAll
<1>2. r.succeeded /\ r.requested /\ d # 0
  BY DEF FrameSound, DrawSound
<1>3. c.phase \in {"applied", "finished"}
  BY <1>1, <1>2 DEF FrameSound, UpdateSound
<1>. QED
  BY <1>1, <1>2, <1>3 DEF FrameSound, GpuSound

LEMMA ReleaseMoves ==
  ASSUME EngineInv, Reap, Collectable(cursor), ReapRelease
  PROVE  EngineInv'
<1>1. InReapingCall /\ cursor < MaxActiveFrames /\ UNCHANGED <<pastRuns, admission, jobs, stopper>>
  BY DEF Reap
<1>2. PICK s \in Slot : s = cursor /\ Live(s) /\ host.op # "arm"
        /\ DrawStatus(s) = task[app[s]][record[s].drawTask]
        /\ record[s].drawTask # "none" /\ task[app[s]][record[s].drawTask] \in Terminal
  BY <1>1, CollectableIs
<1>3. SlotIs(s) /\ RunTyped /\ HostTyped /\ FramesTyped
  BY <1>2, LiveIs, TypesAre DEF EngineInv
<1>4. /\ app[s] \in Frame /\ task[app[s]] \in Tasks /\ completion[app[s]] \in Completions
      /\ FrameSound(record[s], task[app[s]], completion[app[s]], state[s], gpu[s], draw[s], run)
  BY <1>2, FrameIs
<1>5. /\ Quiet(task[app[s]]) /\ draw[s] # 0 /\ record[s].requested
      /\ completion[app[s]].phase \in {"applied", "finished"}
      /\ task[app[s]][record[s].drawTask] = "completed" => Opened(task[app[s]])
      /\ state[s] \in {"SUBMITTED", "GPU_IN_FLIGHT"} => gpu[s] # "none"
  BY <1>2, <1>4, DoneIs
<1>6. state[s] \notin {"SUBMITTED", "GPU_IN_FLIGHT"}
  BY <1>2, <1>5 DEF ReapRelease
<1>7. Frees(s) /\ checkpoint' = ReleasedCheckpoint(s)
  <2>1. checkpoint = ReleasedCheckpoint(s)
    BY <1>5 DEF ReleasedCheckpoint
  <2>2. FS!RecycleFrame(FrameIn(s)) \/ FS!AbortFrame(FrameIn(s))
    BY <1>2 DEF ReapRelease
  <2>. QED
    BY <1>2, <1>6, <2>1, <2>2, FreesIs
<1>8. FrameIn(s).app = app[s]
  BY <1>3 DEF SlotIs
<1>. DEFINE c == IF completion[app[s]].phase = "finished" THEN NoCompletion
                 ELSE completion[app[s]]
<1>9. /\ task' = [task EXCEPT ![app[s]] = NoTasks]
      /\ completion' = [completion EXCEPT ![app[s]] = c]
      /\ record' = [record EXCEPT ![s] = EmptyRecord]
  <2>1. [k \in Kind |-> IF task[app[s]][k] \in Terminal THEN "none" ELSE task[app[s]][k]] = NoTasks
    BY <1>5 DEF Quiet, NoTasks
  <2>2. /\ task' = [task EXCEPT ![app[s]] =
                     [k \in Kind |-> IF task[app[s]][k] \in Terminal THEN "none"
                                     ELSE task[app[s]][k]]]
        /\ completion' = [completion EXCEPT ![app[s]] = c]
    BY <1>2, <1>8 DEF ReapRelease, Forget
  <2>. QED
    BY <1>2, <2>1, <2>2 DEF ReapRelease, ResetRecord
<1>10. c \in Completions /\ c.phase \in {"none", "applied", "finished"}
  BY <1>4, <1>5 DEF NoCompletion, Completions, Outcome
<1>11. Vacates(s, c)
  <2>. HIDE DEF c
  <2>1. UNCHANGED <<keys, runGeneration, stopInProgress, completedStop, jobs, stopper>>
    BY <1>1 DEF pastRuns
  <2>. QED
    BY <1>7, <1>9, <1>10, <2>1 DEF Vacates, Frees
<1>12. Releases(s)
  <2>1. /\ run' \in {run, "STOPPING"} /\ lastError' \in BOOLEAN /\ watch' \in {watch, "news"}
        /\ run' = "RUNNING" => run = "RUNNING"
        /\ task[app[s]][record[s].drawTask] = "completed" \/ run' = "STOPPING"
    BY <1>2, <1>3 DEF ReapRelease, NoteFailure, ReapFailed, Fail, NoFailure, Notify, RunTyped
  <2>2. /\ host' \in [op : {host.op}, cursor : 0 .. MaxActiveFrames, failed : BOOLEAN]
        /\ host.op \in {"begin", "accept", "update"}
    <3>1. host.cursor \in 0 .. MaxActiveFrames
      BY <1>3 DEF HostTyped
    <3>2. host.cursor + 1 \in 0 .. MaxActiveFrames
      BY <1>1, <3>1, Numbers DEF cursor
    <3>3. host' = [host EXCEPT !.cursor = host.cursor + 1, !.failed = FALSE]
      BY DEF ReapRelease, Advance
    <3>. QED
      BY <1>1, <1>3, <3>2, <3>3 DEF HostTyped, InReapingCall
  <2>3. nextDraw' = nextDraw /\ admissionOpen' = admissionOpen /\ nextDraw \in 0 .. InvalidIndex
    BY <1>1, <1>3 DEF admission, RunTyped
  <2>4. admissionOpen' \/ run' # "RUNNING" \/ Opened(task[app[s]])
    BY <1>5, <2>1
  <2>5. host'.op = host.op
    BY <2>2
  <2>. QED
    BY <1>5, <2>1, <2>2, <2>3, <2>4, <2>5 DEF Releases
<1>. HIDE DEF c
<1>. QED
  BY <1>2, <1>11, <1>12, SlotLeaves

(* The key of a frame that was begun and not given back. *)
LEMMA ResolvesIs ==
  ASSUME EngineInv, NEW k \in keys, Resolves(k)
  PROVE  /\ k.frame.slot \in Slot /\ Live(k.frame.slot) /\ record[k.frame.slot].key = k
         /\ FrameIn(k.frame.slot) = k.frame /\ app[k.frame.slot] = k.frame.app
         /\ run = "RUNNING"
<1>1. k \in [run : 1 .. LastRun, frame : FS!Handle]
  BY TypesAre DEF EngineInv, SlotsTyped
<1>2. k \in [run : Nat, frame : FS!Handle]
  BY <1>1
<1>3. k # None
  BY <1>2, NoneIsNoKey
<1>4. k.frame.slot \in Slot
  BY <1>1, HandlesAre
<1>5. record[k.frame.slot].key = k /\ run = "RUNNING"
  BY DEF Resolves
<1>6. Live(k.frame.slot) /\ FrameIn(k.frame.slot) = k.frame
  BY <1>3, <1>5 DEF Live, FrameIn
<1>7. FrameIn(k.frame.slot).app = app[k.frame.slot]
  BY <1>4, <1>6, LiveIs DEF SlotIs
<1>. QED
  BY <1>4, <1>5, <1>6, <1>7

(* The host, when it gives a frame back or arms it. *)
LeavesCall ==
  /\ host' \in [op : {host.op, "none"}, cursor : 0 .. MaxActiveFrames, failed : BOOLEAN]
  /\ host'.op # "arm"
  /\ host'.op # host.op => host.op = "arm"

LEMMA UnusedLeaves ==
  ASSUME EngineInv, NEW s \in Slot, Live(s), ~ record[s].hasUpdate, run = "RUNNING",
         FS!AbortFrame(FrameIn(s)), ResetRecord(s), LeavesCall,
         UNCHANGED <<pastRuns, task, completion, jobs, stopper>>, Notify, lastError' \in BOOLEAN,
         \/ run' = run /\ OpenAdmission /\ nextDraw' = app[s] + 1
         \/ run' = "STOPPING" /\ UNCHANGED admission
  PROVE  EngineInv'
<1>1. SlotIs(s) /\ RunTyped /\ SlotsTyped
  BY LiveIs, TypesAre DEF EngineInv
<1>2. /\ FrameSound(record[s], task[app[s]], completion[app[s]], state[s], gpu[s], draw[s], run)
      /\ app[s] \in Frame
  BY FrameIs
<1>3. /\ task[app[s]] = NoTasks /\ completion[app[s]] = NoCompletion /\ state[s] = "ACQUIRED"
      /\ draw[s] = 0
  BY <1>2 DEF FrameSound, Begun
<1>4. app[s] + 1 = nextFrame
  BY <1>3 DEF EngineInv, CheckpointSound
<1>5. Frees(s) /\ checkpoint' = ReleasedCheckpoint(s)
  BY <1>3, FreesIs
<1>6. /\ task' = [task EXCEPT ![app[s]] = NoTasks]
      /\ completion' = [completion EXCEPT ![app[s]] = NoCompletion]
      /\ record' = [record EXCEPT ![s] = EmptyRecord]
  BY <1>3, Stays DEF ResetRecord
<1>7. NoCompletion \in Completions /\ NoCompletion.phase = "none"
  BY DEF NoCompletion, Completions, Outcome
<1>8. Vacates(s, NoCompletion)
  BY <1>5, <1>6, <1>7 DEF Vacates, Frees, pastRuns
<1>9. Releases(s)
  <2>1. nextFrame \in 0 .. InvalidIndex
    BY <1>1, Numbers DEF SlotsTyped
  <2>2. admissionOpen' = admissionOpen \/ (admissionOpen' = TRUE /\ app[s] + 1 = nextFrame)
    BY <1>4 DEF OpenAdmission, admission
  <2>3. admissionOpen' \/ run' # "RUNNING"
    BY DEF OpenAdmission
  <2>4. /\ nextDraw' \in 0 .. InvalidIndex
        /\ run' = "RUNNING" => nextDraw' = nextFrame /\ app[s] + 1 = nextFrame
    BY <1>1, <1>4, <2>1 DEF admission, RunTyped
  <2>5. run' \in {run, "STOPPING"} /\ watch' = "news"
    BY DEF Notify
  <2>. QED
    BY <2>2, <2>3, <2>4, <2>5 DEF Releases, LeavesCall
<1>. QED
  BY <1>7, <1>8, <1>9, SlotLeaves

LEMMA HostStays ==
  ASSUME EngineInv, MutexFree, UNCHANGED host
  PROVE  LeavesCall
BY TypesAre DEF EngineInv, HostTyped, MutexFree, LeavesCall

LEMMA AbortMoves ==
  ASSUME EngineInv, NEW k \in keys, AbortFrame(k)
  PROVE  EngineInv'
<1>1. Resolves(k)
  BY DEF AbortFrame
<1>2. PICK s \in Slot : s = k.frame.slot
  BY <1>1, ResolvesIs
<1>3. Live(s) /\ FrameIn(s) = k.frame /\ app[s] = k.frame.app /\ run = "RUNNING"
  BY <1>1, <1>2, ResolvesIs
<1>4. LeavesCall
  BY HostStays DEF AbortFrame
<1>5. lastError' \in BOOLEAN
  BY TypesAre DEF EngineInv, RunTyped, AbortFrame
<1>6. /\ ~ record[s].hasUpdate /\ FS!AbortFrame(FrameIn(s)) /\ ResetRecord(s)
      /\ UNCHANGED <<pastRuns, task, completion, jobs, stopper>> /\ Notify /\ run' = run
      /\ OpenAdmission /\ nextDraw' = app[s] + 1
  BY <1>2, <1>3 DEF AbortFrame, SkipDraw
<1>. QED
  BY <1>3, <1>4, <1>5, <1>6, UnusedLeaves

(* The update of the frame in slot s is published, or could not be. *)
LEMMA UpdatePublished ==
  ASSUME EngineInv, NEW s \in Slot, Live(s), ~ record[s].hasUpdate, run = "RUNNING",
         PublishUpdate(record[s].key), LeavesCall
  PROVE  EngineInv'
<1>1. SlotIs(s)
  BY LiveIs
<1>2. record[s].key.frame = FrameIn(s) /\ FrameIn(s).app = app[s] /\ FrameIn(s).slot = s
  BY <1>1 DEF SlotIs, FrameIn
<1>3. UNCHANGED <<pastRuns, admission, jobs, stopper>> /\ Notify
  BY DEF PublishUpdate
<1>4. \/ /\ FS!ArmFrame(FrameIn(s)) /\ record' = [record EXCEPT ![s].hasUpdate = TRUE]
         /\ Move(app[s], "update", "waiting")
         /\ completion' = [completion EXCEPT ![app[s]].phase = "open"] /\ NoFailure
      \/ /\ FS!AbortFrame(FrameIn(s)) /\ ResetRecord(s) /\ Fail /\ UNCHANGED <<task, completion>>
  BY <1>2 DEF PublishUpdate
<1>5. CASE /\ FS!ArmFrame(FrameIn(s)) /\ record' = [record EXCEPT ![s].hasUpdate = TRUE]
           /\ Move(app[s], "update", "waiting")
           /\ completion' = [completion EXCEPT ![app[s]].phase = "open"] /\ NoFailure
  BY <1>5, PublishMoves DEF LeavesCall
<1>6. CASE /\ FS!AbortFrame(FrameIn(s)) /\ ResetRecord(s) /\ Fail /\ UNCHANGED <<task, completion>>
  <2>1. run' = "STOPPING" /\ lastError' \in BOOLEAN
    BY <1>6 DEF Fail
  <2>. QED
    BY <1>3, <1>6, <2>1, UnusedLeaves
<1>. QED
  BY <1>4, <1>5, <1>6

LEMMA UserUpdateMoves ==
  ASSUME EngineInv, NEW k \in keys, CompleteUserUpdate(k)
  PROVE  EngineInv'
<1>1. Resolves(k)
  BY DEF CompleteUserUpdate
<1>2. PICK s \in Slot : s = k.frame.slot
  BY <1>1, ResolvesIs
<1>3. Live(s) /\ record[s].key = k /\ run = "RUNNING"
  BY <1>1, <1>2, ResolvesIs
<1>4. LeavesCall
  BY HostStays DEF CompleteUserUpdate
<1>5. ~ record[s].hasUpdate /\ PublishUpdate(record[s].key)
  BY <1>2, <1>3 DEF CompleteUserUpdate
<1>. QED
  BY <1>3, <1>4, <1>5, UpdatePublished

LEMMA UpdateCompletesMoves ==
  ASSUME EngineInv, UpdateCompletes
  PROVE  EngineInv'
<1>1. host.op = "arm" /\ PublishUpdate(KeyOf(nextFrame - 1)) /\ Occupy("none")
  BY DEF UpdateCompletes
<1>2. PICK s \in Slot : Live(s) /\ app[s] + 1 = nextFrame /\ ~ record[s].hasUpdate
  BY <1>1 DEF EngineInv, HostSound
<1>3. run = "RUNNING"
  BY <1>1 DEF EngineInv, HostSound
<1>4. KeyOf(nextFrame - 1) = record[s].key
  <2>1. KeyOf(app[s]) = record[s].key /\ app[s] \in Nat
    BY <1>2, LiveIs, Numbers DEF SlotIs
  <2>2. nextFrame - 1 = app[s]
    BY <1>2, <2>1
  <2>. QED
    BY <2>1, <2>2
<1>5. LeavesCall
  <2>1. host' = [op |-> "none", cursor |-> 0, failed |-> FALSE]
    BY <1>1, OccupyIs
  <2>. QED
    BY <1>1, <2>1, Numbers DEF LeavesCall
<1>. QED
  BY <1>1, <1>2, <1>3, <1>4, <1>5, UpdatePublished

-----------------------------------------------------------------------------
(* A frame begins. *)

Fresh(k) == [EmptyRecord EXCEPT !.key = k]

(* The frame n comes into slot s under the key k. *)
Enters(s, n, k) ==
  /\ state' = [state EXCEPT ![s] = "ACQUIRED"] /\ app' = [app EXCEPT ![s] = n]
  /\ generation' = [generation EXCEPT ![s] = generation[s] + 1]
  /\ update' = [update EXCEPT ![s] = generation[s] + 1] /\ draw' = [draw EXCEPT ![s] = 0]
  /\ checkpoint' = "DRAW" /\ nextFrame' = n + 1 /\ keys' = keys \cup {k}
  /\ record' = [record EXCEPT ![s] = Fresh(k)]

LEMMA EntersIs ==
  ASSUME EngineInv, EndReaping, BeginFrame
  PROVE  \E s \in Slot :
           /\ Enters(s, nextFrame, NextKey) /\ checkpoint = "UPDATE" /\ ~ Live(s)
           /\ nextFrame \in Frame /\ generation[s] + 1 \in Index
           /\ NextKey \in [run : 1 .. LastRun, frame : FS!Handle] /\ NextKey # None
           /\ NextKey.run = runGeneration /\ NextKey.frame.app = nextFrame
           /\ NextKey.frame.sim = nextFrame /\ NextKey.frame.slot = s
           /\ NextKey.frame.gen = generation[s] + 1 /\ s = nextFrame % MaxActiveFrames
<1>. DEFINE s == nextFrame % MaxActiveFrames
<1>1. SlotsTyped /\ FramesTyped /\ RunTyped
  BY TypesAre DEF EngineInv
<1>2. /\ checkpoint = "UPDATE" /\ nextFrame # InvalidIndex /\ state[s] = "FREE"
      /\ generation[s] # InvalidIndex
  BY DEF BeginFrame, FS!TryAcquireFrame, FS!IndicesLeft, FS!SlotOf
<1>3. nextFrame \in Frame
  BY <1>1, <1>2 DEF SlotsTyped, Index
<1>4. s \in Slot
  BY <1>3, Numbers DEF Slot
<1>5. generation[s] + 1 \in Nat \ {0} /\ generation[s] + 1 \in Index
  <2>1. generation[s] \in 0 .. InvalidIndex
    BY <1>1, <1>4, Numbers DEF SlotsTyped
  <2>2. generation[s] + 1 \in 0 .. InvalidIndex /\ generation[s] + 1 # 0
    BY <1>2, <2>1, Numbers
  <2>. QED
    BY <2>2, Numbers
<1>6. runGeneration \in 1 .. LastRun
  <2>1. completedStop < runGeneration
    BY DEF BeginFrame, EngineInv, StoppersSound
  <2>. QED
    BY <1>1, <2>1, Numbers DEF RunTyped
<1>7. ~ Live(s) /\ record[s] = EmptyRecord
  BY <1>2, <1>4 DEF EngineInv, RecordsMatchSlots, Live
<1>8. NextKey = [run |-> runGeneration,
                 frame |-> [app |-> nextFrame, sim |-> nextFrame, slot |-> s,
                            gen |-> generation[s] + 1]]
  BY DEF NextKey
<1>9. [app |-> nextFrame, sim |-> nextFrame, slot |-> s, gen |-> generation[s] + 1] \in FS!Handle
  BY <1>3, <1>4, <1>5, HandlesAre
<1>. HIDE DEF s
<1>10. NextKey \in [run : 1 .. LastRun, frame : FS!Handle]
  BY <1>6, <1>8, <1>9
<1>11. NextKey # None
  <2>1. NextKey \in [run : Nat, frame : FS!Handle]
    BY <1>10
  <2>. QED
    BY <2>1, NoneIsNoKey
<1>12. record' = [record EXCEPT ![s] = Fresh(NextKey)]
  <2>1. record' = [record EXCEPT ![s].key = NextKey]
    BY <1>8 DEF BeginFrame
  <2>. QED
    BY <1>7, <2>1 DEF Fresh
<1>13. Enters(s, nextFrame, NextKey)
  BY <1>12 DEF Enters, BeginFrame, FS!TryAcquireFrame, FS!SlotOf, s
<1>14. s = nextFrame % MaxActiveFrames
  BY DEF s
<1>. QED
  BY <1>2, <1>3, <1>4, <1>5, <1>7, <1>8, <1>10, <1>11, <1>13, <1>14

LEMMA FreshSound ==
  ASSUME NEW k, NEW rn
  PROVE  /\ FrameSound(Fresh(k), NoTasks, NoCompletion, "ACQUIRED", "none", 0, rn)
         /\ ~ Opened(NoTasks) /\ Fresh(k).key = k /\ ~ Fresh(k).hasUpdate
         /\ ~ Fresh(k).requested
         /\ \A ks : k \in ks => Fresh(k) \in RecordOf(ks)
<1>1. /\ Fresh(k).key = k /\ ~ Fresh(k).hasUpdate /\ Fresh(k).drawTask = "none"
      /\ ~ Fresh(k).requested /\ ~ Fresh(k).succeeded
      /\ \A ks : k \in ks => Fresh(k) \in RecordOf(ks)
  BY DEF Fresh, EmptyRecord, RecordOf
<1>2. \A j \in Kind : NoTasks[j] = "none"
  BY DEF NoTasks
<1>3. ~ Opened(NoTasks)
  BY <1>2 DEF Opened, Opener, Extracting, Preparing, Kind
<1>4. FrameSound(Fresh(k), NoTasks, NoCompletion, "ACQUIRED", "none", 0, rn)
  BY <1>1, <1>2 DEF FrameSound, Begun, UpdateSound, GpuSound, DrawSound, TasksSound
<1>. QED
  BY <1>1, <1>3, <1>4

LEMMA BeginMoves ==
  ASSUME EngineInv, EndReaping, BeginFrame
  PROVE  EngineInv'
<1>. DEFINE n == nextFrame
            k == NextKey
<1>1. PICK s \in Slot :
        /\ Enters(s, n, k) /\ checkpoint = "UPDATE" /\ ~ Live(s)
        /\ n \in Frame /\ generation[s] + 1 \in Index
        /\ k \in [run : 1 .. LastRun, frame : FS!Handle] /\ k # None
        /\ k.run = runGeneration /\ k.frame.app = n
        /\ k.frame.sim = n /\ k.frame.slot = s
        /\ k.frame.gen = generation[s] + 1 /\ s = n % MaxActiveFrames
  BY EntersIs
<1>2. SlotsTyped /\ FramesTyped /\ RunTyped /\ HostTyped
  BY TypesAre DEF EngineInv
<1>3. /\ run = "RUNNING" /\ run' = run /\ runGeneration' = runGeneration
      /\ stopInProgress' = stopInProgress /\ completedStop' = completedStop
      /\ nextDraw' = nextDraw /\ lastError' = lastError /\ task' = task
      /\ completion' = completion /\ jobs' = jobs /\ stopper' = stopper /\ gpu' = gpu
      /\ watch' = watch /\ admissionOpen /\ admissionOpen' = FALSE
      /\ host.op \in {"begin", "accept", "update"}
  BY DEF EndReaping, BeginFrame, CloseAdmission, InReapingCall, FS!TryAcquireFrame
<1>4. n \in Nat /\ nextFrame' = n + 1 /\ keys' = keys \cup {k} /\ checkpoint' = "DRAW"
  BY <1>1, Numbers DEF Enters
<1>. HIDE DEF k
<1>5. /\ record'[s] = Fresh(k) /\ state'[s] = "ACQUIRED" /\ draw'[s] = 0 /\ app'[s] = n
      /\ generation'[s] = generation[s] + 1
  BY <1>1, <1>2 DEF Enters, SlotsTyped, FramesTyped
<1>6. ASSUME NEW x \in Slot, x # s
      PROVE  /\ record'[x] = record[x] /\ state'[x] = state[x] /\ app'[x] = app[x]
             /\ draw'[x] = draw[x] /\ generation'[x] = generation[x]
  BY <1>1, <1>2, <1>6 DEF Enters, SlotsTyped, FramesTyped
<1>7. Live(s)' /\ FrameIn(s)' = k.frame
  <2>1. record'[s].key = k
    BY <1>5, FreshSound
  <2>. QED
    BY <1>1, <2>1 DEF Live, FrameIn
<1>8. \A x \in Slot : x # s => (Live(x)' <=> Live(x)) /\ FrameIn(x)' = FrameIn(x)
  BY <1>6 DEF Live, FrameIn
<1>9. Dead(n) /\ task[n] = NoTasks /\ completion[n] = NoCompletion
  <2>1. ASSUME NEW x \in Slot, Live(x), FrameIn(x).app = n
        PROVE  FALSE
    <3>1. app[x] = n /\ app[x] < n
      BY <2>1, LiveIs DEF SlotIs
    <3>. QED
      BY <1>4, <3>1
  <2>2. Dead(n)
    BY <2>1 DEF Dead
  <2>3. n >= nextFrame
    BY <1>4
  <2>. QED
    BY <1>1, <2>2, <2>3 DEF EngineInv, DeadSound
<1>10. \A x \in Slot : Live(x) => draw[x] # 0 /\ ~ PreExtract(record[x], task[app[x]])
  BY <1>1, <1>3 DEF EngineInv, CheckpointSound, AdmissionSound
<1>11. host' \in [op : {"arm", "none"}, cursor : 0 .. MaxActiveFrames, failed : BOOLEAN]
  <2>1. \E op \in {"arm", "none"} : Occupy(op)
    BY DEF BeginFrame
  <2>2. ASSUME NEW op \in {"arm", "none"}, Occupy(op)
        PROVE  host' \in [op : {"arm", "none"}, cursor : 0 .. MaxActiveFrames, failed : BOOLEAN]
    <3>1. host' = [op |-> op, cursor |-> 0, failed |-> FALSE]
      BY <2>2, OccupyIs
    <3>. QED
      BY <3>1, Numbers
  <2>. QED
    BY <2>1, <2>2
<1>12. TypeOK'
  <2>1. SlotsTyped'
    <3>1. "ACQUIRED" \in FrameState /\ n \in Index /\ n + 1 \in Index /\ 0 \in Index
      BY <1>1, Numbers DEF FrameState, Frame, Index
    <3>. QED
      BY <1>1, <1>2, <1>3, <3>1 DEF SlotsTyped, Enters
  <2>2. FramesTyped'
    <3>1. Fresh(k) \in RecordOf(keys')
      BY <1>4, FreshSound
    <3>2. RecordOf(keys) \subseteq RecordOf(keys')
      BY <1>4 DEF RecordOf
    <3>3. record' = [record EXCEPT ![s] = Fresh(k)]
      BY <1>1 DEF Enters
    <3>4. record' \in [Slot -> RecordOf(keys')]
      BY <1>2, <3>1, <3>2, <3>3 DEF FramesTyped
    <3>. QED
      BY <1>2, <1>3, <3>4 DEF FramesTyped
  <2>3. RunTyped'
    BY <1>2, <1>3 DEF RunTyped
  <2>4. HostTyped'
    BY <1>2, <1>3, <1>11 DEF HostTyped
  <2>5. (SlotsTyped /\ FramesTyped /\ RunTyped /\ HostTyped)' => TypeOK'
    BY TypesAre, PTL
  <2>. QED
    BY <2>1, <2>2, <2>3, <2>4, <2>5
<1>13. KeysSound'
  <2>1. ASSUME NEW l \in keys, l.run = k.run, l.frame.app = k.frame.app
        PROVE  FALSE
    <3>1. l.frame.app < n
      BY <1>1, <1>3, <2>1 DEF EngineInv, KeysSound
    <3>. QED
      BY <1>1, <1>4, <2>1, <3>1
  <2>2. \A l, j \in keys' : l.run = j.run /\ l.frame.app = j.frame.app => l = j
    BY <1>4, <2>1 DEF EngineInv, KeysSound
  <2>3. ASSUME NEW l \in keys'
        PROVE  /\ l.run <= runGeneration' /\ l.frame.slot = l.frame.app % MaxActiveFrames
               /\ l.frame.sim = l.frame.app
               /\ run' \in {"RUNNING", "STOPPING"} /\ l.run = runGeneration' =>
                    l.frame.app < nextFrame'
    <3>1. CASE l = k
      <4>1. l.run <= runGeneration
        BY <3>1, <1>1, <1>2, Numbers DEF RunTyped
      <4>. QED
        BY <3>1, <4>1, <1>1, <1>3, <1>4
    <3>2. CASE l \in keys
      <4>1. l.frame.app \in Nat
        <5>1. l.frame \in FS!Handle
          BY <3>2, <1>2 DEF SlotsTyped
        <5>. QED
          BY <5>1, HandlesAre, Numbers
      <4>2. /\ l.run <= runGeneration /\ l.frame.slot = l.frame.app % MaxActiveFrames
            /\ l.frame.sim = l.frame.app
            /\ l.run = runGeneration => l.frame.app < n
        BY <3>2, <1>3 DEF EngineInv, KeysSound
      <4>. QED
        BY <4>1, <4>2, <1>3, <1>4
    <3>. QED
      BY <3>1, <3>2, <1>4
  <2>. QED
    BY <2>2, <2>3 DEF KeysSound
<1>14. RecordsMatchSlots'
  <2>1. ASSUME NEW x \in Slot
        PROVE  IF record'[x].key = None
                 THEN state'[x] = "FREE" /\ record'[x] = EmptyRecord
                 ELSE /\ state'[x] # "FREE" /\ record'[x].key.run = runGeneration'
                      /\ FrameIn(x)'.app = app'[x] /\ FrameIn(x)'.gen = generation'[x]
    <3>1. CASE x = s
      <4>1. record'[x].key = k
        BY <3>1, <1>5, FreshSound
      <4>. QED
        BY <3>1, <4>1, <1>1, <1>3, <1>5, <1>7
    <3>2. CASE x # s
      <4>1. record'[x] = record[x] /\ state'[x] = state[x] /\ app'[x] = app[x]
            /\ FrameIn(x)' = FrameIn(x) /\ generation'[x] = generation[x]
        BY <3>2, <1>6, <1>8
      <4>. QED
        BY <4>1, <1>3 DEF EngineInv, RecordsMatchSlots
    <3>. QED
      BY <3>1, <3>2
  <2>. QED
    BY <2>1 DEF RecordsMatchSlots
<1>15. SlotsSound'
  <2>1. ASSUME NEW x \in Slot
        PROVE  /\ ~ Live(x)' => gpu'[x] = "none" /\ draw'[x] = 0
               /\ Live(x)' => /\ FrameSound(record'[x], task'[app'[x]], completion'[app'[x]],
                                            state'[x], gpu'[x], draw'[x], run')
                              /\ FrameIn(x)'.slot = x
    <3>1. CASE x = s
      <4>1. gpu[s] = "none"
        BY <1>1 DEF EngineInv, SlotsSound
      <4>2. FrameSound(Fresh(k), NoTasks, NoCompletion, "ACQUIRED", "none", 0, run')
        BY FreshSound
      <4>3. /\ record'[x] = Fresh(k) /\ task'[app'[x]] = NoTasks
            /\ completion'[app'[x]] = NoCompletion
            /\ state'[x] = "ACQUIRED" /\ gpu'[x] = "none" /\ draw'[x] = 0
        BY <3>1, <4>1, <1>3, <1>5, <1>9
      <4>. QED
        BY <3>1, <4>2, <4>3, <1>1, <1>7
    <3>2. CASE x # s
      <4>1. /\ record'[x] = record[x] /\ state'[x] = state[x] /\ app'[x] = app[x]
            /\ draw'[x] = draw[x] /\ gpu' = gpu /\ task' = task /\ completion' = completion
            /\ run' = run /\ (Live(x)' <=> Live(x)) /\ FrameIn(x)' = FrameIn(x)
        BY <3>2, <1>3, <1>6, <1>8
      <4>. QED
        BY <4>1 DEF EngineInv, SlotsSound
    <3>. QED
      BY <3>1, <3>2
  <2>. QED
    BY <2>1 DEF SlotsSound
<1>16. DeadSound'
  <2>1. ASSUME NEW f \in Frame, Dead(f)'
        PROVE  /\ task'[f] = NoTasks /\ completion'[f].phase \in {"none", "applied", "finished"}
               /\ f >= nextFrame' => completion'[f] = NoCompletion
    <3>1. Dead(f)
      <4>1. \A x \in Slot : x # s => ~ (Live(x) /\ FrameIn(x).app = f)
        BY <2>1, <1>8 DEF Dead
      <4>. QED
        BY <4>1, <1>1 DEF Dead
    <3>2. f >= n + 1 => f >= nextFrame
      BY <1>4, Numbers
    <3>. QED
      BY <3>1, <3>2, <1>3, <1>4 DEF EngineInv, DeadSound
  <2>. QED
    BY <2>1 DEF DeadSound
<1>17. CheckpointSound'
  <2>1. ASSUME NEW x \in Slot, Live(x)', draw'[x] = 0
        PROVE  app'[x] + 1 = nextFrame'
    <3>1. x = s
      BY <2>1, <1>6, <1>8, <1>10
    <3>. QED
      BY <3>1, <1>4, <1>5
  <2>2. \E x \in Slot : Live(x)' /\ draw'[x] = 0
    BY <1>5, <1>7
  <2>. QED
    BY <2>1, <2>2, <1>4 DEF CheckpointSound
<1>18. AdmissionSound'
  <2>1. ASSUME NEW x \in Slot, Live(x)', PreExtract(record'[x], task'[app'[x]])
        PROVE  app'[x] + 1 = nextFrame' /\ ~ admissionOpen'
    <3>1. x = s
      BY <2>1, <1>3, <1>6, <1>8, <1>10
    <3>. QED
      BY <3>1, <1>3, <1>4, <1>5
  <2>2. Live(s)' /\ app'[s] + 1 = nextFrame' /\ ~ Opened(task'[app'[s]])
    BY <1>3, <1>4, <1>5, <1>7, <1>9, FreshSound
  <2>3. DrawCheckpointFollows'
    <3>1. ASSUME NEW x \in Slot, record[x].key # None, ~ record[x].requested
          PROVE  FALSE
      <4>1. Live(x) /\ draw[x] # 0
        BY <3>1, <1>10 DEF Live
      <4>. QED
        BY <3>1, <4>1, LiveIs DEF SlotIs, FrameSound, DrawSound
    <3>2. nextDraw = n
      BY <3>1, <1>3 DEF EngineInv, AdmissionSound, DrawCheckpointFollows
    <3>3. /\ record'[s].key # None /\ FrameIn(s)'.app + 1 = nextFrame'
          /\ ~ record'[s].requested
      BY <1>1, <1>4, <1>5, <1>7, FreshSound
    <3>. QED
      BY <3>2, <3>3, <1>3, <1>4 DEF DrawCheckpointFollows
  <2>. QED
    BY <2>1, <2>2, <2>3 DEF AdmissionSound
<1>19. HostSound'
  <2>1. \A f \in Frame : completion'[f].phase # "drawing"
    BY <1>3 DEF EngineInv, HostSound
  <2>2. Live(s)' /\ app'[s] + 1 = nextFrame' /\ ~ record'[s].hasUpdate
    BY <1>4, <1>5, <1>7, FreshSound
  <2>3. host'.op # "asleep"
    BY <1>11
  <2>. QED
    BY <2>1, <2>2, <2>3, <1>3 DEF HostSound
<1>20. RestSound'
  BY <1>3 DEF RestSound
<1>21. StoppersSound'
  <2>1. ~ stopInProgress /\ completedStop <= runGeneration /\ completedStop < runGeneration
    BY <1>3 DEF EngineInv, StoppersSound
  <2>2. \A p \in Stopper : ~ Cleans(p)
    BY <2>1 DEF EngineInv, StoppersSound
  <2>3. ASSUME NEW p \in Stopper
        PROVE  /\ stopper[p].observed <= runGeneration
               /\ ~ (stopper[p].at = "await" /\ stopper[p].observed = runGeneration)
               /\ stopper[p].at \notin {"joinJobs", "request", "waitIdle", "waitGpu"}
    BY <2>1, <2>2, <1>3 DEF EngineInv, StoppersSound, Cleans
  <2>. QED
    BY <2>1, <2>3, <1>3 DEF StoppersSound, Cleans
<1>. QED
  BY <1>12, <1>13, <1>14, <1>15, <1>16, <1>17, <1>18, <1>19, <1>20, <1>21 DEF EngineInv

-----------------------------------------------------------------------------
(* A run begins and ends. *)

(* No frame is there. *)
Empty ==
  /\ \A s \in Slot : /\ record[s] = EmptyRecord /\ state[s] = "FREE" /\ gpu[s] = "none"
                     /\ draw[s] = 0
  /\ \A f \in Frame : task[f] = NoTasks /\ completion[f] = NoCompletion
  /\ checkpoint = "UPDATE"

LEMMA EmptyIsSound ==
  ASSUME Empty, run = "RUNNING" => admissionOpen /\ nextDraw = nextFrame
  PROVE  /\ RecordsMatchSlots /\ SlotsSound /\ DeadSound /\ CheckpointSound /\ AdmissionSound
<1>1. \A s \in Slot : ~ Live(s) /\ record[s].key = None
  BY DEF Empty, Live, EmptyRecord
<1>2. RecordsMatchSlots
  BY <1>1 DEF Empty, RecordsMatchSlots
<1>3. SlotsSound
  BY <1>1 DEF Empty, SlotsSound
<1>4. DeadSound
  BY DEF Empty, DeadSound, NoCompletion
<1>5. CheckpointSound
  BY <1>1 DEF Empty, CheckpointSound
<1>6. AdmissionSound
  <2>1. run = "RUNNING" => DrawCheckpointFollows
    BY <1>1 DEF DrawCheckpointFollows
  <2>. QED
    BY <1>1, <2>1 DEF AdmissionSound
<1>. QED
  BY <1>2, <1>3, <1>4, <1>5, <1>6

LEMMA RestIsEmpty ==
  ASSUME EngineInv, run \in {"CREATED", "STOPPED"}
  PROVE  /\ Empty /\ host.op \in {"none", "asleep"} /\ ~ stopInProgress
         /\ \A p \in Stopper : ~ Cleans(p)
<1>1. /\ \A s \in Slot : record[s] = EmptyRecord
      /\ \A f \in Frame : task[f] = NoTasks /\ completion[f] = NoCompletion
      /\ host.op \in {"none", "asleep"}
  BY DEF EngineInv, RestSound
<1>2. \A s \in Slot : ~ Live(s) /\ record[s].key = None
  BY <1>1 DEF Live, EmptyRecord
<1>3. \A s \in Slot : state[s] = "FREE" /\ gpu[s] = "none" /\ draw[s] = 0
  BY <1>2 DEF EngineInv, RecordsMatchSlots, SlotsSound
<1>4. checkpoint = "UPDATE"
  <2>1. checkpoint # "DRAW"
    BY <1>2 DEF EngineInv, CheckpointSound
  <2>2. checkpoint \in {"UPDATE", "DRAW"}
    BY TypesAre DEF EngineInv, SlotsTyped
  <2>. QED
    BY <2>1, <2>2
<1>5. ~ stopInProgress /\ \A p \in Stopper : ~ Cleans(p)
  BY DEF EngineInv, StoppersSound
<1>. QED
  BY <1>1, <1>3, <1>4, <1>5 DEF Empty

(* The scheduler and the books of a run that has not begun a frame. *)
Blank ==
  /\ state = [s \in Slot |-> "FREE"] /\ app = [s \in Slot |-> InvalidIndex]
  /\ generation = [s \in Slot |-> 0] /\ update = [s \in Slot |-> 0]
  /\ draw = [s \in Slot |-> 0] /\ gpu = [s \in Slot |-> "none"]
  /\ checkpoint = "UPDATE" /\ nextFrame = 0
  /\ record = [s \in Slot |-> EmptyRecord] /\ task = [f \in Frame |-> NoTasks]
  /\ completion = [f \in Frame |-> NoCompletion]

LEMMA BlankIsTyped ==
  ASSUME Blank, keys \subseteq [run : 1 .. LastRun, frame : FS!Handle]
  PROVE  SlotsTyped /\ FramesTyped /\ Empty
<1>1. InvalidIndex \in Index /\ 0 \in Index
  BY Numbers
<1>2. SlotsTyped
  BY <1>1 DEF Blank, SlotsTyped, FrameState, FutureState
<1>3. EmptyRecord \in RecordOf(keys) /\ NoTasks \in Tasks /\ NoCompletion \in Completions
  BY DEF EmptyRecord, RecordOf, NoTasks, Tasks, Place, NoCompletion, Completions, Outcome
<1>4. FramesTyped
  BY <1>3 DEF Blank, FramesTyped
<1>. QED
  BY <1>2, <1>4 DEF Blank, Empty

LEMMA InitSound ==
  ASSUME Init
  PROVE  EngineInv
<1>1. Blank /\ keys = {} /\ nextDraw = 0 /\ admissionOpen /\ run = "CREATED"
  BY DEF Init, FS!Init, FS!Slot, Slot, Blank
<1>2. SlotsTyped /\ FramesTyped /\ Empty
  BY <1>1, BlankIsTyped
<1>3. RunTyped
  <2>1. stopInProgress \in BOOLEAN /\ admissionOpen \in BOOLEAN /\ lastError \in BOOLEAN
    BY DEF Init
  <2>2. runGeneration \in 0 .. LastRun /\ completedStop \in 0 .. LastRun /\ nextDraw \in 0 .. InvalidIndex
    BY Numbers DEF Init
  <2>. QED
    BY <1>1, <2>1, <2>2 DEF RunTyped
<1>4. HostTyped
  BY Numbers DEF Init, HostTyped, HostIdle
<1>5. TypeOK
  BY <1>2, <1>3, <1>4, TypesAre
<1>6. RecordsMatchSlots /\ SlotsSound /\ DeadSound /\ CheckpointSound /\ AdmissionSound
  BY <1>1, <1>2, EmptyIsSound
<1>7. KeysSound
  BY <1>1 DEF KeysSound
<1>8. HostSound /\ RestSound
  BY <1>1, <1>2 DEF Init, HostIdle, HostSound, RestSound, Empty
<1>9. StoppersSound
  BY <1>3 DEF Init, StoppersSound, Cleans, RunTyped
<1>. QED
  BY <1>5, <1>6, <1>7, <1>8, <1>9 DEF EngineInv

LEMMA StartMoves ==
  ASSUME EngineInv, Start
  PROVE  EngineInv'
<1>1. SlotsTyped /\ FramesTyped /\ RunTyped /\ HostTyped
  BY TypesAre DEF EngineInv
<1>2. /\ run \in {"CREATED", "STOPPED"} /\ run' = "RUNNING" /\ runGeneration < LastRun
      /\ runGeneration' = runGeneration + 1 /\ nextDraw' = 0 /\ admissionOpen' = TRUE
      /\ lastError' = FALSE /\ watch' = "news" /\ stopInProgress' = stopInProgress
      /\ completedStop' = completedStop /\ keys' = keys /\ record' = record /\ task' = task
      /\ completion' = completion /\ host' = host /\ jobs' = jobs /\ stopper' = stopper
  BY DEF Start, Notify
<1>3. Empty /\ host.op \in {"none", "asleep"} /\ ~ stopInProgress /\ \A p \in Stopper : ~ Cleans(p)
  BY <1>2, RestIsEmpty
<1>4. Blank' /\ keys' \subseteq [run : 1 .. LastRun, frame : FS!Handle] /\ nextFrame' = 0
  <2>1. /\ record = [s \in Slot |-> EmptyRecord] /\ task = [f \in Frame |-> NoTasks]
        /\ completion = [f \in Frame |-> NoCompletion]
    BY <1>1, <1>3 DEF Empty, FramesTyped
  <2>2. SchedulerStarts
    BY DEF Start
  <2>. QED
    BY <1>1, <1>2, <2>1, <2>2 DEF SchedulerStarts, Blank, SlotsTyped
<1>5. SlotsTyped' /\ FramesTyped' /\ Empty'
  <2>1. (Blank /\ keys \subseteq [run : 1 .. LastRun, frame : FS!Handle])'
           => (SlotsTyped /\ FramesTyped /\ Empty)'
    BY BlankIsTyped, PTL
  <2>. QED
    BY <1>4, <2>1
<1>6. RunTyped' /\ HostTyped'
  <2>1. stopInProgress' \in BOOLEAN /\ admissionOpen' \in BOOLEAN /\ lastError' \in BOOLEAN
    BY <1>1, <1>2 DEF RunTyped
  <2>2. /\ runGeneration' \in 0 .. LastRun /\ completedStop' \in 0 .. LastRun
        /\ nextDraw' \in 0 .. InvalidIndex
    BY <1>1, <1>2, Numbers DEF RunTyped
  <2>3. RunTyped'
    BY <1>2, <2>1, <2>2 DEF RunTyped
  <2>4. HostTyped'
    BY <1>1, <1>2 DEF HostTyped
  <2>. QED
    BY <2>3, <2>4
<1>7. TypeOK'
  <2>1. (SlotsTyped /\ FramesTyped /\ RunTyped /\ HostTyped)' => TypeOK'
    BY TypesAre, PTL
  <2>. QED
    BY <1>5, <1>6, <2>1
<1>8. RecordsMatchSlots' /\ SlotsSound' /\ DeadSound' /\ CheckpointSound' /\ AdmissionSound'
  <2>1. (Empty /\ (run = "RUNNING" => admissionOpen /\ nextDraw = nextFrame))'
           => (RecordsMatchSlots /\ SlotsSound /\ DeadSound /\ CheckpointSound /\ AdmissionSound)'
    BY EmptyIsSound, PTL
  <2>. QED
    BY <1>2, <1>4, <1>5, <2>1
<1>9. KeysSound'
  <2>1. \A k \in keys : k.run \in Nat /\ k.run <= runGeneration
    BY <1>1, Numbers DEF EngineInv, KeysSound, SlotsTyped
  <2>2. \A k \in keys : k.run <= runGeneration' /\ k.run # runGeneration'
    BY <1>1, <1>2, <2>1 DEF RunTyped
  <2>. QED
    BY <1>2, <2>2 DEF EngineInv, KeysSound
<1>10. HostSound'
  <2>1. \A f \in Frame : completion'[f].phase # "drawing"
    BY <1>2, <1>3 DEF Empty, NoCompletion
  <2>. QED
    BY <1>2, <1>3, <2>1 DEF HostSound
<1>11. RestSound'
  BY <1>2 DEF RestSound
<1>12. StoppersSound'
  <2>1. completedStop <= runGeneration /\ completedStop \in Nat /\ runGeneration \in Nat
    BY <1>1, Numbers DEF EngineInv, StoppersSound, RunTyped
  <2>2. ASSUME NEW p \in Stopper
        PROVE  /\ stopper[p].observed <= runGeneration + 1 /\ stopper[p].observed # runGeneration + 1
               /\ stopper[p].at \notin {"joinJobs", "request", "waitIdle", "waitGpu"}
    <3>1. stopper[p].observed <= runGeneration /\ stopper[p].observed \in Nat
      BY <1>1, Numbers DEF EngineInv, StoppersSound, HostTyped
    <3>. QED
      BY <1>3, <2>1, <3>1 DEF Cleans
  <2>. QED
    BY <1>2, <1>3, <2>1, <2>2 DEF StoppersSound, Cleans
<1>. QED
  BY <1>7, <1>8, <1>9, <1>10, <1>11, <1>12 DEF EngineInv

LEMMA StartFailsMoves ==
  ASSUME EngineInv, StartFails
  PROVE  EngineInv'
<1>1. SlotsTyped /\ FramesTyped /\ RunTyped /\ HostTyped
  BY TypesAre DEF EngineInv
<1>2. /\ run \in {"CREATED", "STOPPED"} /\ run' = "STOPPED"
      /\ completedStop' = runGeneration' /\ stopInProgress' = FALSE /\ admissionOpen' = TRUE
      /\ lastError' = FALSE
      /\ UNCHANGED <<frames, keys, record, nextDraw, task, completion, host, watch, jobs,
                     stopper>>
  BY DEF StartFails
<1>3. runGeneration' \in Nat /\ runGeneration <= runGeneration' /\ runGeneration' <= LastRun
  BY <1>1, Numbers DEF StartFails, RunTyped
<1>4. Empty /\ host.op \in {"none", "asleep"} /\ ~ stopInProgress /\ \A p \in Stopper : ~ Cleans(p)
  BY <1>2, RestIsEmpty
<1>5. /\ state' = state /\ app' = app /\ generation' = generation /\ update' = update
      /\ draw' = draw /\ gpu' = gpu /\ checkpoint' = checkpoint /\ nextFrame' = nextFrame
      /\ keys' = keys /\ record' = record /\ task' = task /\ completion' = completion
      /\ host' = host /\ watch' = watch /\ jobs' = jobs /\ stopper' = stopper
      /\ nextDraw' = nextDraw
  BY <1>2 DEF frames
<1>6. Empty'
  BY <1>4, <1>5 DEF Empty
<1>7. TypeOK'
  <2>1. SlotsTyped' /\ FramesTyped'
    BY <1>1, <1>5 DEF SlotsTyped, FramesTyped
  <2>2. RunTyped'
    <3>1. stopInProgress' \in BOOLEAN /\ admissionOpen' \in BOOLEAN /\ lastError' \in BOOLEAN
      BY <1>2
    <3>2. runGeneration' \in 0 .. LastRun /\ completedStop' \in 0 .. LastRun
      BY <1>2, <1>3, Numbers
    <3>3. nextDraw' \in 0 .. InvalidIndex
      BY <1>1, <1>5 DEF RunTyped
    <3>. QED
      BY <1>2, <3>1, <3>2, <3>3 DEF RunTyped
  <2>3. HostTyped'
    BY <1>1, <1>5 DEF HostTyped
  <2>4. (SlotsTyped /\ FramesTyped /\ RunTyped /\ HostTyped)' => TypeOK'
    BY TypesAre, PTL
  <2>. QED
    BY <2>1, <2>2, <2>3, <2>4
<1>8. RecordsMatchSlots' /\ SlotsSound' /\ DeadSound' /\ CheckpointSound' /\ AdmissionSound'
  <2>1. (Empty /\ (run = "RUNNING" => admissionOpen /\ nextDraw = nextFrame))'
           => (RecordsMatchSlots /\ SlotsSound /\ DeadSound /\ CheckpointSound /\ AdmissionSound)'
    BY EmptyIsSound, PTL
  <2>. QED
    BY <1>2, <1>6, <2>1
<1>9. KeysSound'
  <2>1. \A k \in keys : k.run \in Nat /\ k.run <= runGeneration
    BY <1>1, Numbers DEF EngineInv, KeysSound, SlotsTyped
  <2>2. \A k \in keys : k.run <= runGeneration'
    BY <1>1, <1>3, <2>1 DEF RunTyped
  <2>. QED
    BY <1>2, <1>5, <2>2 DEF EngineInv, KeysSound
<1>10. HostSound'
  <2>1. host.op = "asleep" => watch \in {"refused", "news"}
    BY DEF EngineInv, HostSound
  <2>. QED
    BY <1>2, <1>4, <1>5, <2>1 DEF HostSound
<1>11. RestSound'
  BY <1>4, <1>5, <1>6 DEF RestSound, Empty
<1>12. StoppersSound'
  <2>1. ASSUME NEW p \in Stopper
        PROVE  /\ stopper[p].observed <= runGeneration'
               /\ stopper[p].at \notin {"joinJobs", "request", "waitIdle", "waitGpu"}
    <3>1. stopper[p].observed <= runGeneration /\ stopper[p].observed \in Nat
          /\ runGeneration \in Nat
      BY <1>1, Numbers DEF EngineInv, StoppersSound, HostTyped, RunTyped
    <3>. QED
      BY <1>3, <1>4, <3>1 DEF Cleans
  <2>. QED
    BY <1>2, <1>3, <1>5, <2>1 DEF StoppersSound, Cleans
<1>. QED
  BY <1>7, <1>8, <1>9, <1>10, <1>11, <1>12 DEF EngineInv

LEMMA StopMoves ==
  ASSUME EngineInv, NEW p \in Stopper, CompleteStop(p)
  PROVE  EngineInv'
<1>1. SlotsTyped /\ FramesTyped /\ RunTyped /\ HostTyped
  BY TypesAre DEF EngineInv
<1>2. /\ stopper[p].at = "waitGpu" /\ SchedulerStarts
      /\ record' = [s \in Slot |-> EmptyRecord] /\ task' = [f \in Frame |-> NoTasks]
      /\ completion' = [f \in Frame |-> NoCompletion]
      /\ run' = "STOPPED" /\ nextDraw' = 0 /\ admissionOpen' = TRUE
      /\ completedStop' = stopper[p].observed /\ stopInProgress' = FALSE
      /\ watch' = "news" /\ GoTo(p, "out") /\ host' = host /\ jobs' = jobs
      /\ runGeneration' = runGeneration /\ keys' = keys
  BY DEF CompleteStop, Notify
<1>3. Cleans(p)
  BY <1>2 DEF Cleans
<1>4. /\ stopper[p].observed = runGeneration /\ host.op \in {"none", "asleep"}
      /\ \A q \in Stopper : q # p => ~ Cleans(q)
  BY <1>3 DEF EngineInv, StoppersSound
<1>5. Goes(p, "out", stopper[p].observed)
  BY <1>2, GoesIs
<1>6. stopper'[p] = [at |-> "out", observed |-> stopper[p].observed]
      /\ \A q \in Stopper : q # p => stopper'[q] = stopper[q]
  BY <1>1, <1>5 DEF Goes, HostTyped
<1>7. Blank' /\ keys' \subseteq [run : 1 .. LastRun, frame : FS!Handle] /\ nextFrame' = 0
  BY <1>1, <1>2 DEF SchedulerStarts, Blank, SlotsTyped
<1>8. SlotsTyped' /\ FramesTyped' /\ Empty'
  <2>1. (Blank /\ keys \subseteq [run : 1 .. LastRun, frame : FS!Handle])'
           => (SlotsTyped /\ FramesTyped /\ Empty)'
    BY BlankIsTyped, PTL
  <2>. QED
    BY <1>7, <2>1
<1>9. RunTyped'
  <2>1. lastError' \in BOOLEAN
    BY DEF CompleteStop
  <2>2. stopInProgress' \in BOOLEAN /\ admissionOpen' \in BOOLEAN
    BY <1>2
  <2>3. /\ runGeneration' \in 0 .. LastRun /\ completedStop' \in 0 .. LastRun
        /\ nextDraw' \in 0 .. InvalidIndex
    BY <1>1, <1>2, <1>4, Numbers DEF RunTyped
  <2>. QED
    BY <1>2, <2>1, <2>2, <2>3 DEF RunTyped
<1>10. HostTyped'
  <2>1. stopper[p].observed \in 0 .. LastRun
    BY <1>1 DEF HostTyped
  <2>2. stopper' \in [Stopper ->
          [at : {"out", "called", "await", "joinJobs", "request", "waitIdle", "waitGpu"},
           observed : 0 .. LastRun]]
    BY <1>1, <1>5, <2>1 DEF Goes, HostTyped
  <2>. QED
    BY <1>1, <1>2, <2>2 DEF HostTyped
<1>11. TypeOK'
  <2>1. (SlotsTyped /\ FramesTyped /\ RunTyped /\ HostTyped)' => TypeOK'
    BY TypesAre, PTL
  <2>. QED
    BY <1>8, <1>9, <1>10, <2>1
<1>12. RecordsMatchSlots' /\ SlotsSound' /\ DeadSound' /\ CheckpointSound' /\ AdmissionSound'
  <2>1. (Empty /\ (run = "RUNNING" => admissionOpen /\ nextDraw = nextFrame))'
           => (RecordsMatchSlots /\ SlotsSound /\ DeadSound /\ CheckpointSound /\ AdmissionSound)'
    BY EmptyIsSound, PTL
  <2>. QED
    BY <1>2, <1>8, <2>1
<1>13. KeysSound'
  BY <1>2 DEF EngineInv, KeysSound
<1>14. HostSound'
  BY <1>2, <1>4 DEF HostSound
<1>15. RestSound'
  BY <1>2, <1>4, <1>8 DEF RestSound, Empty
<1>16. StoppersSound'
  <2>1. ~ Cleans(p)' /\ \A q \in Stopper : q # p => ~ Cleans(q)'
    BY <1>4, <1>6 DEF Cleans
  <2>2. runGeneration \in Nat /\ \A q \in Stopper : stopper'[q].observed <= runGeneration
    <3>1. \A q \in Stopper : stopper'[q].observed = stopper[q].observed
      BY <1>6
    <3>. QED
      BY <1>1, <3>1, Numbers DEF RunTyped, EngineInv, StoppersSound
  <2>3. \A q \in Stopper : stopper'[q].at \notin {"joinJobs", "request", "waitIdle", "waitGpu"}
    BY <2>1 DEF Cleans
  <2>. QED
    BY <1>2, <1>4, <2>1, <2>2, <2>3 DEF StoppersSound
<1>. QED
  BY <1>11, <1>12, <1>13, <1>14, <1>15, <1>16 DEF EngineInv

LEMMA Stutters ==
  ASSUME EngineInv, UNCHANGED vars
  PROVE  EngineInv'
<1>1. FramesStay /\ UNCHANGED <<run, stopInProgress, completedStop, lastError, host, watch, jobs,
                                stopper>>
  BY DEF vars, FramesStay, frames, pastRuns, admission
<1>2. HostTyped'
  BY <1>1, TypesAre DEF EngineInv, HostTyped
<1>3. HostSound'
  <2>1. (Room' <=> Room) /\ \A s \in Slot : Live(s)' <=> Live(s)
    BY <1>1, RoomStays
  <2>2. /\ nextFrame' = nextFrame /\ completion' = completion /\ app' = app /\ record' = record
        /\ admissionOpen' = admissionOpen
    BY <1>1 DEF FramesStay, frames, admission
  <2>. QED
    BY <1>1, <2>1, <2>2 DEF EngineInv, HostSound
<1>4. lastError' \in BOOLEAN
  BY <1>1, TypesAre DEF EngineInv, RunTyped
<1>. QED
  BY <1>1, <1>2, <1>3, <1>4, HostMoves

-----------------------------------------------------------------------------
(* The inductive step. *)

LEMMA ReapMoves ==
  ASSUME EngineInv, Reap
  PROVE  EngineInv'
BY ReapsNothing, GpuReapMoves, ReleaseMoves DEF Reap

LEMMA EngineInductive ==
  ASSUME EngineInv, [Next]_vars
  PROVE  EngineInv'
<1>1. CASE HostStep
  <2>1. CASE Start \/ StartFails
    BY <2>1, StartMoves, StartFailsMoves
  <2>2. CASE HostCalls \/ WaitEnds
    BY <2>2, HostCallsMove
  <2>3. CASE Reap
    BY <2>3, ReapMoves
  <2>4. CASE EndReaping
    BY <2>4, RefuseMoves, BeginMoves DEF EndReaping
  <2>5. CASE UpdateCompletes
    BY <2>5, UpdateCompletesMoves
  <2>6. CASE Draw
    BY <2>6, DrawMoves
  <2>7. CASE \E k \in keys : CompleteUserUpdate(k) \/ AbortFrame(k)
    BY <2>7, UserUpdateMoves, AbortMoves
  <2>. QED
    BY <1>1, <2>1, <2>2, <2>3, <2>4, <2>5, <2>6, <2>7 DEF HostStep
<1>2. CASE JobStep
  BY <1>2, JobsMove
<1>3. CASE \E f \in Frame : WorkerStep(f) \/ SimulationEnds(f)
  BY <1>3, WorkersMove
<1>4. CASE \E s \in Slot : GpuStep(s)
  BY <1>4, GpuMoves
<1>5. ASSUME NEW p \in Stopper, Stop(p) \/ StopStep(p)
      PROVE  EngineInv'
  <2>1. CASE Stop(p)
    BY <2>1, StopWaits
  <2>2. CASE CompleteStop(p)
    BY <2>2, StopMoves
  <2>3. CASE StopWork(p)
    <3>1. CASE BeginStop(p) \/ AwaitStop(p) \/ JoinUserJobs(p) \/ JoinUpdates(p) \/ WaitIdle(p)
      BY <2>3, <3>1, StopWaits
    <3>2. CASE \E f \in Frame : StopUpdate(p, f)
      BY <2>3, <3>2, StopUpdateMoves
    <3>. QED
      BY <2>3, <3>1, <3>2 DEF StopWork
  <2>. QED
    BY <1>5, <2>1, <2>2, <2>3 DEF StopStep
<1>6. CASE UNCHANGED vars
  BY <1>6, Stutters
<1>. QED
  BY <1>1, <1>2, <1>3, <1>4, <1>5, <1>6 DEF Next

-----------------------------------------------------------------------------
(* What follows from it. *)

LEMMA BooksFollow ==
  ASSUME EngineInv
  PROVE  FramesAreAccounted
<1>1. ASSUME run = "RUNNING", ~ admissionOpen
      PROVE  ClosedAdmissionHasFrame
  <2>1. PICK s \in Slot : Live(s) /\ app[s] + 1 = nextFrame /\ ~ Opened(task[app[s]])
    BY <1>1 DEF EngineInv, AdmissionSound
  <2>. DEFINE t == task[app[s]]
  <2>2. /\ FrameSound(record[s], t, completion[app[s]], state[s], gpu[s], draw[s], run)
        /\ FrameIn(s).app = app[s]
    BY <2>1, LiveIs DEF SlotIs
  <2>3. t["draw"] \notin {"scheduleDraw", "complete", "notify"}
        /\ t["finish"] \notin {"scheduleDraw", "complete", "notify"}
    <3>1. CASE record[s].drawTask = "none"
      BY <2>2, <3>1 DEF FrameSound, DrawSound, Kind
    <3>2. CASE record[s].drawTask # "none"
      <4>1. ChainsSound(record[s], t)
        BY <2>2, <3>2 DEF FrameSound, TasksSound
      <4>. HIDE DEF t
      <4>2. CASE Extracting(t)
        BY <2>1, <4>1, <4>2 DEF t, ChainsSound, Opened, Opener
      <4>3. CASE ~ Extracting(t)
        BY <2>1, <4>3 DEF t, Opened, Opener, Extracting
      <4>. QED
        BY <4>2, <4>3
    <3>. QED
      BY <3>1, <3>2
  <2>. QED
    BY <2>1, <2>2, <2>3 DEF ClosedAdmissionHasFrame, Live
<1>2. run = "RUNNING" => ClosedAdmissionHasFrame
  BY <1>1 DEF ClosedAdmissionHasFrame
<1>. QED
  BY <1>2 DEF FramesAreAccounted, CheckpointsFollowNewest, EngineInv, AdmissionSound

(* A simulation or an extraction is that of the newest frame. *)
LEMMA SimulatesIs ==
  ASSUME EngineInv, NEW f \in Frame, Simulates(f)
  PROVE  f + 1 = nextFrame /\ ~ Extracts(f)
<1>1. ~ Dead(f)
  <2>1. CASE Dead(f)
    <3>1. task[f]["update"] = "none" /\ completion[f].phase # "open"
      BY <2>1, DeadTasks DEF Kind
    <3>. QED
      BY <3>1 DEF Simulates
  <2>. QED
    BY <2>1
<1>2. PICK s \in Slot : Live(s) /\ app[s] = f
  BY <1>1, LiveOrDead
<1>3. /\ FrameSound(record[s], task[f], completion[f], state[s], gpu[s], draw[s], run)
      /\ record[s].hasUpdate
  <2>1. /\ FrameSound(record[s], task[f], completion[f], state[s], gpu[s], draw[s], run)
        /\ task[f] # NoTasks \/ completion[f].phase # "none" => record[s].hasUpdate
    BY <1>2, FrameIs
  <2>2. task[f] # NoTasks \/ completion[f].phase # "none"
    BY DEF Simulates, NoTasks, Kind
  <2>. QED
    BY <2>1, <2>2
<1>4. ~ record[s].succeeded /\ record[s].drawTask = "none"
  BY <1>3 DEF Simulates, FrameSound, UpdateSound
<1>5. ~ Extracts(f)
  BY <1>3, <1>4 DEF Extracts, FrameSound, DrawSound, Kind
<1>6. f + 1 = nextFrame
  BY <1>2, <1>4, Newest DEF PreExtract
<1>. QED
  BY <1>5, <1>6

LEMMA ExtractsIs ==
  ASSUME EngineInv, NEW f \in Frame, Extracts(f)
  PROVE  f + 1 = nextFrame
<1>1. ~ Dead(f)
  <2>1. CASE Dead(f)
    <3>1. task[f]["draw"] = "none" /\ task[f]["extract"] = "none"
      BY <2>1, DeadTasks DEF Kind
    <3>. QED
      BY <3>1 DEF Extracts
  <2>. QED
    BY <2>1
<1>2. PICK s \in Slot : Live(s) /\ app[s] = f
  BY <1>1, LiveOrDead
<1>3. FrameSound(record[s], task[f], completion[f], state[s], gpu[s], draw[s], run)
  BY <1>2, FrameIs
<1>4. record[s].drawTask # "none"
  BY <1>3 DEF Extracts, FrameSound, DrawSound, Kind
<1>5. ChainsSound(record[s], task[f])
  BY <1>3, <1>4 DEF FrameSound, TasksSound
<1>6. task[f]["extract"] = "join" => task[f]["finish"] = "waiting"
  BY <1>5 DEF ChainsSound, Extracting
<1>7. PreExtract(record[s], task[f])
  BY <1>6 DEF Extracts, PreExtract
<1>. QED
  BY <1>2, <1>7, Newest

LEMMA WorldFollows ==
  ASSUME EngineInv
  PROVE  WorldIsExclusive
<1>1. ASSUME NEW f \in Frame, NEW g \in Frame, f + 1 = nextFrame, g + 1 = nextFrame
      PROVE  f = g
  BY <1>1, Numbers
<1>. QED
  BY <1>1, SimulatesIs, ExtractsIs DEF WorldIsExclusive

LEMMA CallsFollow ==
  ASSUME EngineInv
  PROVE  CallsInOrder
<1>1. ASSUME NEW s \in Slot, Live(s)
      PROVE  /\ FrameSound(record[s], task[app[s]], completion[app[s]], state[s], gpu[s], draw[s],
                           run)
             /\ SlotOf(app[s]) = s /\ app[s] \in Frame
             /\ draw[s] = 0 => checkpoint = "DRAW"
  BY <1>1, LiveIs DEF SlotIs, EngineInv, CheckpointSound
<1>2. UpdateCallsInOrder
  <2>1. ASSUME NEW f \in Frame
        PROVE  /\ task[f]["update"] = "run" => state[SlotOf(f)] = "WAITING_UPDATE"
               /\ completion[f].phase = "finishing" /\ completion[f].outcome = "COMPLETED" =>
                    state[SlotOf(f)] = "UPDATING"
               /\ completion[f].phase = "drawing" =>
                    checkpoint = "DRAW" /\ draw[SlotOf(f)] = 0 /\ record[SlotOf(f)].requested
    <3>1. CASE Dead(f)
      <4>1. task[f]["update"] = "none" /\ completion[f].phase \in {"none", "applied", "finished"}
        BY <3>1, DeadTasks DEF Kind
      <4>. QED
        BY <4>1
    <3>2. CASE ~ Dead(f)
      <4>1. PICK s \in Slot : Live(s) /\ app[s] = f
        BY <3>2, LiveOrDead
      <4>2. /\ FrameSound(record[s], task[f], completion[f], state[s], gpu[s], draw[s], run)
            /\ SlotOf(f) = s /\ (draw[s] = 0 => checkpoint = "DRAW")
            /\ task[f] # NoTasks \/ completion[f].phase # "none" => record[s].hasUpdate
        BY <1>1, <4>1, FrameIs
      <4>3. task[f]["update"] = "run" => task[f] # NoTasks
        BY DEF NoTasks, Kind
      <4>. QED
        BY <4>2, <4>3 DEF FrameSound, UpdateSound
    <3>. QED
      BY <3>1, <3>2
  <2>. QED
    BY <2>1 DEF UpdateCallsInOrder
<1>3. DrawCallsInOrder
  <2>1. ASSUME NEW f \in Frame, NEW k \in Kind \ {"update"}
        PROVE  /\ task[f][k] = "begin" => state[SlotOf(f)] = "WAITING_DRAW" /\ draw[SlotOf(f)] # 0
               /\ task[f][k] \in {"scheduleDraw", "join"} =>
                    \/ state[SlotOf(f)] = "FINALIZE"
                    \/ k = "prepare" /\ state[SlotOf(f)] = "SUBMITTED"
               /\ task[f][k] = "complete" =>
                    state[SlotOf(f)] = IF gpu[SlotOf(f)] = "none" THEN "FINALIZE" ELSE "SUBMITTED"
    <3>1. CASE task[f][k] = "none"
      BY <3>1
    <3>2. CASE task[f][k] # "none"
      <4>1. ~ Dead(f)
        BY <3>2, DeadTasks
      <4>2. PICK s \in Slot : Live(s) /\ app[s] = f
        BY <4>1, LiveOrDead
      <4>3. /\ FrameSound(record[s], task[f], completion[f], state[s], gpu[s], draw[s], run)
            /\ SlotOf(f) = s
        BY <1>1, <4>2
      <4>4. record[s].drawTask # "none" /\ draw[s] # 0
        BY <3>2, <4>3 DEF FrameSound, DrawSound
      <4>5. ChainsSound(record[s], task[f]) /\ StagesSound(record[s], task[f], state[s], gpu[s])
        BY <4>3, <4>4 DEF FrameSound, TasksSound
      <4>6. CASE k = "draw"
        BY <4>3, <4>4, <4>5, <4>6 DEF ChainsSound, StagesSound, Kind
      <4>7. CASE k = "extract"
        BY <3>2, <4>3, <4>4, <4>5, <4>7 DEF ChainsSound, StagesSound, Extracting
      <4>8. CASE k = "finish"
        BY <3>2, <4>3, <4>4, <4>5, <4>8 DEF ChainsSound, StagesSound, Extracting, Kind
      <4>9. CASE k = "prepare"
        BY <3>2, <4>3, <4>4, <4>5, <4>9 DEF ChainsSound, StagesSound, Preparing
      <4>10. CASE k = "complete"
        BY <3>2, <4>3, <4>4, <4>5, <4>10 DEF ChainsSound, StagesSound, Preparing, Kind
      <4>. QED
        BY <4>6, <4>7, <4>8, <4>9, <4>10 DEF Kind
    <3>. QED
      BY <3>1, <3>2
  <2>. QED
    BY <2>1 DEF DrawCallsInOrder
<1>4. ReapCallsInOrder
  <2>1. ASSUME InReapingCall, cursor < MaxActiveFrames, Collectable(cursor)
        PROVE  IF gpu[cursor] # "none"
                 THEN state[cursor] \in {"SUBMITTED", "GPU_IN_FLIGHT", "COMPLETE"}
                 ELSE ReapFailed(cursor) \/ state[cursor] = "COMPLETE"
    <3>1. PICK s \in Slot : s = cursor /\ Live(s)
            /\ DrawStatus(s) = task[app[s]][record[s].drawTask]
            /\ record[s].drawTask # "none" /\ task[app[s]][record[s].drawTask] \in Terminal
      BY <2>1, CollectableIs
    <3>2. FrameSound(record[s], task[app[s]], completion[app[s]], state[s], gpu[s], draw[s], run)
      BY <1>1, <3>1
    <3>3. CASE gpu[s] # "none"
      BY <3>1, <3>2, <3>3 DEF FrameSound, GpuSound
    <3>4. CASE gpu[s] = "none" /\ DrawStatus(s) = "completed"
      <4>1. Last(task[app[s]]) = "completed"
        BY <3>1, <3>2, <3>4, LastEndsAll
      <4>2. state[s] = "COMPLETE"
        BY <3>1, <3>2, <3>4, <4>1 DEF FrameSound, TasksSound, StagesSound
      <4>. QED
        BY <3>1, <3>4, <4>2
    <3>5. CASE gpu[s] = "none" /\ DrawStatus(s) # "completed"
      BY <3>1, <3>5 DEF ReapFailed
    <3>. QED
      BY <3>3, <3>4, <3>5
  <2>. QED
    BY <2>1 DEF ReapCallsInOrder
<1>5. HostCallsInOrder
  <2>1. ASSUME admissionOpen
        PROVE  checkpoint = "UPDATE"
    <3>1. ASSUME NEW s \in Slot, Live(s), draw[s] = 0
          PROVE  FALSE
      <4>1. record[s].drawTask = "none"
        BY <1>1, <3>1 DEF FrameSound, DrawSound
      <4>2. PreExtract(record[s], task[app[s]])
        BY <4>1 DEF PreExtract
      <4>. QED
        BY <2>1, <3>1, <4>2 DEF EngineInv, AdmissionSound
    <3>2. checkpoint \in {"UPDATE", "DRAW"}
      BY TypesAre DEF EngineInv, SlotsTyped
    <3>. QED
      BY <3>1, <3>2 DEF EngineInv, CheckpointSound
  <2>2. ASSUME NEW s \in Slot, record[s].key # None, ~ record[s].hasUpdate
        PROVE  state[s] = "ACQUIRED"
    BY <1>1, <2>2 DEF Live, FrameSound, Begun
  <2>3. ASSUME NEW s \in Slot, record[s].succeeded, ~ record[s].requested
        PROVE  checkpoint = "DRAW" /\ draw[s] = 0
    <3>1. Live(s)
      BY <2>3 DEF EngineInv, RecordsMatchSlots, Live, EmptyRecord
    <3>. QED
      BY <1>1, <2>3, <3>1 DEF FrameSound, DrawSound
  <2>. QED
    BY <2>1, <2>2, <2>3 DEF HostCallsInOrder
<1>. QED
  BY <1>2, <1>3, <1>4, <1>5 DEF CallsInOrder

LEMMA FailuresFollow ==
  ASSUME EngineInv
  PROVE  FailuresAreContained
<1>1. ASSUME NEW f \in Frame, NEW k \in Kind, Body(f, k)
      PROVE  InSlot(f)
  <2>1. ~ Dead(f)
    <3>1. task[f][k] # "none"
      BY <1>1 DEF Body
    <3>. QED
      BY <3>1, DeadTasks
  <2>2. PICK s \in Slot : Live(s) /\ app[s] = f
    BY <2>1, LiveOrDead
  <2>. QED
    BY <2>2, LiveIs DEF SlotIs, InSlot
<1>. QED
  BY <1>1, CallsFollow DEF FailuresAreContained, NoBodyOutlivesItsFrame

LEMMA WakesFollow ==
  ASSUME EngineInv
  PROVE  AdmissionWakesWaiter
BY DEF EngineInv, HostSound, AdmissionWakesWaiter

-----------------------------------------------------------------------------
(* The steps that end a run or a call of Stop. *)

LEMMA WorkersGoOn ==
  ASSUME NEW f \in Frame, WorkerStep(f) \/ SimulationEnds(f)
  PROVE  stopper' = stopper /\ run' \in {run, "STOPPING"}
<1>1. CASE LocalStep(f) \/ SimulationEnds(f)
  <2>1. UNCHANGED <<run, stopper>>
    BY <1>1 DEF LocalStep, SimulationEnds
  <2>. QED
    BY <2>1
<1>2. CASE SchedulerStep(f)
  <2>1. UNCHANGED schedulerRest
    BY <1>2 DEF SchedulerStep
  <2>2. UNCHANGED <<run, stopper>>
    BY <2>1 DEF schedulerRest
  <2>. QED
    BY <2>2
<1>3. CASE MutexStep(f)
  <2>1. stopper' = stopper
    BY <1>3 DEF MutexStep
  <2>2. CASE FinishUpdate(f)
    BY <2>1, <2>2 DEF FinishUpdate, NoFailure
  <2>3. CASE ScheduleRequestedDraw(f)
    BY <2>1, <2>3 DEF ScheduleRequestedDraw, ScheduleDraw, NoFailure, Fail
  <2>4. ASSUME NEW k \in Kind, \/ DrawThrows(f, k) \/ RecordSuccessor(f, k)
                               \/ FinishDraw(f, k) \/ DrawCompletes(f, k)
        PROVE  run' \in {run, "STOPPING"}
    BY <2>4 DEF DrawThrows, RecordSuccessor, FinishDraw, DrawCompletes, NoFailure, Fail
  <2>. QED
    BY <1>3, <2>1, <2>2, <2>3, <2>4 DEF MutexStep
<1>. QED
  BY <1>1, <1>2, <1>3 DEF WorkerStep

LEMMA HostGoesOn ==
  ASSUME HostStep
  PROVE  stopper' = stopper /\ (run \in {"RUNNING", "STOPPING"} => run' \in {run, "STOPPING"})
<1>1. CASE Start \/ StartFails
  BY <1>1 DEF Start, StartFails
<1>2. CASE HostCalls \/ WaitEnds
  BY <1>2 DEF HostCalls, WaitEnds, idleRest
<1>3. CASE Reap
  BY <1>3 DEF Reap, ReapSkip, ReapBeginGpu, ReapAwaitGpu, ReapCompleteGpu, ReapRelease,
              NoteFailure, NoFailure, Fail
<1>4. CASE EndReaping
  BY <1>4 DEF EndReaping
<1>5. ASSUME NEW k, PublishUpdate(k)
      PROVE  stopper' = stopper /\ run' \in {run, "STOPPING"}
  BY <1>5 DEF PublishUpdate, NoFailure, Fail
<1>6. CASE UpdateCompletes \/ \E k \in keys : CompleteUserUpdate(k)
  BY <1>5, <1>6 DEF UpdateCompletes, CompleteUserUpdate
<1>7. CASE Draw
  <2>1. stopper' = stopper
    BY <1>7 DEF Draw
  <2>2. run' \in {run, "STOPPING"}
    BY <1>7 DEF Draw, ScheduleDraw, NoFailure, Fail
  <2>. QED
    BY <2>1, <2>2
<1>8. CASE \E k \in keys : AbortFrame(k)
  BY <1>8 DEF AbortFrame
<1>. QED
  BY <1>1, <1>2, <1>3, <1>4, <1>6, <1>7, <1>8 DEF HostStep

(* Only a caller of Stop ends a run or leaves Stop. *)
LEMMA OnlyStopEnds ==
  ASSUME [Next]_vars
  PROVE  \/ /\ stopper' = stopper
            /\ run \in {"RUNNING", "STOPPING"} => run' \in {run, "STOPPING"}
         \/ \E p \in Stopper : Stop(p) \/ StopStep(p)
<1>1. CASE JobStep
  BY <1>1 DEF JobStep
<1>2. CASE \E s \in Slot : GpuStep(s)
  BY <1>2 DEF GpuStep, schedulerRest
<1>3. CASE UNCHANGED vars
  BY <1>3 DEF vars
<1>. QED
  BY <1>1, <1>2, <1>3, HostGoesOn, WorkersGoOn DEF Next

LEMMA StopEnds ==
  ASSUME EngineInv, NEW p \in Stopper, CompleteStop(p)
  PROVE  /\ Idle /\ jobs = {}
         /\ \A f \in Frame : completion[f].phase \notin {"open", "finishing", "drawing"}
         /\ \A s \in Slot : gpu[s] # "pending"
<1>1. stopper[p].at = "waitGpu" /\ \A s \in Slot : record[s].hasUpdate => gpu[s] # "pending"
  BY DEF CompleteStop
<1>2. /\ Idle /\ jobs = {}
      /\ \A s \in Slot : record[s].hasUpdate => completion[app[s]].phase = "finished"
  BY <1>1 DEF EngineInv, StoppersSound
<1>3. ASSUME NEW s \in Slot, Live(s), ~ record[s].hasUpdate
      PROVE  gpu[s] = "none" /\ completion[app[s]].phase = "none"
  <2>1. FrameSound(record[s], task[app[s]], completion[app[s]], state[s], gpu[s], draw[s], run)
    BY <1>3, FrameIs
  <2>. QED
    BY <1>3, <2>1 DEF FrameSound, Begun, NoCompletion
<1>4. ASSUME NEW f \in Frame
      PROVE  completion[f].phase \notin {"open", "finishing", "drawing"}
  <2>1. CASE Dead(f)
    BY <2>1, DeadTasks
  <2>2. CASE ~ Dead(f)
    <3>1. PICK s \in Slot : Live(s) /\ app[s] = f
      BY <2>2, LiveOrDead
    <3>. QED
      BY <1>2, <1>3, <3>1
  <2>. QED
    BY <2>1, <2>2
<1>5. ASSUME NEW s \in Slot
      PROVE  gpu[s] # "pending"
  <2>1. ~ Live(s) => gpu[s] = "none"
    BY DEF EngineInv, SlotsSound
  <2>. QED
    BY <1>1, <1>3, <2>1
<1>. QED
  BY <1>2, <1>4, <1>5

LEMMA RunsEndClean ==
  ASSUME EngineInv, [Next]_vars, run = "STOPPING", run' = "STOPPED"
  PROVE  /\ Idle /\ jobs = {}
         /\ \A f \in Frame : completion[f].phase \notin {"open", "finishing", "drawing"}
         /\ \A s \in Slot : gpu[s] # "pending"
<1>1. PICK p \in Stopper : Stop(p) \/ StopStep(p)
  BY OnlyStopEnds
<1>2. CompleteStop(p)
  <2>1. ~ Stop(p)
    BY DEF Stop
  <2>2. StopWork(p) => run' = run \/ run' = "STOPPING" \/ run \in {"CREATED", "STOPPED"}
    BY DEF StopWork, BeginStop, AwaitStop, JoinUserJobs, JoinUpdates, WaitIdle, StopUpdate, Waits
  <2>. QED
    BY <1>1, <2>1, <2>2 DEF StopStep
<1>. QED
  BY <1>2, StopEnds

LEMMA StopReturnsAfterRun ==
  ASSUME EngineInv, [Next]_vars, NEW p \in Stopper, stopper[p].at # "out", stopper'[p].at = "out"
  PROVE  ~ (run' \in {"RUNNING", "STOPPING"} /\ runGeneration' = stopper[p].observed)
<1>1. PICK q \in Stopper : Stop(q) \/ StopStep(q)
  BY OnlyStopEnds
<1>2. stopper \in [Stopper ->
         [at : {"out", "called", "await", "joinJobs", "request", "waitIdle", "waitGpu"},
          observed : 0 .. LastRun]]
  BY TypesAre DEF EngineInv, HostTyped
<1>3. ASSUME NEW to, GoTo(q, to)
      PROVE  to = "out" /\ q = p
  BY <1>2, <1>3 DEF GoTo
<1>4. ~ Stop(q)
  BY <1>2 DEF Stop
<1>5. CASE CompleteStop(q)
  BY <1>5 DEF CompleteStop
<1>6. CASE StopWork(q)
  <2>1. runGeneration' = runGeneration
    BY <1>6 DEF StopWork
  <2>2. CASE BeginStop(q)
    <3>1. CASE run \in {"CREATED", "STOPPED"} /\ run' = "STOPPED"
      BY <3>1
    <3>2. CASE /\ stopInProgress \/ runGeneration # stopper[q].observed
               /\ GoTo(q, IF stopInProgress THEN "await" ELSE "out")
      <4>1. (IF stopInProgress THEN "await" ELSE "out") = "out" /\ q = p
        BY <3>2, <1>3
      <4>2. ~ stopInProgress
        BY <4>1
      <4>. QED
        BY <2>1, <3>2, <4>1, <4>2
    <3>3. CASE GoTo(q, "joinJobs")
      BY <1>3, <3>3
    <3>. QED
      BY <2>2, <3>1, <3>2, <3>3 DEF BeginStop
  <2>3. CASE AwaitStop(q)
    <3>1. /\ stopper[q].at = "await" /\ StopCompleted(q) /\ GoTo(q, "out") /\ run' = run
      BY <2>3 DEF AwaitStop, Waits
    <3>2. q = p
      BY <1>3, <3>1
    <3>3. ASSUME run \in {"RUNNING", "STOPPING"}, runGeneration = stopper[q].observed
          PROVE  FALSE
      <4>1. stopInProgress /\ completedStop < runGeneration
        BY <3>1, <3>3 DEF EngineInv, StoppersSound
      <4>2. completedStop >= runGeneration /\ completedStop \in Nat /\ runGeneration \in Nat
        BY <3>1, <3>3, <4>1, TypesAre, Numbers DEF StopCompleted, EngineInv, RunTyped
      <4>. QED
        BY <4>1, <4>2
    <3>. QED
      BY <2>1, <3>1, <3>2, <3>3
  <2>4. CASE JoinUserJobs(q) \/ JoinUpdates(q) \/ WaitIdle(q)
    <3>1. PICK to \in {"request", "waitIdle", "waitGpu"} : GoTo(q, to)
      BY <2>4 DEF JoinUserJobs, JoinUpdates, WaitIdle, Waits
    <3>. QED
      BY <1>3, <3>1
  <2>5. CASE \E f \in Frame : StopUpdate(q, f)
    BY <2>5 DEF StopUpdate
  <2>. QED
    BY <1>6, <2>2, <2>3, <2>4, <2>5 DEF StopWork
<1>. QED
  BY <1>1, <1>4, <1>5, <1>6 DEF StopStep

-----------------------------------------------------------------------------
(* The inductive invariant holds in every state of the engine: begun, updated,
   drawn, reaped, aborted and stopped in any order, with failures anywhere. *)
THEOREM EngineIsSound == Spec => []EngineInv
<1>1. Init => EngineInv
  BY InitSound
<1>2. EngineInv /\ [Next]_vars => EngineInv'
  BY EngineInductive
<1>. QED
  BY <1>1, <1>2, PTL DEF Spec

(* The variables of the engine and of the frame scheduler in it have their
   types: indices, generations and run numbers stay within their bounds
   (engine.cpp, frame_scheduler.cpp, engine_state_manager.cpp). *)
THEOREM TypesHold == Spec => []TypeOK
<1>1. EngineInv => TypeOK
  BY DEF EngineInv
<1>. QED
  BY <1>1, EngineIsSound, PTL

(* The books the host steers by are those of the frames in the slots: a slot is
   free exactly when its record is empty, closed admission has a frame that
   will open it, and the draw checkpoint follows the newest frame
   (Engine::TryBeginFrameLocked, AbortFrame, ReapTerminalFrameRecordsLocked). *)
THEOREM BooksHold == Spec => []FramesAreAccounted
<1>1. EngineInv => FramesAreAccounted
  BY BooksFollow
<1>. QED
  BY <1>1, EngineIsSound, PTL

(* The world belongs to one simulation or one extraction at a time, however
   many frames are in flight (Engine::FinishDraw opens the admission only
   behind the extraction). *)
THEOREM WorldIsNeverShared == Spec => []WorldIsExclusive
<1>1. EngineInv => WorldIsExclusive
  BY WorldFollows
<1>. QED
  BY <1>1, EngineIsSound, PTL

(* The orchestrating thread never sleeps on a state in which its attempt would
   succeed without a notification on the way (Engine::WaitForProgress,
   NotifyProgressLocked). *)
THEOREM WaiterIsWoken == Spec => []AdmissionWakesWaiter
<1>1. EngineInv => AdmissionWakesWaiter
  BY WakesFollow
<1>. QED
  BY <1>1, EngineIsSound, PTL

(* Whatever fails, no call of the frame scheduler is refused and no task runs
   for a frame that left its slot (Engine::LatchRuntimeFailure, CompleteDraw,
   UpdateCompletion::Finish). *)
THEOREM FailuresStayContained == Spec => []FailuresAreContained
<1>1. EngineInv => FailuresAreContained
  BY FailuresFollow
<1>. QED
  BY <1>1, EngineIsSound, PTL

(* A stop that ends a run leaves no task, update, GPU work or user job of it,
   and no caller of Stop returns before the run it saw has ended
   (Engine::Stop, EngineStateManager::BeginStop, CompleteStop). *)
THEOREM StopsAreClean == Spec => StopIsClean
<1>. DEFINE Clean ==
       run = "STOPPING" /\ run' = "STOPPED" =>
         /\ Idle
         /\ \A f \in Frame : completion[f].phase \notin {"open", "finishing", "drawing"}
         /\ \A s \in Slot : gpu[s] # "pending"
         /\ jobs = {}
     Over ==
       \A p \in Stopper : stopper[p].at # "out" /\ stopper'[p].at = "out" =>
         ~ /\ run' \in {"RUNNING", "STOPPING"}
           /\ runGeneration' = stopper[p].observed
<1>1. EngineInv /\ [Next]_vars => [Clean]_vars
  BY RunsEndClean
<1>2. EngineInv /\ [Next]_vars => [Over]_vars
  BY StopReturnsAfterRun
<1>3. Spec => [][Clean]_vars /\ [][Over]_vars
  BY <1>1, <1>2, EngineIsSound, PTL DEF Spec
<1>. QED
  BY <1>3 DEF StopIsClean, StopAwaitsEverything, StopEndsObservedRun

=============================================================================
