------------------------------ MODULE UserJobs ------------------------------
(***************************************************************************)
(* User jobs: functions and coroutines a game hands to Engine::Spawn and    *)
(* Engine::Run (src/lib/thread/job_control.h, job.h, user_task.h), and the  *)
(* scope that cancels, resumes and retires them                             *)
(* (src/engine/runtime/user_job_scope.cpp).                                 *)
(*                                                                         *)
(* Every atomic exchange on the phase of a job is one action.  The version  *)
(* the dispatcher waits on is "jobNews": cleared when the dispatcher reads   *)
(* it, set by Wake.  What the user's body does is its outcome: a value, a   *)
(* failure, or an await of a handle that was moved into it.                 *)
(***************************************************************************)
EXTENDS Naturals, Sequences, FiniteSets, SequencesExt

CONSTANTS
  Job,
  JobWorker,    \* threads of the executor
  Endless,      \* jobs whose function runs until its stop token says so
  Awaits,       \* <<j, k>>: the game moves the handle of k into the body of j
  NoJob

Player     == "player"       \* the thread that owns the handles
Dispatcher == "dispatcher"

ASSUME UserJobsAssumption ==
  /\ NoJob \notin Job \cup JobWorker \cup {Player, Dispatcher}
  /\ {Player, Dispatcher, "gone"} \cap (Job \cup JobWorker) = {}
  /\ Endless \subseteq Job
  /\ Awaits \subseteq Job \X Job

JobThread  == JobWorker \cup {Player, Dispatcher}
JobPhase   == {"NONE", "QUEUED", "RUNNING", "WAITING", "RESUME_QUEUED",
               "CANCEL_QUEUED", "STOP_RUNNING", "FINALIZING", "READY"}

VARIABLES
  phase,        \* Phase; "NONE": not submitted, or rolled back
  holder,       \* who owns the Job handle: the player, a body, "gone"
  hasConsumer, observed, reported, stopDelivered,
  bodyHeld,     \* Body is not yet released
  outcome,      \* Result
  reports,      \* calls of ReportFailure that print
  await,        \* the handle the body waits for, m_waiting
  awaitReady,   \* Ready of the continuation of that suspension
  subscriber,   \* m_continuation: the job that awaits this one
  runs,         \* jobs with a Run in the executor
  at,           \* what a thread does: [step, job]
  dropping,     \* the thread in the middle of Abandon of a handle
  jobList,      \* m_jobs
  look,         \* where the dispatcher's scan of it is, under m_mutex
  jobNews,      \* Version moved since the dispatcher read it
  jobsStopping, \* Signal->Stopping
  scopeExit     \* m_exit

jobVars == <<phase, bodyHeld, outcome, await, awaitReady, subscriber, stopDelivered>>
handleVars == <<holder, hasConsumer, observed, reported, reports, dropping>>
scopeVars == <<jobList, look, jobsStopping, scopeExit>>
userJobVars == <<jobVars, handleVars, runs, at, scopeVars, jobNews>>

-----------------------------------------------------------------------------
JobIdle == [step |-> "idle", job |-> NoJob]
At(s, j) == [step |-> s, job |-> j]
Stands(th, s) == at[th].step = s
Go(th, s, j) == at' = [at EXCEPT ![th] = At(s, j)]
ScanLocked == Stands(Dispatcher, "scan")

JobsInit ==
  /\ phase = [j \in Job |-> "NONE"]
  /\ holder = [j \in Job |-> "gone"]
  /\ hasConsumer = [j \in Job |-> TRUE]
  /\ observed = [j \in Job |-> FALSE]
  /\ reported = [j \in Job |-> FALSE]
  /\ reports = [j \in Job |-> 0]
  /\ stopDelivered = [j \in Job |-> FALSE]
  /\ bodyHeld = [j \in Job |-> TRUE]
  /\ outcome = [j \in Job |-> "none"]
  /\ await = [j \in Job |-> NoJob]
  /\ awaitReady = [j \in Job |-> FALSE]
  /\ subscriber = [j \in Job |-> NoJob]
  /\ runs = {}
  /\ at = [th \in JobThread |->
            IF th = Dispatcher THEN At("read", NoJob) ELSE JobIdle]
  /\ dropping = [j \in Job |-> NoJob]
  /\ jobList = <<>>
  /\ look = 1
  /\ jobNews = FALSE
  /\ jobsStopping = FALSE /\ scopeExit = FALSE

-----------------------------------------------------------------------------
(* Handles. *)

(* A thread that destroys a frame or a handle first ends each Abandon. *)
Free(th) == \A k \in Job : dropping[k] # th

(* The handles a body was given die with it: HasConsumer.store(false). *)
Owned(j) == {k \in Job : holder[k] = j}
AbandonAll(th, S) ==
  /\ holder' = [k \in Job |-> IF k \in S THEN "gone" ELSE holder[k]]
  /\ hasConsumer' = [k \in Job |-> hasConsumer[k] /\ k \notin S]
  /\ dropping' = [k \in Job |-> IF k \in S THEN th ELSE dropping[k]]

(* ReleaseBody of a job by a thread. *)
ReleaseBody(th, j) ==
  /\ bodyHeld' = [bodyHeld EXCEPT ![j] = FALSE]
  /\ AbandonAll(th, Owned(j))

\* A bug: Reported is not exchanged.
MutantUnobserved(k) ==
  phase[k] = "READY" /\ ~ hasConsumer[k] /\ ~ observed[k]

(* ReportUnobserved: a failure nobody can take any more is printed, once. *)
Unobserved(k) ==
  phase[k] = "READY" /\ ~ hasConsumer[k] /\ ~ observed[k] /\ ~ reported[k]

ReportUnobserved(k) ==
  /\ reported' = [reported EXCEPT ![k] = @ \/ Unobserved(k)]
  /\ reports' = [reports EXCEPT
       ![k] = IF Unobserved(k) /\ outcome[k] = "failure" THEN @ + 1 ELSE @]

(* The second half of Abandon. *)
EndAbandon(k) ==
  /\ dropping[k] # NoJob
  /\ dropping' = [dropping EXCEPT ![k] = NoJob]
  /\ ReportUnobserved(k)
  /\ UNCHANGED <<jobVars, holder, hasConsumer, observed, runs, at, scopeVars,
                 jobNews>>

(* ~Job: destroying a handle does not cancel its work. *)
DropHandle(k) ==
  /\ Stands(Player, "idle") /\ Free(Player)
  /\ holder[k] = Player
  /\ AbandonAll(Player, {k})
  /\ UNCHANGED <<jobVars, observed, reported, reports, runs, at, scopeVars,
                 jobNews>>

(* TryTake of a ready job. *)
TryTake(k) ==
  /\ Stands(Player, "idle") /\ Free(Player)
  /\ holder[k] = Player /\ phase[k] = "READY"
  /\ observed' = [observed EXCEPT ![k] = TRUE]
  /\ holder' = [holder EXCEPT ![k] = "gone"]
  /\ UNCHANGED <<jobVars, hasConsumer, reported, reports, dropping, runs, at,
                 scopeVars, jobNews>>

-----------------------------------------------------------------------------
(* Submission. *)

(* SubmitUserJob has the engine's mutex and adds the job to the scope.  A    *)
(* coroutine owns the handles moved into its parameters. *)
SubmitJob(j, S) ==
  /\ Stands(Player, "idle") /\ Free(Player)
  /\ phase[j] = "NONE"
  /\ ~ jobsStopping /\ ~ ScanLocked
  /\ phase' = [phase EXCEPT ![j] = "QUEUED"]
  /\ holder' = [k \in Job |-> IF k \in S THEN j ELSE holder[k]]
  /\ jobList' = Append(jobList, j)
  /\ Go(Player, "submit", j)
  /\ UNCHANGED <<bodyHeld, outcome, await, awaitReady, subscriber,
                 stopDelivered, hasConsumer, observed, reported, reports,
                 dropping, runs, look, jobNews, jobsStopping,
                 scopeExit>>

(* TaskSystem::Submit took the Run, and the caller gets the handle. *)
Submitted(j) ==
  /\ at[Player] = At("submit", j)
  /\ runs' = runs \cup {j}
  /\ holder' = [holder EXCEPT ![j] = Player]
  /\ at' = [at EXCEPT ![Player] = JobIdle]
  /\ UNCHANGED <<jobVars, hasConsumer, observed, reported, reports, dropping,
                 jobList, look, jobNews, jobsStopping, scopeExit>>

(* It threw: Remove takes the job, which stands there once, and the state    *)
(* dies with its frame: the job may be another one's name. *)
SubmitThrows(j) ==
  /\ at[Player] = At("submit", j)
  /\ ~ ScanLocked
  /\ \E k \in DOMAIN jobList :
       jobList[k] = j /\ jobList' = RemoveAt(jobList, k)
  /\ phase' = [phase EXCEPT ![j] = "NONE"]
  /\ AbandonAll(Player, Owned(j))
  /\ at' = [at EXCEPT ![Player] = JobIdle]
  /\ UNCHANGED <<bodyHeld, outcome, await, awaitReady, subscriber,
                 stopDelivered, observed, reported, reports, runs, look, jobNews,
                 jobsStopping, scopeExit>>

-----------------------------------------------------------------------------
(* Cancellation. *)

CancellableJob == {"QUEUED", "RUNNING", "WAITING", "RESUME_QUEUED"}
\* A bug: a running body is finalized under the worker that runs it.
MutantCancelTarget(p) == "CANCEL_QUEUED"

CancelTarget(p) == IF p = "RUNNING" THEN "STOP_RUNNING" ELSE "CANCEL_QUEUED"

Cancelled(S) ==
  [j \in Job |-> IF j \in S /\ phase[j] \in CancellableJob
                 THEN CancelTarget(phase[j]) ELSE phase[j]]

(* Job::RequestCancel by the player. *)
RequestCancel(j) ==
  /\ Stands(Player, "idle") /\ Free(Player)
  /\ holder[j] = Player
  /\ phase[j] \in CancellableJob
  /\ phase' = Cancelled({j})
  /\ jobNews' = TRUE
  /\ UNCHANGED <<bodyHeld, outcome, await, awaitReady, subscriber,
                 stopDelivered, handleVars, runs, at, scopeVars>>

(* Engine::Stop closes the admission under the engine's mutex ... *)
CloseAdmission ==
  /\ Stands(Player, "idle") /\ Free(Player)
  /\ ~ jobsStopping
  /\ jobsStopping' = TRUE
  /\ jobNews' = TRUE
  /\ Go(Player, "cancelAll", NoJob)
  /\ UNCHANGED <<jobVars, handleVars, runs, jobList, look, scopeExit>>

(* ... RequestStop cancels every job under m_mutex ... *)
RequestStop ==
  /\ Stands(Player, "cancelAll") /\ ~ ScanLocked
  /\ phase' = Cancelled(Range(jobList))
  /\ jobNews' = TRUE
  /\ Go(Player, "exit", NoJob)
  /\ UNCHANGED <<bodyHeld, outcome, await, awaitReady, subscriber,
                 stopDelivered, handleVars, runs, scopeVars>>

(* ... and Join waits for the dispatcher. *)
Join ==
  /\ Stands(Player, "exit")
  /\ scopeExit' = TRUE
  /\ jobNews' = TRUE
  /\ Go(Player, "join", NoJob)
  /\ UNCHANGED <<jobVars, handleVars, runs, jobList, look,
                 jobsStopping>>

JobsJoined ==
  /\ Stands(Player, "join") /\ Stands(Dispatcher, "exited")
  /\ at' = [at EXCEPT ![Player] = JobIdle]
  /\ UNCHANGED <<jobVars, handleVars, runs, scopeVars, jobNews>>

-----------------------------------------------------------------------------
(* Run on a worker. *)

CancelledOutcome(o) == IF o = "failure" THEN "failure" ELSE "cancelled"

(* The claim: a Run that finds the job cancelled returns. *)
ClaimJob(w, j) ==
  /\ Stands(w, "idle")
  /\ j \in runs
  /\ runs' = runs \ {j}
  /\ IF phase[j] \in {"QUEUED", "RESUME_QUEUED"}
       THEN phase' = [phase EXCEPT ![j] = "RUNNING"] /\ Go(w, "check", j)
       ELSE UNCHANGED <<phase, at>>
  /\ UNCHANGED <<bodyHeld, outcome, await, awaitReady, subscriber,
                 stopDelivered, handleVars, scopeVars, jobNews>>

(* A worker that raced with the stop does not enter the body. *)
CheckStopping(w, j) ==
  /\ at[w] = At("check", j)
  /\ IF jobsStopping
       THEN /\ phase' = [phase EXCEPT ![j] = "FINALIZING"]
            /\ ReleaseBody(w, j)
            /\ outcome' = [outcome EXCEPT ![j] = CancelledOutcome(@)]
            /\ Go(w, "publish", j)
       ELSE /\ Go(w, "body", j)
            /\ UNCHANGED <<phase, bodyHeld, outcome, holder, hasConsumer,
                           dropping>>
  /\ UNCHANGED <<await, awaitReady, subscriber, stopDelivered, observed,
                 reported, reports, runs, scopeVars, jobNews>>

(* A resumed body takes the result it awaited: await_resume. *)
TakeAwaited(j) ==
  LET k == await[j]
  IN IF k = NoJob THEN UNCHANGED <<observed, holder>>
     ELSE /\ observed' = [observed EXCEPT ![k] = TRUE]
          /\ holder' = [holder EXCEPT ![k] = "gone"]

Resumed(w, j) ==
  /\ at[w] = At("body", j) /\ await[j] # NoJob
  /\ TakeAwaited(j)
  /\ await' = [await EXCEPT ![j] = NoJob]
  /\ UNCHANGED <<phase, bodyHeld, outcome, awaitReady, subscriber,
                 stopDelivered, hasConsumer, reported, reports, dropping, runs,
                 at, scopeVars, jobNews>>

(* The body ends with a value or a failure; its frame goes at once. *)
BodyEnds(w, j, o) ==
  /\ at[w] = At("body", j) /\ await[j] = NoJob
  /\ j \in Endless => stopDelivered[j]
  /\ outcome' = [outcome EXCEPT ![j] = o]
  /\ ReleaseBody(w, j)
  /\ Go(w, "finalize", j)
  /\ UNCHANGED <<phase, await, awaitReady, subscriber, stopDelivered,
                 observed, reported, reports, runs, scopeVars, jobNews>>

(* co_await of a handle that is not ready: SetWaiting with a new             *)
(* continuation; one that is ready is taken on the spot. *)
Await(w, j, k) ==
  /\ at[w] = At("body", j) /\ await[j] = NoJob
  /\ holder[k] = j
  /\ await' = [await EXCEPT ![j] = k]
  /\ awaitReady' = [awaitReady EXCEPT ![j] = FALSE]
  /\ IF phase[k] = "READY" THEN UNCHANGED at ELSE Go(w, "subscribe", j)
  /\ UNCHANGED <<phase, bodyHeld, outcome, subscriber, stopDelivered,
                 handleVars, runs, scopeVars, jobNews>>

(* Subscribe, under the lock of the awaited job: too late if it is ready. *)
Subscribe(w, j) ==
  /\ at[w] = At("subscribe", j)
  /\ IF phase[await[j]] = "READY"
       THEN Go(w, "body", j) /\ UNCHANGED subscriber
       ELSE /\ subscriber' = [subscriber EXCEPT ![await[j]] = j]
            /\ Go(w, "suspend", j)
  /\ UNCHANGED <<phase, bodyHeld, outcome, await, awaitReady, stopDelivered,
                 handleVars, runs, scopeVars, jobNews>>

(* The step of the coroutine is over: it waits, or cancellation won and the  *)
(* frame goes. *)
Suspend(w, j) ==
  /\ at[w] = At("suspend", j)
  /\ IF phase[j] = "RUNNING"
       THEN /\ phase' = [phase EXCEPT ![j] = "WAITING"]
            /\ Go(w, "wake", NoJob)
            /\ UNCHANGED <<bodyHeld, holder, hasConsumer, dropping>>
       ELSE /\ ReleaseBody(w, j)
            /\ Go(w, "finalize", j)
            /\ UNCHANGED phase
  /\ UNCHANGED <<outcome, await, awaitReady, subscriber, stopDelivered,
                 observed, reported, reports, runs, scopeVars, jobNews>>

-----------------------------------------------------------------------------
(* Publish, by a worker or the dispatcher. *)

(* Under the continuation's lock: READY, and no suspension any more. *)
Publication(th, j) ==
  /\ phase' = [phase EXCEPT ![j] = "READY"]
  /\ await' = [await EXCEPT ![j] = NoJob]
  /\ awaitReady' = [awaitReady EXCEPT ![j] = FALSE]
  /\ Go(th, IF subscriber[j] = NoJob THEN "report" ELSE "notify", j)
  /\ UNCHANGED <<bodyHeld, subscriber, stopDelivered, handleVars, runs,
                 scopeVars, jobNews>>

Publish(th, j) ==
  /\ at[th] = At("publish", j) /\ Free(th)
  /\ Publication(th, j)
  /\ UNCHANGED outcome

(* A worker exchanges the phase for FINALIZING, on which nobody acts, and    *)
(* publishes. *)
FinalizeJob(w, j) ==
  /\ at[w] = At("finalize", j) /\ Free(w)
  /\ outcome' = [outcome EXCEPT
       ![j] = IF phase[j] = "STOP_RUNNING" THEN CancelledOutcome(@) ELSE @]
  /\ Publication(w, j)

(* Notify: the continuation it took, whose owner may be gone by now. *)
Notify(th, j) ==
  /\ at[th] = At("notify", j)
  /\ awaitReady' = [awaitReady EXCEPT
       ![subscriber[j]] = @ \/ await[subscriber[j]] = j]
  /\ subscriber' = [subscriber EXCEPT ![j] = NoJob]
  /\ jobNews' = TRUE
  /\ Go(th, "report", j)
  /\ UNCHANGED <<phase, bodyHeld, outcome, await, stopDelivered, handleVars,
                 runs, scopeVars>>

(* ... and the wake of the dispatcher ends the call. *)
Rest(th) == IF th = Dispatcher THEN At("read", NoJob) ELSE JobIdle
Report(th, j) ==
  /\ at[th] = At("report", j)
  /\ ReportUnobserved(j)
  /\ jobNews' = TRUE
  /\ at' = [at EXCEPT ![th] = Rest(th)]
  /\ UNCHANGED <<jobVars, holder, hasConsumer, observed, dropping, runs,
                 scopeVars>>

(* The wake of a worker that has suspended its job. *)
Wake(w) ==
  /\ Stands(w, "wake")
  /\ jobNews' = TRUE
  /\ at' = [at EXCEPT ![w] = JobIdle]
  /\ UNCHANGED <<jobVars, handleVars, runs, scopeVars>>

-----------------------------------------------------------------------------
(* Dispatch. *)

(* The version is read, then m_mutex taken.  A dispatcher that found nothing *)
(* waits for a version other than the one it read. *)
ReadVersion ==
  /\ Free(Dispatcher)
  /\ \/ Stands(Dispatcher, "read")
     \/ Stands(Dispatcher, "wait") /\ jobNews
  /\ jobNews' = FALSE
  /\ Go(Dispatcher, "scan", NoJob)
  /\ UNCHANGED <<jobVars, handleVars, runs, scopeVars>>

(* One turn of the loop over m_jobs. *)
Look == jobList[look]
Looking == ScanLocked /\ look \in DOMAIN jobList
Unlock(s, j) == look' = 1 /\ Go(Dispatcher, s, j)

(* What the turn finds: a stop cancels the job first. *)
Found == Cancelled(IF jobsStopping THEN {Look} ELSE {})[Look]
MustCancel(j) ==
  \/ Found = "CANCEL_QUEUED"
  \/ Found = "STOP_RUNNING" /\ ~ stopDelivered[j]
MayResume(j) == Found = "WAITING" /\ await[j] # NoJob /\ awaitReady[j]

(* A ready job leaves the scope. *)
RetireJob ==
  /\ Looking
  /\ Found = "READY"
  /\ jobList' = RemoveAt(jobList, look)
  /\ Unlock("read", NoJob)
  /\ UNCHANGED <<jobVars, handleVars, runs, jobsStopping, scopeExit, jobNews>>

Select(newPhase) ==
  /\ phase' = [phase EXCEPT ![Look] = newPhase]
  /\ Unlock("selected", Look)
  /\ UNCHANGED <<bodyHeld, outcome, await, awaitReady, subscriber,
                 stopDelivered, handleVars, runs, jobList, jobsStopping,
                 scopeExit>>

SelectCancel ==
  /\ Looking
  /\ MustCancel(Look)
  /\ Select(Found)
  /\ jobNews' = (jobNews \/ phase[Look] # Found)

(* ClaimResume, under the lock of the continuation. *)
SelectResume ==
  /\ Looking
  /\ MayResume(Look)
  /\ Select("RESUME_QUEUED")
  /\ UNCHANGED jobNews

LookNext ==
  /\ Looking
  /\ Found # "READY" /\ ~ MustCancel(Look) /\ ~ MayResume(Look)
  /\ look' = look + 1
  /\ UNCHANGED <<jobVars, handleVars, runs, at, jobList, jobsStopping,
                 scopeExit, jobNews>>

(* Nothing to do: the dispatcher leaves when the scope is joined and empty. *)
ScanEnds ==
  /\ ScanLocked /\ look > Len(jobList)
  /\ Unlock(IF jobList = <<>> /\ scopeExit THEN "exited" ELSE "wait", NoJob)
  /\ UNCHANGED <<jobVars, handleVars, runs, jobList, jobsStopping, scopeExit,
                 jobNews>>

(* Outside the lock, with the phase loaded again. *)
SubmitResume(j) ==
  /\ at[Dispatcher] = At("selected", j)
  /\ phase[j] = "RESUME_QUEUED"
  /\ runs' = runs \cup {j}
  /\ Go(Dispatcher, "read", NoJob)
  /\ UNCHANGED <<jobVars, handleVars, scopeVars, jobNews>>

(* The executor throws: FailResume, unless a cancellation came first. *)
ResumeThrows(j) ==
  /\ at[Dispatcher] = At("selected", j)
  /\ phase[j] = "RESUME_QUEUED"
  /\ Go(Dispatcher, "failResume", j)
  /\ UNCHANGED <<jobVars, handleVars, runs, scopeVars, jobNews>>

FailResume(j) ==
  /\ at[Dispatcher] = At("failResume", j)
  /\ IF phase[j] = "RESUME_QUEUED"
       THEN /\ phase' = [phase EXCEPT ![j] = "FINALIZING"]
            /\ ReleaseBody(Dispatcher, j)
            /\ outcome' = [outcome EXCEPT ![j] = "failure"]
            /\ Go(Dispatcher, "publish", j)
       ELSE /\ Go(Dispatcher, "read", NoJob)
            /\ UNCHANGED <<phase, bodyHeld, outcome, holder, hasConsumer,
                           dropping>>
  /\ UNCHANGED <<await, awaitReady, subscriber, stopDelivered, observed,
                 reported, reports, runs, scopeVars, jobNews>>

(* DispatchCancel ends a job no worker has, and stops one that runs. *)
DispatchCancel(j) ==
  /\ at[Dispatcher] = At("selected", j)
  /\ phase[j] = "CANCEL_QUEUED"
  /\ phase' = [phase EXCEPT ![j] = "FINALIZING"]
  /\ ReleaseBody(Dispatcher, j)
  /\ outcome' = [outcome EXCEPT ![j] = CancelledOutcome(@)]
  /\ Go(Dispatcher, "publish", j)
  /\ UNCHANGED <<await, awaitReady, subscriber, stopDelivered, observed,
                 reported, reports, runs, scopeVars, jobNews>>

MutantDispatchStop(j) ==
  /\ at[Dispatcher] = At("selected", j)
  /\ phase[j] \notin {"RESUME_QUEUED", "CANCEL_QUEUED"}
  /\ Go(Dispatcher, "read", NoJob)
  /\ UNCHANGED <<jobVars, handleVars, runs, scopeVars, jobNews>>

DispatchStop(j) ==
  /\ at[Dispatcher] = At("selected", j)
  /\ phase[j] \notin {"RESUME_QUEUED", "CANCEL_QUEUED"}
  /\ stopDelivered' = [stopDelivered EXCEPT
                         ![j] = @ \/ phase[j] = "STOP_RUNNING"]
  /\ Go(Dispatcher, "read", NoJob)
  /\ UNCHANGED <<phase, bodyHeld, outcome, await, awaitReady, subscriber,
                 handleVars, runs, scopeVars, jobNews>>

-----------------------------------------------------------------------------
PlayerStep ==
  \/ \E k \in Job : DropHandle(k) \/ TryTake(k) \/ RequestCancel(k)
  \/ \E j \in Job : SubmitJob(j, {k \in Job : holder[k] = Player /\ <<j, k>> \in Awaits})
  \/ CloseAdmission

PlayerEnds ==
  \/ \E j \in Job : Submitted(j) \/ SubmitThrows(j)
  \/ RequestStop \/ Join \/ JobsJoined

WorkerStep(w) == \E j \in Job :
  \/ ClaimJob(w, j) \/ CheckStopping(w, j) \/ Resumed(w, j)
  \/ \E o \in {"value", "failure"} : BodyEnds(w, j, o)
  \/ \E k \in Job : Await(w, j, k)
  \/ Subscribe(w, j) \/ Suspend(w, j) \/ FinalizeJob(w, j)
  \/ Wake(w)

PublishStep(th) == \E j \in Job :
  Publish(th, j) \/ Notify(th, j) \/ Report(th, j)

DispatchStep ==
  \/ ReadVersion \/ RetireJob \/ SelectCancel \/ SelectResume
  \/ LookNext \/ ScanEnds
  \/ \E j \in Job : \/ SubmitResume(j) \/ ResumeThrows(j) \/ FailResume(j)
                    \/ DispatchCancel(j) \/ DispatchStop(j)

AbandonStep == \E k \in Job : EndAbandon(k)

JobThreadsStep ==
  \/ \E w \in JobWorker : WorkerStep(w)
  \/ \E th \in JobWorker \cup {Dispatcher} : PublishStep(th)
  \/ DispatchStep
  \/ AbandonStep

JobsNext == PlayerStep \/ PlayerEnds \/ JobThreadsStep

JobsSpec == JobsInit /\ [][JobsNext]_userJobVars

(* The player ends the calls it is in.  While a worker or the dispatcher can *)
(* move, one of them does: none is preferred.  Bodies return, those that     *)
(* wait for the stop once they have it. *)
JobsFairness == WF_userJobVars(PlayerEnds) /\ WF_userJobVars(JobThreadsStep)

JobsFairSpec == JobsSpec /\ JobsFairness

-----------------------------------------------------------------------------
JobsTypeOK ==
  /\ phase \in [Job -> JobPhase]
  /\ holder \in [Job -> Job \cup {Player, "gone"}]
  /\ hasConsumer \in [Job -> BOOLEAN] /\ observed \in [Job -> BOOLEAN]
  /\ reported \in [Job -> BOOLEAN] /\ stopDelivered \in [Job -> BOOLEAN]
  /\ bodyHeld \in [Job -> BOOLEAN]
  /\ outcome \in [Job -> {"none", "value", "failure", "cancelled"}]
  /\ reports \in [Job -> Nat]
  /\ await \in [Job -> Job \cup {NoJob}]
  /\ awaitReady \in [Job -> BOOLEAN]
  /\ subscriber \in [Job -> Job \cup {NoJob}]
  /\ runs \subseteq Job
  /\ dropping \in [Job -> JobThread \cup {NoJob}]
  /\ jobList \in Seq(Job) /\ look \in Nat
  /\ jobNews \in BOOLEAN
  /\ jobsStopping \in BOOLEAN /\ scopeExit \in BOOLEAN

Inside(th, j) == at[th].job = j /\ at[th].step \in {"body", "subscribe", "suspend"}
Owns(th, j) == at[th].job = j /\ at[th].step \in {"check", "body", "subscribe",
                                                  "suspend", "finalize", "publish"}

(* A body has one thread at a time, which finds it alive, and its result is  *)
(* published once, by the thread that ended it: the phase is what keeps two  *)
(* workers and the dispatcher apart. *)
OneOwner == \A j \in Job :
  /\ \A t1, t2 \in JobThread : Owns(t1, j) /\ Owns(t2, j) => t1 = t2
  /\ \A th \in JobThread : Inside(th, j) =>
       bodyHeld[j] /\ phase[j] \in {"RUNNING", "STOP_RUNNING"}
  /\ phase[j] = "READY" => ~ bodyHeld[j] /\ outcome[j] # "none"

(* A failure reaches somebody: it is taken, or printed exactly once when     *)
(* nobody can take it any more. *)
Settled(j) ==
  /\ phase[j] = "READY" /\ ~ hasConsumer[j] /\ dropping[j] = NoJob
  /\ \A th \in JobThread : at[th].job = j => at[th].step \notin {"notify", "report"}

FailuresSurface == \A j \in Job :
  Settled(j) => reports[j] = IF outcome[j] = "failure" THEN 1 ELSE 0

(* After Join no job of the run is unfinished, no body is alive and no      *)
(* worker will enter one, so the executor may be drained. *)
NothingOutlivesJoin ==
  Stands(Dispatcher, "exited") =>
    \A j \in Job : phase[j] \in {"NONE", "READY"} /\ (phase[j] = "READY" => ~ bodyHeld[j])

(* Whoever cancels, resumes or abandons a job meanwhile, its body has one     *)
(* owner, its failure is not lost and Join means that it is over.            *)
JobsAreSafe == JobsTypeOK /\ OneOwner /\ FailuresSurface /\ NothingOutlivesJoin

(* A cancelled job ends and leaves the scope, all do after the stop, and in  *)
(* any case if none waits for its stop; a coroutine whose await is over      *)
(* is resumed; Join returns.  A cancellation is never forgotten, so all      *)
(* are served if again and again none is due. *)
JobEnds(j) == phase[j] \in {"NONE", "READY"} /\ j \notin Range(jobList)
Doomed == {"STOP_RUNNING", "CANCEL_QUEUED", "FINALIZING", "READY"}
Due(j) ==
  /\ ~ JobEnds(j)
  /\ \/ Endless = {} \/ jobsStopping
     \/ phase[j] \in Doomed
     \/ phase[j] = "WAITING" /\ awaitReady[j]

JobsEnd ==
  /\ [][\A j \in Job : phase[j] \in Doomed => phase'[j] \in Doomed]_userJobVars
  /\ []<>( /\ \A j \in Job : ~ Due(j)
           /\ Stands(Player, "join") => Stands(Dispatcher, "exited") )
=============================================================================
