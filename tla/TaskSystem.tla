----------------------------- MODULE TaskSystem -----------------------------
(***************************************************************************)
(* The executor of lib/thread: a directed acyclic graph of tasks with       *)
(* cancellation, task groups and an orderly stop                            *)
(* (src/lib/thread/task/task_system.cpp).                                   *)
(*                                                                         *)
(* A node is a task or the completion gate of a group.  Everything done in  *)
(* one critical section of TaskSystem::m_mutex is one action; claiming a    *)
(* ready task, the first block of CompleteState and the destruction of      *)
(* captures hold only the lock of one state, or none, and are actions of    *)
(* their own.  Cancel, which looks at the task and then looks again, is two *)
(* actions that hold m_mutex in between.                                    *)
(*                                                                         *)
(* Abstracted: the ready queues are one set (ReadyScheduler.tla has them),  *)
(* a finalization batch is a set (its order follows a hash map's), task     *)
(* results carry no error text.                                             *)
(*                                                                         *)
(* The definitions named Mutant... are no part of the specification: each   *)
(* is a plausible bug in the definition after it, which some property of    *)
(* this module must notice.                                                 *)
(***************************************************************************)
EXTENDS Naturals, FiniteSets

CONSTANTS
  Task,     \* tasks that may be submitted
  Group,    \* task groups; a group also names its completion gate
  Worker,   \* the threads that run WorkerLoop
  Host,     \* the other threads that call the executor
  None      \* no task, no group

ASSUME TaskSystemAssumption ==
  /\ IsFiniteSet(Task)
  /\ IsFiniteSet(Group)
  /\ IsFiniteSet(Worker)
  /\ IsFiniteSet(Host)
  /\ Task \cap Group = {}
  /\ Worker \cap Host = {}
  /\ None \notin Task \cup Group

Node     == Task \cup Group
Thread   == Worker \cup Host
Terminal == {"COMPLETED", "FAILED", "CANCELLED"}
Status   == {"CREATED", "WAITING", "READY", "RUNNING"} \cup Terminal

VARIABLES
  status,        \* Task.Status
  finalizing,    \* Task.Finalizing
  pending,       \* Task.PendingStatus
  captures,      \* where the callable is: "none", "stored", "taken", "destroyed"
  edges,         \* linked dependency edges <<prerequisite, dependent>>
  remaining,     \* Task.RemainingDependencies
  member,        \* Task.Group, moved out when the member retires
  gOutstanding,  \* TaskGroupHandle::State::Outstanding
  gSealed,       \* ... Sealed
  gQueued,       \* ... CompletionQueued
  gOutcome,      \* ... Outcome
  gFirstFailure, \* ... FirstFailure
  active,        \* TaskRegistry::ActiveTasks
  retired,       \* TaskLifetime::RetiredTasks
  outstanding,   \* TaskLifetime::OutstandingTasks
  stopping,      \* m_stopping
  ready,         \* published entries of the ready queues
  batch,         \* FinalizationBatch of each thread
  slot,          \* the node a thread is finalizing, its captures destroyed
  pc,            \* where each thread is
  cur,           \* the task a worker runs, the target of a host's Cancel
  undo,          \* the task whose submission a thread is rolling back
  declared,      \* history: the dependencies a task was submitted with
  admitted       \* history: the group a task was submitted to

graph    == <<edges, remaining>>
groups   == <<member, gOutstanding, gSealed, gQueued, gOutcome, gFirstFailure>>
registry == <<active, retired, outstanding>>
threads  == <<batch, slot, pc, cur, undo>>
history  == <<declared, admitted>>
vars == <<status, finalizing, pending, captures, graph, groups, registry,
          stopping, ready, threads, history>>

-----------------------------------------------------------------------------
IsTerminal(n) == status[n] \in Terminal
Accepted(n)   == status[n] # "CREATED"
Fresh(t)      == status[t] = "CREATED" /\ captures[t] = "none"

(* The condition under which CancelTaskLocked does something. *)
Cancellable(n) ==
  /\ Accepted(n)
  /\ ~ finalizing[n]
  /\ ~ IsTerminal(n)
  /\ status[n] # "RUNNING"

MutantUnsuccessful(d) == IsTerminal(d) /\ status[d] # "COMPLETED"

(* A dependency that dooms a new dependent: it ended, or is ending, badly. *)
Unsuccessful(d) ==
  IF IsTerminal(d) THEN status[d] # "COMPLETED"
                   ELSE finalizing[d] /\ pending[d] # "COMPLETED"

Dependents(n) == {t \in Task : <<n, t>> \in edges}
Members(g)    == {t \in active \cap Task : member[t] = g}

(* What cancelling "seeds" cancels: the least set that holds the seeds that
   can be cancelled and, with a task, those of its dependents. *)
Cascade(seeds) ==
  {t \in Task : \A U \in SUBSET Task :
      (/\ \A s \in seeds : Cancellable(s) => s \in U
       /\ \A e \in edges : e[1] \in U /\ Cancellable(e[2]) => e[2] \in U)
      => t \in U}

(* A cancelled task loses every edge it is an end of. *)
Unlink(doomed) == {e \in edges : e[1] \notin doomed /\ e[2] \notin doomed}

(* The groups among "touched" whose completion is queued now. *)
Completing(touched) ==
  {g \in touched : gSealed'[g] /\ gOutstanding'[g] = 0 /\ ~ gQueued[g]}

(* Tasks "doomed" and the gates of groups "done" join the batch of th. *)
Finalize(th, doomed, done) ==
  /\ finalizing' = [n \in Node |-> finalizing[n] \/ n \in doomed \cup done]
  /\ pending' = [n \in Node |-> IF n \in doomed THEN "CANCELLED"
                                ELSE IF n \in done THEN gOutcome'[n]
                                ELSE pending[n]]
  /\ gQueued' = [g \in Group |-> gQueued[g] \/ g \in done]
  /\ batch' = [batch EXCEPT ![th] = @ \cup doomed \cup done]

(* DrainRetiredTasksLocked forgets the nodes that ended; a new task may enter. *)
DrainRetired == {n \in retired : IsTerminal(n)}
MutantCommitActive(entering) == active \ DrainRetired
CommitActive(entering) == (active \ DrainRetired) \cup entering

(* m_mutex is held across the two steps of Cancel and nothing else. *)
LockFree == \A th \in Thread : pc[th] # "cancelling"

(* A thread that calls the executor: a host, or a worker inside a callable,
   that is done with the batch and the rollback of its previous call. *)
CanCall(th) ==
  /\ pc[th] = "calling"
  /\ batch[th] = {} /\ slot[th] = None /\ undo[th] = None

-----------------------------------------------------------------------------
Init ==
  /\ status = [n \in Node |-> "CREATED"]
  /\ finalizing = [n \in Node |-> FALSE]
  /\ pending = [n \in Node |-> "CREATED"]
  /\ captures = [t \in Task |-> "none"]
  /\ edges = {}
  /\ remaining = [t \in Task |-> 0]
  /\ member = [t \in Task |-> None]
  /\ gOutstanding = [g \in Group |-> 0]
  /\ gSealed = [g \in Group |-> FALSE]
  /\ gQueued = [g \in Group |-> FALSE]
  /\ gOutcome = [g \in Group |-> "COMPLETED"]
  /\ gFirstFailure = [g \in Group |-> None]
  /\ active = {} /\ retired = {} /\ outstanding = 0
  /\ stopping = FALSE
  /\ ready = {}
  /\ batch = [th \in Thread |-> {}]
  /\ slot = [th \in Thread |-> None]
  /\ pc = [th \in Thread |-> IF th \in Host THEN "calling" ELSE "idle"]
  /\ cur = [th \in Thread |-> None]
  /\ undo = [th \in Thread |-> None]
  /\ declared = [t \in Task |-> {}]
  /\ admitted = [t \in Task |-> None]

-----------------------------------------------------------------------------
(* Calls. *)

CreateTaskGroup(th, g) ==
  /\ CanCall(th) /\ LockFree /\ ~ stopping
  /\ status[g] = "CREATED"
  /\ status' = [status EXCEPT ![g] = "WAITING"]
  /\ active' = active \cup {g}
  /\ outstanding' = outstanding + 1
  /\ UNCHANGED <<finalizing, pending, captures, graph, groups, retired,
                 stopping, ready, threads, history>>

(* SpawnInGroup: the caller runs a member of the group. *)
Descendant(th, g) == th \in Worker /\ member[cur[th]] = g

(* CompletionQueued, Outcome and Sealed close a group; a running member may
   still spawn into a sealed one. *)
AdmissionOpen(th, g) ==
  /\ Accepted(g)
  /\ ~ gQueued[g]
  /\ gOutcome[g] = "COMPLETED"
  /\ gSealed[g] => Descendant(th, g)

MutantAccount(t, g) ==
  /\ outstanding' = outstanding + 1
  /\ retired' = {}
  /\ gOutstanding' = gOutstanding
  /\ member' = [member EXCEPT ![t] = g]

(* The accounting of an accepted submission, before it is published. *)
Account(t, g) ==
  /\ outstanding' = outstanding + 1
  /\ retired' = {}
  /\ gOutstanding' =
       [h \in Group |-> IF h = g THEN gOutstanding[h] + 1 ELSE gOutstanding[h]]
  /\ member' = [member EXCEPT ![t] = g]

(* The tests of SubmitImpl. *)
MayAdmit(th, g) ==
  /\ CanCall(th) /\ LockFree /\ ~ stopping
  /\ g # None => AdmissionOpen(th, g)

(* SubmitImpl of t, with the dependencies deps, in group g or in none. *)
SubmitImpl(th, t, deps, g) ==
  /\ MayAdmit(th, g)
  /\ Fresh(t)
  /\ LET cancelled == \E d \in deps : Unsuccessful(d)
         live == IF cancelled THEN {} ELSE {d \in deps : ~ IsTerminal(d)}
     IN /\ edges' = edges \cup {<<d, t>> : d \in live}
        /\ remaining' = [remaining EXCEPT ![t] = Cardinality(live)]
        /\ status' = [status EXCEPT ![t] = IF live = {} THEN "READY" ELSE "WAITING"]
        /\ finalizing' = [finalizing EXCEPT ![t] = cancelled]
        /\ pending' = [pending EXCEPT ![t] = IF cancelled THEN "CANCELLED" ELSE @]
        /\ batch' = [batch EXCEPT ![th] = IF cancelled THEN {t} ELSE @]
        /\ ready' = IF live = {} /\ ~ cancelled THEN ready \cup {t} ELSE ready
  /\ captures' = [captures EXCEPT ![t] = "stored"]
  /\ active' = CommitActive({t})
  /\ Account(t, g)
  /\ declared' = [declared EXCEPT ![t] = deps]
  /\ admitted' = [admitted EXCEPT ![t] = g]
  /\ UNCHANGED <<gSealed, gQueued, gOutcome, gFirstFailure, stopping, slot, pc,
                 cur, undo>>

(* The same when the entry of a ready task cannot be allocated: the task
   leaves the registry at once, its payload and its accounting follow. *)
SubmitFails(th, t, deps, g) ==
  /\ MayAdmit(th, g)
  /\ Fresh(t)
  /\ \A d \in deps : status[d] = "COMPLETED"
  /\ captures' = [captures EXCEPT ![t] = "stored"]
  /\ active' = CommitActive({})
  /\ Account(t, g)
  /\ undo' = [undo EXCEPT ![th] = t]
  /\ UNCHANGED <<status, finalizing, pending, graph, gSealed, gQueued, gOutcome,
                 gFirstFailure, stopping, ready, batch, slot, pc, cur, history>>

RollbackPayload(th) ==
  /\ undo[th] # None
  /\ captures[undo[th]] = "stored"
  /\ captures' = [captures EXCEPT ![undo[th]] = "destroyed"]
  /\ UNCHANGED <<status, finalizing, pending, graph, groups, registry, stopping,
                 ready, threads, history>>

RollbackAccounting(th) ==
  /\ LockFree
  /\ undo[th] # None
  /\ captures[undo[th]] = "destroyed"
  /\ LET t == undo[th]
         g == member[t]
     IN /\ member' = [member EXCEPT ![t] = None]
        /\ gOutstanding' =
             [h \in Group |-> IF h = g THEN gOutstanding[h] - 1 ELSE gOutstanding[h]]
        /\ UNCHANGED <<gSealed, gOutcome, gFirstFailure>>
        /\ Finalize(th, {}, Completing({g} \ {None}))
  /\ outstanding' = outstanding - 1
  /\ undo' = [undo EXCEPT ![th] = None]
  /\ UNCHANGED <<status, captures, graph, active, retired, stopping, ready, slot,
                 pc, cur, history>>

(* A rejected submission still drains the retired records first. *)
SubmitRejected(th) ==
  /\ CanCall(th) /\ LockFree
  /\ stopping \/ \E g \in Group : ~ AdmissionOpen(th, g)
  /\ active' = CommitActive({})
  /\ retired' = {}
  /\ UNCHANGED <<status, finalizing, pending, captures, graph, groups,
                 outstanding, stopping, ready, threads, history>>

SealGroup(th, g) ==
  /\ CanCall(th) /\ LockFree
  /\ Accepted(g)
  /\ gSealed' = [gSealed EXCEPT ![g] = TRUE]
  /\ UNCHANGED <<member, gOutstanding, gOutcome, gFirstFailure>>
  /\ Finalize(th, {}, Completing({g}))
  /\ UNCHANGED <<status, captures, graph, registry, stopping, ready, slot, pc,
                 cur, undo, history>>

(* CancelTaskLocked on the seeds, then PrepareCancellationsLocked. *)
CancelAll(doomed) ==
  /\ edges' = Unlink(doomed)
  /\ remaining' = [t \in Task |-> IF t \in doomed THEN 0 ELSE remaining[t]]

CancelGroup(th, g) ==
  /\ CanCall(th) /\ LockFree
  /\ Accepted(g) /\ ~ gQueued[g]
  /\ gOutcome' = [gOutcome EXCEPT ![g] = IF @ = "FAILED" THEN @ ELSE "CANCELLED"]
  /\ gSealed' = [gSealed EXCEPT ![g] = TRUE]
  /\ UNCHANGED <<member, gOutstanding, gFirstFailure>>
  /\ LET doomed == Cascade(Members(g))
     IN CancelAll(doomed) /\ Finalize(th, doomed, Completing({g}))
  /\ UNCHANGED <<status, captures, registry, stopping, ready, slot, pc, cur,
                 undo, history>>

(* Cancel tests the task under the lock of its state, lets that lock go, and
   cancels under it again; a worker may claim the task in between. *)
CancelTest(th, t) ==
  /\ th \in Host
  /\ CanCall(th) /\ LockFree
  /\ Cancellable(t)
  /\ pc' = [pc EXCEPT ![th] = "cancelling"]
  /\ cur' = [cur EXCEPT ![th] = t]
  /\ UNCHANGED <<status, finalizing, pending, captures, graph, groups, registry,
                 stopping, ready, batch, slot, undo, history>>

Cancel(th) ==
  /\ pc[th] = "cancelling"
  /\ UNCHANGED <<member, gOutstanding, gSealed, gOutcome, gFirstFailure>>
  /\ LET doomed == Cascade({cur[th]})
     IN CancelAll(doomed) /\ Finalize(th, doomed, {})
  /\ pc' = [pc EXCEPT ![th] = "calling"]
  /\ cur' = [cur EXCEPT ![th] = None]
  /\ UNCHANGED <<status, captures, registry, stopping, ready, slot, undo,
                 history>>

WaitIdle(th) ==
  /\ th \in Host
  /\ CanCall(th) /\ LockFree
  /\ outstanding = 0
  /\ active' = CommitActive({})
  /\ retired' = {}
  /\ UNCHANGED <<status, finalizing, pending, captures, graph, groups,
                 outstanding, stopping, ready, threads, history>>

(* m_groups: the groups whose gate has not been published. *)
MutantOpenGroups == {g \in Group : Accepted(g) /\ ~ IsTerminal(g) /\ gSealed[g]}
OpenGroups   == {g \in Group : Accepted(g) /\ ~ IsTerminal(g)}

(* The destructor: a host closes every group, cancels what has not started
   and leaves its workers to finish. *)
StopWorkers(th) ==
  /\ th \in Host
  /\ CanCall(th) /\ LockFree /\ ~ stopping
  /\ stopping' = TRUE
  /\ LET open == OpenGroups
         doomed == Cascade(active \cap Task)
     IN /\ gOutcome' = [g \in Group |->
             IF g \in open /\ gOutcome[g] # "FAILED" THEN "CANCELLED" ELSE gOutcome[g]]
        /\ gSealed' = [g \in Group |-> gSealed[g] \/ g \in open]
        /\ UNCHANGED <<member, gOutstanding, gFirstFailure>>
        /\ CancelAll(doomed)
        /\ Finalize(th, doomed, Completing(open))
  /\ pc' = [pc EXCEPT ![th] = "joining"]
  /\ UNCHANGED <<status, captures, registry, ready, slot, cur, undo, history>>

Joined(th) ==
  /\ pc[th] = "joining"
  /\ batch[th] = {} /\ slot[th] = None
  /\ \A w \in Worker : pc[w] = "exited"
  /\ pc' = [pc EXCEPT ![th] = "joined"]
  /\ UNCHANGED <<status, finalizing, pending, captures, graph, groups, registry,
                 stopping, ready, batch, slot, cur, undo, history>>

-----------------------------------------------------------------------------
(* Retirement. *)

MutantWokenEarly(released) == {d \in released : remaining[d] <= 2}
MutantWokenNever(released) == {d \in released : remaining[d] = 0}

(* The released dependents whose last dependency this was. *)
Woken(released) == {d \in released : remaining[d] = 1}

MutantFailsGroup(g, st) == g # None /\ st = "FAILED" /\ gOutcome[g] = "COMPLETED"

(* The first failure of a member fails its group, even one being cancelled. *)
FailsGroup(g, st) == g # None /\ st = "FAILED" /\ gFirstFailure[g] = None

(* A node n ends with status st; "out" are its dependents still linked to it.
   Success releases them, anything else cancels them; then the node leaves its
   group, whose first bad member closes it. *)
Retire(th, n, st, out) ==
  LET g == IF n \in Task THEN member[n] ELSE None
      released == {d \in out : st = "COMPLETED" /\ status[d] = "WAITING" /\ ~ finalizing[d]}
      woken == Woken(released)
      fails == FailsGroup(g, st)
      cancels == g # None /\ st = "CANCELLED" /\ gOutcome[g] = "COMPLETED"
      closed == IF fails \/ cancels THEN {g} ELSE {}
      doomed == Cascade((IF st = "COMPLETED" THEN {} ELSE out)
                        \cup UNION {Members(h) : h \in closed})
  IN /\ status' = [m \in Node |-> IF m = n THEN st
                                  ELSE IF m \in woken THEN "READY" ELSE status[m]]
     /\ edges' = {e \in Unlink(doomed) : ~ (e[1] = n /\ e[2] \in out)}
     /\ remaining' = [t \in Task |-> IF t = n \/ t \in doomed THEN 0
                                     ELSE IF t \in released THEN remaining[t] - 1
                                     ELSE remaining[t]]
     /\ ready' = ready \cup woken
     /\ member' = [t \in Task |-> IF t = n THEN None ELSE member[t]]
     /\ gFirstFailure' = [h \in Group |-> IF h \in closed /\ fails THEN n ELSE gFirstFailure[h]]
     /\ gOutcome' = [h \in Group |-> IF h \in closed THEN st ELSE gOutcome[h]]
     /\ gSealed' = [h \in Group |-> gSealed[h] \/ h \in closed]
     /\ gOutstanding' = [h \in Group |-> IF h = g THEN gOutstanding[h] - 1
                                                  ELSE gOutstanding[h]]
     /\ Finalize(th, doomed, Completing({g} \ {None}))
     /\ retired' = retired \cup {n}
     /\ outstanding' = outstanding - 1
     /\ UNCHANGED <<active, history>>

(* DrainFinalizations takes a node out of the batch and destroys its callable
   with no lock held ... *)
DestroyCaptures(th, n) ==
  /\ n \in batch[th]
  /\ slot[th] = None
  /\ batch' = [batch EXCEPT ![th] = @ \ {n}]
  /\ slot' = [slot EXCEPT ![th] = n]
  /\ captures' = [t \in Task |-> IF t = n THEN "destroyed" ELSE captures[t]]
  /\ UNCHANGED <<status, finalizing, pending, graph, groups, registry, stopping,
                 ready, pc, cur, undo, history>>

(* ... then publishes its status under m_mutex.  A cancelled task has no
   edges any more; the gate of a group releases or cancels its dependents. *)
DrainFinalizations(th) ==
  /\ LockFree
  /\ slot[th] # None
  /\ LET n == slot[th]
     IN Retire(th, n, pending[n], IF n \in Group THEN Dependents(n) ELSE {})
  /\ slot' = [slot EXCEPT ![th] = None]
  /\ UNCHANGED <<captures, stopping, pc, cur, undo>>

-----------------------------------------------------------------------------
(* WorkerLoop. *)

Idle(w) == pc[w] = "idle" /\ batch[w] = {} /\ slot[w] = None

MutantClaimableReady(t)  == status[t] = "READY"
Claimable(t)       == status[t] = "READY" /\ ~ finalizing[t]

(* TryPopReadyTask and TryClaimReadyTask.  The entry of a task that was
   cancelled meanwhile is dropped. *)
Claim(w, t) ==
  /\ Idle(w)
  /\ t \in ready
  /\ ready' = ready \ {t}
  /\ IF Claimable(t)
       THEN /\ status' = [status EXCEPT ![t] = "RUNNING"]
            /\ captures' = [captures EXCEPT ![t] = "taken"]
            /\ pc' = [pc EXCEPT ![w] = "calling"]
            /\ cur' = [cur EXCEPT ![w] = t]
       ELSE UNCHANGED <<status, captures, pc, cur>>
  /\ UNCHANGED <<finalizing, pending, graph, groups, registry, stopping, batch,
                 slot, undo, history>>

(* The callable returns or throws: the first block of CompleteState. *)
FinishCallable(w, st) ==
  /\ w \in Worker
  /\ CanCall(w)
  /\ finalizing' = [finalizing EXCEPT ![cur[w]] = TRUE]
  /\ pending' = [pending EXCEPT ![cur[w]] = st]
  /\ pc' = [pc EXCEPT ![w] = "destroying"]
  /\ UNCHANGED <<status, captures, graph, groups, registry, stopping, ready,
                 batch, slot, cur, undo, history>>

DestroyCallable(w) ==
  /\ pc[w] = "destroying"
  /\ captures' = [captures EXCEPT ![cur[w]] = "destroyed"]
  /\ pc' = [pc EXCEPT ![w] = "completing"]
  /\ UNCHANGED <<status, finalizing, pending, graph, groups, registry, stopping,
                 ready, batch, slot, cur, undo, history>>

(* The critical section of CompleteState.  Room for the dependents is reserved
   before anything changes; if that fails the task fails instead. *)
CompleteState(w, st) ==
  /\ pc[w] = "completing"
  /\ LockFree
  /\ st \in {pending[cur[w]], "FAILED"}
  /\ Retire(w, cur[w], st, Dependents(cur[w]))
  /\ pc' = [pc EXCEPT ![w] = "idle"]
  /\ cur' = [cur EXCEPT ![w] = None]
  /\ UNCHANGED <<captures, stopping, slot, undo>>

WorkerExits(w) ==
  /\ Idle(w)
  /\ stopping
  /\ ready = {}
  /\ pc' = [pc EXCEPT ![w] = "exited"]
  /\ UNCHANGED <<status, finalizing, pending, captures, graph, groups, registry,
                 stopping, ready, batch, slot, cur, undo, history>>

-----------------------------------------------------------------------------
(* "It is forbidden to create a cyclic dependency of a member on the
   continuation of its own group": what must wait for the gate of g. *)
Downstream(g) ==
  {n \in Node : \A U \in SUBSET Node :
      (/\ g \in U
       /\ \A t \in Task : declared[t] \cap U # {} => t \in U
       /\ \A t \in Task : t \in U /\ admitted[t] # None => admitted[t] \in U)
      => n \in U}

(* The dependencies a submission to g may name: handles of tasks, or, in
   SubmitAfterGroup, the gate of a group. *)
Dependencies(g) ==
  {deps \in SUBSET {t \in Task : Accepted(t)} : g = None \/ deps \cap Downstream(g) = {}}
  \cup {gate \in {{h} : h \in Group} : g = None /\ \A h \in gate : Accepted(h)}

Submit(th) ==
  \E g \in Group \cup {None} :
    /\ MayAdmit(th, g)
    /\ \E t \in Task :
         /\ Fresh(t)
         /\ \E deps \in Dependencies(g) : \/ SubmitImpl(th, t, deps, g)
                                         \/ SubmitFails(th, t, deps, g)

Call(th) ==
  \/ \E g \in Group : \/ CreateTaskGroup(th, g)
                      \/ SealGroup(th, g)
                      \/ CancelGroup(th, g)
  \/ Submit(th)
  \/ SubmitRejected(th)
  \/ \E t \in Task : CancelTest(th, t)
  \/ WaitIdle(th)
  \/ StopWorkers(th)

(* What a thread does once it has begun. *)
Continue(th) ==
  \/ RollbackPayload(th)
  \/ RollbackAccounting(th)
  \/ Cancel(th)
  \/ \E n \in Node : DestroyCaptures(th, n)
  \/ DrainFinalizations(th)
  \/ Joined(th)

Work(w) ==
  \/ \E t \in Task : Claim(w, t)
  \/ \E st \in {"COMPLETED", "FAILED"} : FinishCallable(w, st) \/ CompleteState(w, st)
  \/ DestroyCallable(w)
  \/ WorkerExits(w)

Next ==
  \/ \E th \in Thread : Call(th) \/ Continue(th)
  \/ \E w \in Worker : Work(w)

Spec == Init /\ [][Next]_vars

-----------------------------------------------------------------------------
TypeOK ==
  /\ status \in [Node -> Status]
  /\ finalizing \in [Node -> BOOLEAN]
  /\ pending \in [Node -> Status]
  /\ captures \in [Task -> {"none", "stored", "taken", "destroyed"}]
  /\ edges \subseteq Node \X Task
  /\ remaining \in [Task -> Nat]
  /\ member \in [Task -> Group \cup {None}]
  /\ gOutstanding \in [Group -> Nat]
  /\ gSealed \in [Group -> BOOLEAN]
  /\ gQueued \in [Group -> BOOLEAN]
  /\ gOutcome \in [Group -> Terminal]
  /\ gFirstFailure \in [Group -> Task \cup {None}]
  /\ active \subseteq Node
  /\ retired \subseteq Node
  /\ outstanding \in Nat
  /\ stopping \in BOOLEAN
  /\ ready \subseteq Task
  /\ batch \in [Thread -> SUBSET Node]
  /\ slot \in [Thread -> Node \cup {None}]
  /\ pc \in [Thread -> {"calling", "cancelling", "joining", "joined",
                        "idle", "destroying", "completing", "exited"}]
  /\ cur \in [Thread -> Task \cup {None}]
  /\ undo \in [Thread -> Task \cup {None}]
  /\ declared \in [Task -> SUBSET Node]
  /\ admitted \in [Task -> Group \cup {None}]

-----------------------------------------------------------------------------
(* A callable runs only when every task and group it was submitted after has
   completed, and the captures of those tasks are gone (task_retirement.md). *)
DependenciesHold ==
  \A t \in Task : status[t] \in {"RUNNING", "COMPLETED", "FAILED"} =>
    \A d \in declared[t] : /\ status[d] = "COMPLETED"
                           /\ d \in Task => captures[d] = "destroyed"

(* A task submitted after one that failed or was cancelled is cancelled too,
   whenever the submission came: before, during or after the bad end. *)
CancellationReachesDependents ==
  \A t \in Task : \A d \in declared[t] : status[d] \in {"FAILED", "CANCELLED"} =>
    status[t] = "CANCELLED" \/ (finalizing[t] /\ pending[t] = "CANCELLED")

(* What ValidateDagLocked and ReleaseDependencyPayloadLocked end the process
   for: an ended node with an edge, a counter that is not the number of edges. *)
GraphConsistent ==
  /\ \A e \in edges : ~ IsTerminal(e[1]) /\ ~ IsTerminal(e[2])
  /\ \A t \in Task : status[t] = "WAITING" /\ ~ finalizing[t] =>
       /\ remaining[t] = Cardinality({n \in Node : <<n, t>> \in edges})
       /\ remaining[t] > 0

(* OutstandingTasks, on which WaitIdle waits, is the number of accepted tasks
   and open gates that have not ended, plus the submissions being undone. *)
OutstandingIsUnretired ==
  outstanding = Cardinality({n \in Node : Accepted(n) /\ ~ IsTerminal(n)})
                + Cardinality({th \in Thread : undo[th] # None})

(* The registry, which group cancellation and the stop go through to find what
   to cancel, misses no task that has not ended. *)
RegistryReachesLive ==
  \A n \in Node : Accepted(n) /\ ~ IsTerminal(n) => n \in active

(* The three books of the executor - graph, counter, registry - agree with the
   life cycles of the nodes after every interleaving of submissions, rollbacks,
   completions and retirements. *)
BooksBalance == GraphConsistent /\ OutstandingIsUnretired /\ RegistryReachesLive

(* A task is run by one worker, and every node that is ending is ended by
   exactly one thread; Wait and WaitIdle return after the captures are
   destroyed. *)
EndsOnceDestroyed ==
  /\ \A t \in Task : status[t] = "RUNNING" =>
       Cardinality({w \in Worker : cur[w] = t}) = 1
  /\ \A n \in Node : finalizing[n] /\ ~ IsTerminal(n) =>
       Cardinality({th \in Thread :
         \/ n \in batch[th]
         \/ slot[th] = n
         \/ pc[th] \in {"destroying", "completing"} /\ cur[th] = n}) = 1
  /\ \A t \in Task : IsTerminal(t) => captures[t] = "destroyed"
  /\ outstanding = 0 => \A t \in Task : captures[t] \in {"none", "destroyed"}

(* The completion of a group is decided when every member has ended with its
   captures destroyed, a submission being undone included (task_groups.md). *)
GateAfterMembers ==
  \A g \in Group : gQueued[g] =>
    /\ \A t \in Task : admitted[t] = g => IsTerminal(t) /\ captures[t] = "destroyed"
    /\ \A th \in Thread : undo[th] # None => member[undo[th]] # g

(* A group fails exactly when a member failed, even one already cancelled, and
   completes only when all members completed. *)
GroupOutcomeIsMembers ==
  \A g \in Group : IsTerminal(g) =>
    /\ status[g] = "FAILED" <=> \E t \in Task : admitted[t] = g /\ status[t] = "FAILED"
    /\ status[g] = "COMPLETED" => \A t \in Task : admitted[t] = g => status[t] = "COMPLETED"

(* Once a group is failed or cancelled no member of it is left to start. *)
ClosedGroupDrains ==
  \A g \in Group : gOutcome[g] # "COMPLETED" =>
    \A t \in Task : admitted[t] = g => status[t] = "RUNNING" \/ finalizing[t]

(* A group ends as its members did, after all of them, and lets none start
   once it has failed. *)
GroupsEndWithMembers ==
  GateAfterMembers /\ GroupOutcomeIsMembers /\ ClosedGroupDrains

(* How a task ends follows from what it was submitted after and from the group
   it was submitted to, in whatever order submissions, failures and
   cancellations meet. *)
OutcomesFollowGraph ==
  DependenciesHold /\ CancellationReachesDependents /\ GroupsEndWithMembers

(* Cancel either throws or leaves the task ending: it never returns having
   done nothing (task_retirement.md: cancelling a task that is really RUNNING
   returns INVALID_STATE). *)
CancelTakesEffect ==
  [][\A th \in Host : pc[th] = "cancelling" /\ pc'[th] # "cancelling" =>
       finalizing'[cur[th]]]_vars

(* Callables return, a thread in the executor goes on, a worker that can claim
   does; every group is closed in the end, as task_groups.md asks callers to. *)
Fairness ==
  /\ \A th \in Thread : WF_vars(Continue(th))
  /\ \A w \in Worker : WF_vars(Work(w))
  /\ \A g \in Group : WF_vars(~ gSealed[g] /\ \E th \in Thread : SealGroup(th, g))

FairSpec == Spec /\ Fairness

(* Every accepted task and group ends, and a stop ends with every worker
   joined and nothing accepted left.  Nodes are accepted once and ends last, so
   each gets its end if again and again none is due. *)
EverythingEnds ==
  []<>( /\ \A n \in Node : Accepted(n) => IsTerminal(n)
        /\ stopping => outstanding = 0 /\ \E h \in Host : pc[h] = "joined" )

=============================================================================
