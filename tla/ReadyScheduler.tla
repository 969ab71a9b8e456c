--------------------------- MODULE ReadyScheduler ---------------------------
(***************************************************************************)
(* The ready queues of the executor and the workers that sleep on them      *)
(* (TaskSystem::ReadyScheduler and WorkerLoop in                            *)
(* src/lib/thread/task/task_system.cpp).                                    *)
(*                                                                         *)
(* A worker looks into the gate list, its own queue, the injected queue and *)
(* the queues of the others, one lock at a time: each look is one action.   *)
(* A publication is a push with the count, then the release of the          *)
(* semaphore; the publisher holds TaskSystem::m_mutex over both.  What an   *)
(* entry is, and whether the claim of a popped entry succeeds, is left      *)
(* open (TaskSystem.tla says when it does).                                 *)
(***************************************************************************)
EXTENDS Naturals, Sequences, FiniteSets

CONSTANTS
  WorkerCount,       \* number of workers, indexed from 0
  Host,              \* threads outside the pool that publish
  MaxEntries,        \* bound on the number of publications
  MinConsumed,       \* minConsumedBeforeCompact of CompactReadyQueueLocked (1024)
  None

ASSUME ReadySchedulerAssumption ==
  /\ WorkerCount \in Nat \ {0}
  /\ MaxEntries \in Nat
  /\ MinConsumed \in Nat \ {0}
  /\ Host \cap Nat = {}
  /\ None \notin Host \cup Nat

Worker   == 0 .. WorkerCount - 1
Injected == WorkerCount
Queue    == Worker \cup {Injected}
Thread   == Worker \cup Host
Entry    == 1 .. MaxEntries
Moved    == 0    \* a vector element whose content was moved out

VARIABLES
  queue,      \* WorkerQueues and InjectedQueue: Tasks and Head
  gates,      \* the list GroupReadyFirst .. GroupReadyLast
  readyCount, \* ReadyTaskCount
  permits,    \* Wakeups
  stopping,   \* m_stopping
  publisher,  \* the thread that holds m_mutex to publish
  release,    \* the permits it has still to release
  reserved,   \* it is a worker completing a task, its queue compacted
  published,  \* number of entries published so far
  taken,      \* entries popped so far
  held,       \* the entry a worker popped
  look,       \* where the scan of a worker looks next
  pc

mutexVars == <<publisher, release, reserved>>
vars == <<queue, gates, readyCount, permits, stopping, mutexVars, published,
          taken, held, look, pc>>

-----------------------------------------------------------------------------
EmptyQueue == [tasks |-> <<>>, head |-> 0]
IsEmpty(q) == q.head >= Len(q.tasks)
Live(q)    == {q.tasks[i] : i \in q.head + 1 .. Len(q.tasks)}

(* CompactReadyQueueLocked drops the consumed prefix when it is long. *)
Compact(q) ==
  IF q.head = 0 THEN q
  ELSE IF IsEmpty(q) THEN EmptyQueue
  ELSE IF q.head < MinConsumed /\ q.head * 2 < Len(q.tasks) THEN q
  ELSE [tasks |-> SubSeq(q.tasks, q.head + 1, Len(q.tasks)), head |-> 0]

Push(q, s) == [tasks |-> q.tasks \o s, head |-> q.head]

(* The owner takes the newest entry, everybody else the oldest. *)
Newest(q) == q.tasks[Len(q.tasks)]
MutantOldest(q) == q.tasks[1]
Oldest(q) == q.tasks[q.head + 1]

WithoutNewest(q) ==
  LET rest == [tasks |-> SubSeq(q.tasks, 1, Len(q.tasks) - 1), head |-> q.head]
  IN IF IsEmpty(rest) THEN EmptyQueue ELSE rest

MutantWithoutOldest(q) == Compact([tasks |-> q.tasks, head |-> q.head + 2])

WithoutOldest(q) ==
  Compact([tasks |-> [q.tasks EXCEPT ![q.head + 1] = Moved], head |-> q.head + 1])

-----------------------------------------------------------------------------
Init ==
  /\ queue = [q \in Queue |-> EmptyQueue]
  /\ gates = <<>>
  /\ readyCount = 0
  /\ permits = 0
  /\ stopping = FALSE
  /\ publisher = None /\ release = 0 /\ reserved = FALSE
  /\ published = 0
  /\ taken = {}
  /\ held = [w \in Worker |-> None]
  /\ look = [w \in Worker |-> 0]
  /\ pc = [w \in Worker |-> "top"]

-----------------------------------------------------------------------------
(* Publication. *)

(* Tasks become ready only before the stop has the lock, and only hosts and
   the callables that workers run make them so. *)
MayPublish(th) ==
  /\ publisher = None
  /\ ~ stopping
  /\ th \in Worker => pc[th] \in {"run", "completed"}

Fresh(n) == [i \in 1 .. n |-> published + i]

(* PublishReadyTask: a worker pushes on its own queue, a host on the injected. *)
Target(th) == IF th \in Worker THEN th ELSE Injected

PublishReadyTask(th) ==
  /\ MayPublish(th)
  /\ published < MaxEntries
  /\ queue' = [queue EXCEPT ![Target(th)] =
                 Push(Compact(queue[Target(th)]), Fresh(1))]
  /\ readyCount' = readyCount + 1
  /\ published' = published + 1
  /\ publisher' = th /\ release' = 1
  /\ UNCHANGED <<gates, permits, stopping, reserved, taken, held, look, pc>>

(* PublishGroupReadyTask. *)
PublishGroupReadyTask(th) ==
  /\ MayPublish(th)
  /\ published < MaxEntries
  /\ gates' = gates \o Fresh(1)
  /\ readyCount' = readyCount + 1
  /\ published' = published + 1
  /\ publisher' = th /\ release' = 1
  /\ UNCHANGED <<queue, permits, stopping, reserved, taken, held, look, pc>>

(* CompleteState makes room for the dependents, then pushes all of them. *)
ReserveRoom(w) ==
  /\ MayPublish(w)
  /\ pc[w] = "run"
  /\ pc' = [pc EXCEPT ![w] = "completed"]
  /\ publisher' = w
  /\ reserved' = TRUE
  /\ queue' = [queue EXCEPT ![w] = Compact(queue[w])]
  /\ UNCHANGED <<gates, readyCount, permits, stopping, release, published,
                 taken, held, look>>

PublishDependents(w, n) ==
  /\ publisher = w /\ reserved
  /\ published + n <= MaxEntries
  /\ queue' = [queue EXCEPT ![w] = Push(queue[w], Fresh(n))]
  /\ readyCount' = readyCount + n
  /\ published' = published + n
  /\ release' = n
  /\ reserved' = FALSE
  /\ UNCHANGED <<gates, permits, stopping, publisher, taken, held, look, pc>>

MutantWakeups(th) ==
  /\ publisher = th /\ ~ reserved
  /\ permits' = permits + (IF release = 0 THEN 0 ELSE 1)
  /\ publisher' = None /\ release' = 0
  /\ UNCHANGED <<queue, gates, readyCount, stopping, reserved, published, taken,
                 held, look, pc>>

(* Wakeups.release, and the end of the critical section. *)
ReleaseWakeups(th) ==
  /\ publisher = th /\ ~ reserved
  /\ permits' = permits + release
  /\ publisher' = None /\ release' = 0
  /\ UNCHANGED <<queue, gates, readyCount, stopping, reserved, published, taken,
                 held, look, pc>>

MutantStop ==
  /\ publisher = None
  /\ ~ stopping
  /\ stopping' = TRUE
  /\ UNCHANGED <<queue, gates, readyCount, permits, mutexVars, published, taken,
                 held, look, pc>>

(* StopWorkers sets m_stopping under m_mutex, then WakeAll. *)
StopWorkers ==
  /\ publisher = None
  /\ ~ stopping
  /\ stopping' = TRUE
  /\ permits' = permits + WorkerCount
  /\ UNCHANGED <<queue, gates, readyCount, mutexVars, published, taken, held,
                 look, pc>>

-----------------------------------------------------------------------------
(* WorkerLoop. *)

Goto(w, l) == pc' = [pc EXCEPT ![w] = l]
HasReadyTasks == readyCount # 0

MutantTop(w) ==
  /\ pc[w] = "top"
  /\ Goto(w, IF stopping THEN "exited" ELSE "acquire")
  /\ UNCHANGED <<queue, gates, readyCount, permits, stopping, mutexVars,
                 published, taken, held, look>>

Top(w) ==
  /\ pc[w] = "top"
  /\ Goto(w, IF stopping /\ ~ HasReadyTasks THEN "exited" ELSE "acquire")
  /\ UNCHANGED <<queue, gates, readyCount, permits, stopping, mutexVars,
                 published, taken, held, look>>

Acquire(w) ==
  /\ pc[w] = "acquire"
  /\ permits > 0
  /\ permits' = permits - 1
  /\ look' = [look EXCEPT ![w] = 0]
  /\ Goto(w, "scan")
  /\ UNCHANGED <<queue, gates, readyCount, stopping, mutexVars, published,
                 taken, held>>

(* The places of a scan, in order: the gate list, the own queue, the injected
   queue, then the queues of the others from the next index on. *)
GateLook == 0
Place(w, k) == IF k = 1 THEN w
               ELSE IF k = 2 THEN Injected
               ELSE (w + k - 2) % WorkerCount
LastLook == WorkerCount + 1

Pop(w, e) ==
  /\ readyCount' = readyCount - 1
  /\ taken' = taken \cup {e}
  /\ held' = [held EXCEPT ![w] = e]
  /\ Goto(w, "claim")
  /\ UNCHANGED <<permits, stopping, mutexVars, published, look>>

PopGate(w) ==
  /\ pc[w] = "scan" /\ look[w] = GateLook
  /\ gates # <<>>
  /\ gates' = Tail(gates)
  /\ Pop(w, Head(gates))
  /\ UNCHANGED queue

(* TryPopLocalReadyTask, TryPopInjectedReadyTask and TryStealReadyTask. *)
PopQueue(w) ==
  /\ pc[w] = "scan" /\ look[w] # GateLook
  /\ LET p == Place(w, look[w])
         q == queue[p]
     IN /\ ~ IsEmpty(q)
        /\ queue' = [queue EXCEPT ![p] = IF p = w THEN WithoutNewest(q) ELSE WithoutOldest(q)]
        /\ Pop(w, IF p = w THEN Newest(q) ELSE Oldest(q))
  /\ UNCHANGED gates

LookFurther(w) ==
  /\ pc[w] = "scan"
  /\ \/ look[w] = GateLook /\ gates = <<>> /\ UNCHANGED queue
     \/ /\ look[w] # GateLook
        /\ IsEmpty(queue[Place(w, look[w])])
        /\ queue' = [queue EXCEPT ![Place(w, look[w])] = EmptyQueue]
  /\ look' = [look EXCEPT ![w] = IF @ = LastLook THEN 0 ELSE @ + 1]
  /\ Goto(w, IF look[w] = LastLook THEN "recheck" ELSE "scan")
  /\ UNCHANGED <<gates, readyCount, permits, stopping, mutexVars, published,
                 taken, held>>

MutantRecheck(w) ==
  /\ pc[w] = "recheck"
  /\ Goto(w, "check")
  /\ UNCHANGED <<queue, gates, readyCount, permits, stopping, mutexVars,
                 published, taken, held, look>>

(* The search goes on until it finds something or nothing is ready. *)
Recheck(w) ==
  /\ pc[w] = "recheck"
  /\ Goto(w, IF HasReadyTasks THEN "scan" ELSE "check")
  /\ UNCHANGED <<queue, gates, readyCount, permits, stopping, mutexVars,
                 published, taken, held, look>>

(* TryClaimReadyTask succeeds, or the task was cancelled meanwhile. *)
TryClaim(w) ==
  /\ pc[w] = "claim"
  /\ \E claimed \in BOOLEAN : Goto(w, IF claimed THEN "run" ELSE "check")
  /\ UNCHANGED <<queue, gates, readyCount, permits, stopping, mutexVars,
                 published, taken, held, look>>

Check(w) ==
  /\ pc[w] = "check"
  /\ held' = [held EXCEPT ![w] = None]
  /\ Goto(w, IF stopping /\ ~ HasReadyTasks THEN "exited" ELSE "top")
  /\ UNCHANGED <<queue, gates, readyCount, permits, stopping, mutexVars,
                 published, taken, look>>

(* A failed callable makes nothing ready: it ends without ReserveRoom. *)
EndTask(w) ==
  /\ pc[w] \in {"run", "completed"}
  /\ publisher # w
  /\ held' = [held EXCEPT ![w] = None]
  /\ Goto(w, "top")
  /\ UNCHANGED <<queue, gates, readyCount, permits, stopping, mutexVars,
                 published, taken, look>>

-----------------------------------------------------------------------------
Publish(th) == PublishReadyTask(th) \/ PublishGroupReadyTask(th)

Finish(th) ==
  \/ th \in Worker /\ \E n \in 0 .. MaxEntries : PublishDependents(th, n)
  \/ ReleaseWakeups(th)

Loop(w) ==
  \/ Top(w) \/ Acquire(w)
  \/ PopGate(w) \/ PopQueue(w) \/ LookFurther(w) \/ Recheck(w)
  \/ TryClaim(w) \/ Check(w) \/ EndTask(w)

Next ==
  \/ \E th \in Thread : Publish(th) \/ Finish(th)
  \/ \E w \in Worker : ReserveRoom(w) \/ Loop(w)
  \/ StopWorkers

Spec == Init /\ [][Next]_vars

(* A thread that holds m_mutex lets it go, and a worker goes on. *)
Fairness ==
  /\ \A th \in Thread : WF_vars(Finish(th))
  /\ \A w \in Worker : WF_vars(Loop(w))

FairSpec == Spec /\ Fairness

-----------------------------------------------------------------------------
LiveEntries ==
  (UNION {Live(queue[q]) : q \in Queue}) \cup {gates[i] : i \in DOMAIN gates}

TypeOK ==
  /\ \A q \in Queue : /\ queue[q].tasks \in Seq(Entry \cup {Moved})
                      /\ queue[q].head \in 0 .. Len(queue[q].tasks)
  /\ gates \in Seq(Entry)
  /\ readyCount \in 0 .. MaxEntries
  /\ permits \in Nat
  /\ stopping \in BOOLEAN
  /\ publisher \in Thread \cup {None}
  /\ release \in Nat
  /\ reserved \in BOOLEAN
  /\ published \in 0 .. MaxEntries
  /\ taken \subseteq Entry
  /\ held \in [Worker -> Entry \cup {None}]
  /\ look \in [Worker -> 0 .. LastLook]
  /\ pc \in [Worker -> {"top", "acquire", "scan", "recheck", "claim", "run",
                        "completed", "check", "exited"}]

(* A worker is searching from the permit it took to the entry it pops. *)
Searching(w) == pc[w] \in {"scan", "recheck"}

(* No lost wakeup: the counter that decides whether a worker may sleep or exit
   is the number of entries in the queues, and for every one of them there is a
   permit, a permit about to be released, or a worker that will look again
   before it sleeps. *)
NoLostWakeup ==
  /\ readyCount = Cardinality(LiveEntries)
  /\ readyCount <= permits + release + Cardinality({w \in Worker : Searching(w)})

(* No worker leaves ready work behind when the pool stops. *)
ExitedMeansDrained ==
  \A w \in Worker : pc[w] = "exited" => stopping /\ readyCount = 0

(* No thread that publishes, sleeps, wakes or leaves strands an entry. *)
PoolIsSafe == NoLostWakeup /\ ExitedMeansDrained

(* The queues, with their consumed prefixes, their compaction and their two
   ends, behave as the pool of ReadyPool.tla. *)
Pool == INSTANCE ReadyPool WITH pool <- LiveEntries
ImplementsReadyPool == Pool!Spec

(* Whatever the races between publishers, sleepers and thieves, every entry
   is taken, and every worker leaves after the stop.  What is taken stays so,
   and so does a worker that has left: none may be due again and again. *)
PoolEnds ==
  []<>( /\ \A e \in 1 .. published : e \in taken
        /\ stopping => \A w \in Worker : pc[w] = "exited" )
=============================================================================
