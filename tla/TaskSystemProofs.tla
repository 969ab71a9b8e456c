-------------------------- MODULE TaskSystemProofs --------------------------
(***************************************************************************)
(* The proofs about the executor: for any numbers of tasks, groups, workers *)
(* and hosts, TaskSystem keeps its graph, its counter and its registry in   *)
(* agreement, ends every node once, and ends it as what it was submitted    *)
(* after says.                                                              *)
(*                                                                         *)
(* TaskInv is inductive.  Its parts say what the properties of TaskSystem   *)
(* leave open: who owns an ending node, which edges an accepted task still  *)
(* has, and what the books of a group count.                                *)
(*                                                                         *)
(* The second part is about the jobs that run on the executor (UserJobs):   *)
(* JobsInv, for any jobs, workers, and bodies that await each other.        *)
(***************************************************************************)
EXTENDS TaskSystem, UserJobs, FiniteSetTheorems, SequenceTheorems, TLAPS

-----------------------------------------------------------------------------
(* The inductive invariant. *)

Live(n)   == Accepted(n) /\ ~ IsTerminal(n)
Ending(n) == finalizing[n] /\ ~ IsTerminal(n)

(* A node is finalizing from the decision on its end on, and ends that way; a
   task may still fail for want of memory when it completes. *)
NodesSound ==
  \A n \in Node :
    /\ finalizing[n] => Accepted(n) /\ pending[n] \in Terminal
    /\ IsTerminal(n) => finalizing[n]
    /\ IsTerminal(n) => \/ status[n] = pending[n]
                        \/ n \in Task /\ status[n] = "FAILED" /\ pending[n] = "COMPLETED"
    /\ n \in Group => status[n] \notin {"READY", "RUNNING"}

(* Only a task that ran ends in another way than by cancellation; the callable
   of a task is where its status says. *)
TasksSound ==
  \A t \in Task :
    /\ finalizing[t] /\ status[t] = "RUNNING" => pending[t] # "CANCELLED"
    /\ finalizing[t] /\ status[t] \in {"WAITING", "READY"} => pending[t] = "CANCELLED"
    /\ IsTerminal(t) => captures[t] = "destroyed"
    /\ status[t] \in {"WAITING", "READY"} /\ ~ finalizing[t] => captures[t] = "stored"

(* A running task has one worker, which is where the task is. *)
WorkersSound ==
  /\ \A w \in Worker :
       /\ pc[w] \in {"idle", "calling", "destroying", "completing", "exited"}
       /\ cur[w] # None <=> pc[w] \in {"calling", "destroying", "completing"}
       /\ cur[w] # None => /\ status[cur[w]] = "RUNNING"
                           /\ finalizing[cur[w]] <=> pc[w] # "calling"
       /\ pc[w] = "completing" => captures[cur[w]] = "destroyed"
  /\ \A v, w \in Worker : cur[v] = cur[w] /\ cur[v] # None => v = w
  /\ \A t \in Task : status[t] = "RUNNING" => \E w \in Worker : cur[w] = t

HostsSound ==
  \A h \in Host : /\ pc[h] \in {"calling", "cancelling", "joining", "joined"}
                  /\ pc[h] = "cancelling" => cur[h] \in Task

(* A node that ends without having run is in one batch. *)
Holds(th, n) == n \in batch[th] \/ slot[th] = n

EndersSound ==
  /\ \A th \in Thread, n \in Node : Holds(th, n) => Ending(n) /\ status[n] # "RUNNING"
  /\ \A th, ti \in Thread, n \in Node : Holds(th, n) /\ Holds(ti, n) => th = ti
  /\ \A n \in Node : Ending(n) /\ status[n] # "RUNNING" => \E th \in Thread : Holds(th, n)
  /\ \A th \in Thread : slot[th] \notin batch[th]
  /\ \A th \in Thread : slot[th] \in Task => captures[slot[th]] = "destroyed"

(* A payload outside the graph is being rolled back, by one thread. *)
UndoSound ==
  /\ \A th \in Thread : undo[th] # None => /\ status[undo[th]] = "CREATED"
                                           /\ captures[undo[th]] \in {"stored", "destroyed"}
  /\ \A th, ti \in Thread : undo[th] = undo[ti] /\ undo[th] # None => th = ti
  /\ \A t \in Task : status[t] = "CREATED" =>
       \/ captures[t] \in {"none", "destroyed"}
       \/ captures[t] = "stored" /\ \E th \in Thread : undo[th] = t

(* An edge leads from a node that has not ended, and was not cancelled, to a
   task that waits. *)
EdgesSound ==
  \A d \in Node, t \in Task : <<d, t>> \in edges =>
    /\ status[t] = "WAITING" /\ ~ finalizing[t]
    /\ Live(d)
    /\ d \in Task /\ finalizing[d] => status[d] = "RUNNING"

Preds(t) == {n \in Node : <<n, t>> \in edges}

CountsSound ==
  \A t \in Task : status[t] = "WAITING" /\ ~ finalizing[t] =>
    remaining[t] = Cardinality(Preds(t)) /\ remaining[t] > 0

(* Unless it is cancelled, a task has an edge from every dependency that has
   not completed. *)
DeclaredSound ==
  \A t \in Task : \A d \in declared[t] :
    \/ finalizing[t] /\ pending[t] = "CANCELLED"
    \/ <<d, t>> \in edges
    \/ status[d] = "COMPLETED"

(* A group counts the tasks that name it; a task names the group it was
   admitted to until it ends. *)
MembersOf(g) == {t \in Task : member[t] = g}

MembersSound ==
  /\ \A t \in Task :
       /\ Live(t) => member[t] = admitted[t]
       /\ status[t] = "CREATED" => admitted[t] = None
       /\ captures[t] = "none" => member[t] = None
       /\ member[t] # None => Accepted(member[t])
  /\ \A g \in Group : gOutstanding[g] = Cardinality(MembersOf(g))

GroupsSound ==
  \A g \in Group :
    /\ gSealed[g] => Accepted(g)
    /\ finalizing[g] <=> gQueued[g]
    /\ gQueued[g] => gSealed[g] /\ gOutstanding[g] = 0
    /\ gOutcome[g] = "FAILED" <=> gFirstFailure[g] # None

(* The outcome of a group, which a stop may overwrite once its gate is queued,
   is what its ended members say. *)
Verdict(g) == IF gQueued[g] THEN pending[g] ELSE gOutcome[g]

VerdictsSound ==
  \A g \in Group :
    /\ Verdict(g) = "FAILED" <=> \E t \in Task : admitted[t] = g /\ status[t] = "FAILED"
    /\ Verdict(g) = "COMPLETED" =>
         \A t \in Task : admitted[t] = g /\ IsTerminal(t) => status[t] = "COMPLETED"

TaskInv ==
  /\ TypeOK
  /\ NodesSound /\ TasksSound
  /\ WorkersSound /\ HostsSound /\ EndersSound /\ UndoSound
  /\ EdgesSound /\ CountsSound /\ DeclaredSound
  /\ MembersSound /\ GroupsSound /\ VerdictsSound /\ ClosedGroupDrains
  /\ RegistryReachesLive /\ OutstandingIsUnretired

-----------------------------------------------------------------------------
(* Sets of nodes and threads. *)

LEMMA AddOne ==
  ASSUME NEW S, IsFiniteSet(S), NEW x, x \notin S
  PROVE  /\ IsFiniteSet(S \cup {x}) /\ Cardinality(S \cup {x}) = Cardinality(S) + 1
         /\ Cardinality(S) \in Nat /\ Cardinality(S \cup {x}) \in Nat
BY FS_AddElement, FS_CardinalityType

LEMMA DropOne ==
  ASSUME NEW S, IsFiniteSet(S), NEW x \in S
  PROVE  /\ IsFiniteSet(S \ {x}) /\ Cardinality(S \ {x}) = Cardinality(S) - 1
         /\ Cardinality(S) \in Nat /\ Cardinality(S \ {x}) \in Nat /\ Cardinality(S) > 0
<1>1. IsFiniteSet(S \ {x}) /\ Cardinality(S \ {x}) = Cardinality(S) - 1
  BY FS_RemoveElement
<1>2. Cardinality(S) \in Nat /\ Cardinality(S \ {x}) \in Nat
  BY <1>1, FS_CardinalityType
<1>3. Cardinality(S) # 0
  BY FS_EmptySet
<1>. QED
  BY <1>1, <1>2, <1>3

LEMMA OnlyOne ==
  ASSUME NEW S, NEW x, \A y : y \in S <=> y = x
  PROVE  Cardinality(S) = 1
<1>1. S = {x}
  OBVIOUS
<1>. QED
  BY <1>1, FS_Singleton

LEMMA NodesFinite ==
  /\ IsFiniteSet(Node) /\ IsFiniteSet(Thread) /\ IsFiniteSet(Task)
  /\ \A S \in SUBSET Node : IsFiniteSet(S) /\ Cardinality(S) \in Nat
  /\ \A S \in SUBSET Thread : IsFiniteSet(S) /\ Cardinality(S) \in Nat
<1>1. IsFiniteSet(Node) /\ IsFiniteSet(Thread) /\ IsFiniteSet(Task)
  BY TaskSystemAssumption, FS_Union DEF Node, Thread
<1>. QED
  BY <1>1, FS_Subset, FS_CardinalityType

LEMMA Distinct ==
  /\ None \notin Node /\ None \notin Task /\ None \notin Group
  /\ \A n \in Node : n \in Task <=> n \notin Group
  /\ \A th \in Thread : th \in Worker <=> th \notin Host
  /\ Task \subseteq Node /\ Group \subseteq Node
  /\ Worker \subseteq Thread /\ Host \subseteq Thread
BY TaskSystemAssumption DEF Node, Thread

(* What a cascade is. *)
LEMMA CascadeIs ==
  ASSUME NEW seeds \in SUBSET Task
  PROVE  /\ Cascade(seeds) \subseteq Task
         /\ edges \subseteq Node \X Task => \A t \in Cascade(seeds) : Cancellable(t)
         /\ \A t \in seeds : Cancellable(t) => t \in Cascade(seeds)
         /\ edges \subseteq Node \X Task =>
              \A d \in Cascade(seeds), t \in Task :
                <<d, t>> \in edges /\ Cancellable(t) => t \in Cascade(seeds)
<1>1. Cascade(seeds) \subseteq Task
  BY DEF Cascade
<1>2. \A t \in seeds : Cancellable(t) => t \in Cascade(seeds)
  BY DEF Cascade
<1>3. ASSUME edges \subseteq Node \X Task,
             NEW d \in Cascade(seeds), NEW t \in Task, <<d, t>> \in edges, Cancellable(t)
      PROVE  t \in Cascade(seeds)
  <2>. SUFFICES ASSUME NEW U \in SUBSET Task,
                       \A s \in seeds : Cancellable(s) => s \in U,
                       \A e \in edges : e[1] \in U /\ Cancellable(e[2]) => e[2] \in U
                PROVE  t \in U
    BY <1>3 DEF Cascade
  <2>1. d \in U
    BY DEF Cascade
  <2>2. <<d, t>>[1] \in U /\ Cancellable(<<d, t>>[2]) => <<d, t>>[2] \in U
    BY <1>3
  <2>3. <<d, t>>[1] = d /\ <<d, t>>[2] = t
    OBVIOUS
  <2>. QED
    BY <1>3, <2>1, <2>2, <2>3
<1>4. ASSUME NEW t \in Cascade(seeds), edges \subseteq Node \X Task
      PROVE  Cancellable(t)
  <2>. DEFINE U == {u \in Task : Cancellable(u)}
  <2>1. \A s \in seeds : Cancellable(s) => s \in U
    OBVIOUS
  <2>2. \A e \in edges : e[1] \in U /\ Cancellable(e[2]) => e[2] \in U
    BY <1>4
  <2>3. U \in SUBSET Task
    OBVIOUS
  <2>4. t \in U
    BY <2>1, <2>2, <2>3 DEF Cascade
  <2>. QED
    BY <2>4
<1>. QED
  BY <1>1, <1>2, <1>3, <1>4

-----------------------------------------------------------------------------
(* What a step leaves alone stays sound. *)

LEMMA SameGraph ==
  ASSUME TaskInv, UNCHANGED <<status, finalizing, pending, edges, remaining, declared>>
  PROVE  EdgesSound' /\ CountsSound' /\ DeclaredSound'
<1>1. EdgesSound'
  BY DEF TaskInv, EdgesSound, Live, Accepted, IsTerminal
<1>2. CountsSound'
  BY DEF TaskInv, CountsSound, Preds
<1>3. DeclaredSound'
  BY DEF TaskInv, DeclaredSound
<1>. QED
  BY <1>1, <1>2, <1>3

LEMMA SameGroups ==
  ASSUME TaskInv, UNCHANGED <<status, finalizing, pending, admitted>>,
         UNCHANGED <<gOutstanding, gSealed, gQueued, gOutcome, gFirstFailure>>
  PROVE  GroupsSound' /\ VerdictsSound' /\ ClosedGroupDrains'
<1>1. GroupsSound'
  BY DEF TaskInv, GroupsSound, Accepted
<1>2. VerdictsSound'
  BY DEF TaskInv, VerdictsSound, Verdict, IsTerminal
<1>3. ClosedGroupDrains'
  BY DEF TaskInv, ClosedGroupDrains
<1>. QED
  BY <1>1, <1>2, <1>3

LEMMA SameMembers ==
  ASSUME TaskInv, UNCHANGED <<status, captures, member, admitted, gOutstanding>>
  PROVE  MembersSound'
<1>1. \A g \in Group : MembersOf(g)' = MembersOf(g)
  BY DEF MembersOf
<1>. QED
  BY <1>1 DEF TaskInv, MembersSound, Live, Accepted, IsTerminal

LEMMA SameThreads ==
  ASSUME TaskInv, UNCHANGED <<status, finalizing, captures>>
  PROVE  /\ UNCHANGED <<pc, cur>> => WorkersSound' /\ HostsSound'
         /\ UNCHANGED <<batch, slot>> => EndersSound'
         /\ UNCHANGED undo => UndoSound'
<1>1. UNCHANGED <<pc, cur>> => WorkersSound' /\ HostsSound'
  BY DEF TaskInv, WorkersSound, HostsSound
<1>2. UNCHANGED <<batch, slot>> => EndersSound'
  BY DEF TaskInv, EndersSound, Holds, Ending, IsTerminal
<1>3. UNCHANGED undo => UndoSound'
  BY DEF TaskInv, UndoSound
<1>. QED
  BY <1>1, <1>2, <1>3

LEMMA SameNodes ==
  ASSUME TaskInv, UNCHANGED <<status, finalizing, pending, captures>>
  PROVE  NodesSound' /\ TasksSound'
BY DEF TaskInv, NodesSound, TasksSound, Accepted, IsTerminal

Unretired == {n \in Node : Accepted(n) /\ ~ IsTerminal(n)}
Undoing   == {th \in Thread : undo[th] # None}

LEMMA SameRegistry ==
  ASSUME TaskInv, UNCHANGED <<status, undo, outstanding>>
  PROVE  /\ OutstandingIsUnretired'
         /\ UNCHANGED active => RegistryReachesLive'
         /\ active' = CommitActive({}) => RegistryReachesLive'
<1>1. Unretired' = Unretired /\ Undoing' = Undoing
  BY DEF Unretired, Undoing, Accepted, IsTerminal
<1>2. OutstandingIsUnretired'
  BY <1>1 DEF TaskInv, OutstandingIsUnretired, Unretired, Undoing
<1>3. UNCHANGED active => RegistryReachesLive'
  BY DEF TaskInv, RegistryReachesLive, Accepted, IsTerminal
<1>4. active' = CommitActive({}) => RegistryReachesLive'
  BY DEF TaskInv, RegistryReachesLive, Accepted, IsTerminal, CommitActive, DrainRetired
<1>. QED
  BY <1>2, <1>3, <1>4

-----------------------------------------------------------------------------
(* The steps that touch no node. *)

LEMMA StuttersKeeps ==
  ASSUME TaskInv, UNCHANGED vars
  PROVE  TaskInv'
<1>1. /\ UNCHANGED <<status, finalizing, pending, captures>>
      /\ UNCHANGED <<status, finalizing, captures>>
      /\ UNCHANGED <<status, finalizing, pending, admitted>>
      /\ UNCHANGED <<gOutstanding, gSealed, gQueued, gOutcome, gFirstFailure>>
      /\ UNCHANGED <<status, finalizing, pending, edges, remaining, declared>>
      /\ UNCHANGED <<status, captures, member, admitted, gOutstanding>>
      /\ UNCHANGED <<status, undo, outstanding>> /\ UNCHANGED active
      /\ UNCHANGED <<pc, cur>> /\ UNCHANGED <<batch, slot>> /\ UNCHANGED undo
  BY DEF vars, graph, groups, registry, threads, history
<1>2. TypeOK'
  BY DEF TaskInv, TypeOK, vars, graph, groups, registry, threads, history
<1>. QED
  BY <1>1, <1>2, SameGraph, SameGroups, SameMembers, SameThreads, SameNodes, SameRegistry
  DEF TaskInv

(* Retired records are forgotten. *)
LEMMA DrainKeeps ==
  ASSUME TaskInv, NEW th \in Thread, SubmitRejected(th) \/ WaitIdle(th)
  PROVE  TaskInv'
<1>1. /\ UNCHANGED <<status, finalizing, pending, captures>>
      /\ UNCHANGED <<status, finalizing, captures>>
      /\ UNCHANGED <<status, finalizing, pending, admitted>>
      /\ UNCHANGED <<gOutstanding, gSealed, gQueued, gOutcome, gFirstFailure>>
      /\ UNCHANGED <<status, finalizing, pending, edges, remaining, declared>>
      /\ UNCHANGED <<status, captures, member, admitted, gOutstanding>>
      /\ UNCHANGED <<status, undo, outstanding>> /\ active' = CommitActive({})
      /\ UNCHANGED <<pc, cur>> /\ UNCHANGED <<batch, slot>> /\ UNCHANGED undo
      /\ retired' = {} /\ UNCHANGED <<stopping, ready, gSealed, member, edges, remaining>>
  BY DEF SubmitRejected, WaitIdle, graph, groups, threads, history
<1>2. TypeOK'
  <2>1. active' \subseteq Node /\ retired' \subseteq Node
    BY <1>1 DEF TaskInv, TypeOK, CommitActive, DrainRetired
  <2>. QED
    BY <1>1, <2>1 DEF TaskInv, TypeOK
<1>. QED
  BY <1>1, <1>2, SameGraph, SameGroups, SameMembers, SameThreads, SameNodes, SameRegistry
  DEF TaskInv

(* Cancel has tested its task, the stopping host has joined, a worker leaves. *)
LEMMA GoesKeeps ==
  ASSUME TaskInv, NEW th \in Thread,
         \/ \E t \in Task : CancelTest(th, t)
         \/ Joined(th)
         \/ th \in Worker /\ WorkerExits(th)
  PROVE  TaskInv'
<1>1. /\ UNCHANGED <<status, finalizing, pending, captures>>
      /\ UNCHANGED <<status, finalizing, captures>>
      /\ UNCHANGED <<status, finalizing, pending, admitted>>
      /\ UNCHANGED <<gOutstanding, gSealed, gQueued, gOutcome, gFirstFailure>>
      /\ UNCHANGED <<status, finalizing, pending, edges, remaining, declared>>
      /\ UNCHANGED <<status, captures, member, admitted, gOutstanding>>
      /\ UNCHANGED <<status, undo, outstanding>> /\ UNCHANGED active
      /\ UNCHANGED <<batch, slot>> /\ UNCHANGED undo
      /\ UNCHANGED <<retired, stopping, ready>>
  BY DEF CancelTest, Joined, WorkerExits, graph, groups, registry, threads, history
<1>2. PICK l, c : /\ pc' = [pc EXCEPT ![th] = l] /\ cur' = [cur EXCEPT ![th] = c]
                  /\ \/ th \in Host /\ l = "cancelling" /\ c \in Task
                     \/ th \in Host /\ l = "joined" /\ c = cur[th]
                     \/ th \in Worker /\ l = "exited" /\ c = cur[th] /\ pc[th] = "idle"
  <2>1. ASSUME NEW t \in Task, CancelTest(th, t)
        PROVE  /\ pc' = [pc EXCEPT ![th] = "cancelling"] /\ cur' = [cur EXCEPT ![th] = t]
               /\ th \in Host
    BY <2>1 DEF CancelTest
  <2>2. ASSUME Joined(th)
        PROVE  /\ pc' = [pc EXCEPT ![th] = "joined"] /\ cur' = [cur EXCEPT ![th] = cur[th]]
               /\ th \in Host
    <3>1. th \notin Worker
      BY <2>2 DEF Joined, TaskInv, WorkersSound
    <3>. QED
      BY <2>2, <3>1 DEF Joined, TaskInv, TypeOK, Thread
  <2>3. ASSUME WorkerExits(th)
        PROVE  /\ pc' = [pc EXCEPT ![th] = "exited"] /\ cur' = [cur EXCEPT ![th] = cur[th]]
               /\ pc[th] = "idle"
    BY <2>3 DEF WorkerExits, Idle, TaskInv, TypeOK
  <2>. QED
    BY <2>1, <2>2, <2>3
<1>3. /\ pc \in [Thread -> {"calling", "cancelling", "joining", "joined",
                            "idle", "destroying", "completing", "exited"}]
      /\ cur \in [Thread -> Task \cup {None}]
  BY DEF TaskInv, TypeOK
<1>4. /\ pc' \in [Thread -> {"calling", "cancelling", "joining", "joined",
                            "idle", "destroying", "completing", "exited"}]
      /\ cur' \in [Thread -> Task \cup {None}]
  BY <1>2, <1>3
<1>5. TypeOK'
  BY <1>1, <1>4 DEF TaskInv, TypeOK
<1>6. WorkersSound'
  <2>1. \A w \in Worker : cur'[w] = cur[w] /\ (pc'[w] = pc[w] \/ (pc[w] = "idle" /\ pc'[w] = "exited"))
    BY <1>2, <1>3, Distinct
  <2>. QED
    BY <1>1, <2>1 DEF TaskInv, WorkersSound
<1>7. HostsSound'
  <2>1. \A h \in Host : h \in Thread
    BY Distinct
  <2>. QED
    BY <1>2, <1>3, <2>1, Distinct DEF TaskInv, HostsSound
<1>. QED
  BY <1>1, <1>5, <1>6, <1>7, SameGraph, SameGroups, SameMembers, SameThreads, SameNodes,
     SameRegistry
  DEF TaskInv

-----------------------------------------------------------------------------
(* Groups are created. *)

LEMMA CreateKeeps ==
  ASSUME TaskInv, NEW th \in Thread, NEW g \in Group, CreateTaskGroup(th, g)
  PROVE  TaskInv'
<1>1. /\ UNCHANGED <<finalizing, pending, captures, edges, remaining>>
      /\ UNCHANGED <<member, gOutstanding, gSealed, gQueued, gOutcome, gFirstFailure>>
      /\ UNCHANGED <<retired, stopping, ready, batch, slot, pc, cur, undo, declared, admitted>>
      /\ active' = active \cup {g} /\ outstanding' = outstanding + 1
      /\ status[g] = "CREATED"
  BY DEF CreateTaskGroup, graph, groups, threads, history
<1>2. /\ g \in Node /\ g \notin Task
      /\ status'[g] = "WAITING"
      /\ \A n \in Node : n # g => status'[n] = status[n]
      /\ \A t \in Task : t \in Node /\ status'[t] = status[t]
  BY Distinct DEF CreateTaskGroup, TaskInv, TypeOK
<1>3. ~ finalizing[g] /\ ~ gQueued[g]
  BY <1>1, <1>2 DEF TaskInv, NodesSound, GroupsSound, Accepted
<1>4. TypeOK'
  <2>1. status' \in [Node -> Status]
    BY DEF CreateTaskGroup, TaskInv, TypeOK, Status
  <2>2. active' \subseteq Node /\ outstanding' \in Nat
    BY <1>1, <1>2 DEF TaskInv, TypeOK
  <2>. QED
    BY <1>1, <2>1, <2>2 DEF TaskInv, TypeOK
<1>5. NodesSound' /\ TasksSound'
  <2>1. NodesSound'
    BY <1>1, <1>2, <1>3 DEF TaskInv, NodesSound, Accepted, IsTerminal, Terminal
  <2>2. TasksSound'
    BY <1>1, <1>2 DEF TaskInv, TasksSound, IsTerminal
  <2>. QED
    BY <2>1, <2>2
<1>6. WorkersSound' /\ HostsSound'
  <2>1. WorkersSound'
    <3>1. \A w \in Worker : cur[w] # None => status'[cur[w]] = status[cur[w]]
      BY <1>2, Distinct DEF TaskInv, TypeOK
    <3>. QED
      BY <1>1, <1>2, <3>1 DEF TaskInv, WorkersSound
  <2>. QED
    BY <1>1, <2>1 DEF TaskInv, HostsSound
<1>7. EndersSound'
  <2>1. \A n \in Node : /\ Ending(n)' <=> Ending(n)
                        /\ Ending(n) => status'[n] = status[n]
    BY <1>1, <1>2, <1>3 DEF Ending, IsTerminal
  <2>2. \A ti \in Thread, n \in Node : Holds(ti, n)' <=> Holds(ti, n)
    BY <1>1 DEF Holds
  <2>. QED
    BY <1>1, <2>1, <2>2 DEF TaskInv, EndersSound
<1>8. UndoSound'
  <2>1. \A ti \in Thread : undo[ti] # None => status'[undo[ti]] = status[undo[ti]]
    BY <1>2, Distinct DEF TaskInv, TypeOK
  <2>. QED
    BY <1>1, <1>2, <2>1 DEF TaskInv, UndoSound
<1>9. EdgesSound' /\ CountsSound' /\ DeclaredSound'
  <2>1. \A n \in Node : Live(n) => Live(n)'
    BY <1>1, <1>2 DEF Live, Accepted, IsTerminal, Terminal
  <2>2. EdgesSound'
    BY <1>1, <1>2, <2>1 DEF TaskInv, EdgesSound
  <2>3. CountsSound'
    BY <1>1, <1>2 DEF TaskInv, CountsSound, Preds
  <2>4. DeclaredSound'
    BY <1>1, <1>2 DEF TaskInv, TypeOK, DeclaredSound
  <2>. QED
    BY <2>2, <2>3, <2>4
<1>10. MembersSound'
  <2>1. \A h \in Group : MembersOf(h)' = MembersOf(h)
    BY <1>1 DEF MembersOf
  <2>2. \A t \in Task : member[t] # None => status'[member[t]] # "CREATED"
    BY <1>2, Distinct DEF TaskInv, TypeOK, MembersSound, Accepted
  <2>. QED
    BY <1>1, <1>2, <2>1, <2>2 DEF TaskInv, MembersSound, Live, Accepted, IsTerminal
<1>11. GroupsSound' /\ VerdictsSound' /\ ClosedGroupDrains'
  <2>1. GroupsSound'
    BY <1>1, <1>2, Distinct DEF TaskInv, GroupsSound, Accepted
  <2>2. VerdictsSound'
    BY <1>1, <1>2 DEF TaskInv, VerdictsSound, Verdict, IsTerminal
  <2>3. ClosedGroupDrains'
    BY <1>1, <1>2 DEF TaskInv, ClosedGroupDrains
  <2>. QED
    BY <2>1, <2>2, <2>3
<1>12. RegistryReachesLive'
  BY <1>1, <1>2 DEF TaskInv, RegistryReachesLive, Accepted, IsTerminal
<1>13. OutstandingIsUnretired'
  <2>1. g \notin Unretired /\ Unretired' = Unretired \cup {g} /\ Undoing' = Undoing
    BY <1>1, <1>2 DEF Unretired, Undoing, Accepted, IsTerminal, Terminal
  <2>2. IsFiniteSet(Unretired) /\ Cardinality(Undoing) \in Nat
    BY NodesFinite DEF Unretired, Undoing
  <2>3. outstanding = Cardinality(Unretired) + Cardinality(Undoing)
    BY DEF TaskInv, OutstandingIsUnretired, Unretired, Undoing
  <2>4. outstanding' = Cardinality(Unretired') + Cardinality(Undoing')
    <3>. HIDE DEF Unretired, Undoing
    <3>. QED
      BY <1>1, <2>1, <2>2, <2>3, AddOne
  <2>. QED
    BY <2>4 DEF OutstandingIsUnretired, Unretired, Undoing
<1>. QED
  BY <1>4, <1>5, <1>6, <1>7, <1>8, <1>9, <1>10, <1>11, <1>12, <1>13 DEF TaskInv

-----------------------------------------------------------------------------
(* A task is run. *)

LEMMA DropsKeeps ==
  ASSUME TaskInv, NEW w \in Worker, NEW t \in Task, Claim(w, t), ~ Claimable(t)
  PROVE  TaskInv'
<1>1. /\ UNCHANGED <<status, finalizing, pending, captures>>
      /\ UNCHANGED <<status, finalizing, captures>>
      /\ UNCHANGED <<status, finalizing, pending, admitted>>
      /\ UNCHANGED <<gOutstanding, gSealed, gQueued, gOutcome, gFirstFailure>>
      /\ UNCHANGED <<status, finalizing, pending, edges, remaining, declared>>
      /\ UNCHANGED <<status, captures, member, admitted, gOutstanding>>
      /\ UNCHANGED <<status, undo, outstanding>> /\ UNCHANGED active
      /\ UNCHANGED <<pc, cur>> /\ UNCHANGED <<batch, slot>> /\ UNCHANGED undo
      /\ UNCHANGED <<retired, stopping>> /\ ready' = ready \ {t}
  BY DEF Claim, graph, groups, registry, history
<1>2. TypeOK'
  BY <1>1 DEF TaskInv, TypeOK
<1>. QED
  BY <1>1, <1>2, SameGraph, SameGroups, SameMembers, SameThreads, SameNodes, SameRegistry
  DEF TaskInv

LEMMA ClaimKeeps ==
  ASSUME TaskInv, NEW w \in Worker, NEW t \in Task, Claim(w, t), Claimable(t)
  PROVE  TaskInv'
<1>1. /\ UNCHANGED <<finalizing, pending, edges, remaining>>
      /\ UNCHANGED <<member, gOutstanding, gSealed, gQueued, gOutcome, gFirstFailure>>
      /\ UNCHANGED <<active, outstanding, retired, stopping, batch, slot, undo, declared, admitted>>
      /\ ready' = ready \ {t} /\ pc[w] = "idle"
  BY DEF Claim, Idle, graph, groups, registry, history
<1>2. /\ t \in Node /\ t \notin Group /\ t # None /\ w \in Thread /\ w \notin Host
      /\ status[t] = "READY" /\ ~ finalizing[t]
      /\ status'[t] = "RUNNING" /\ captures'[t] = "taken"
      /\ \A n \in Node : n # t => status'[n] = status[n]
      /\ \A u \in Task : u # t => captures'[u] = captures[u]
      /\ pc'[w] = "calling" /\ cur'[w] = t
      /\ \A th \in Thread : th # w => pc'[th] = pc[th] /\ cur'[th] = cur[th]
  BY Distinct DEF Claim, Claimable, TaskInv, TypeOK
<1>3. cur[w] = None
  BY <1>1 DEF TaskInv, WorkersSound
<1>4. TypeOK'
  <2>1. status' \in [Node -> Status]
    BY DEF Claim, Claimable, TaskInv, TypeOK, Status
  <2>2. captures' \in [Task -> {"none", "stored", "taken", "destroyed"}]
    BY DEF Claim, Claimable, TaskInv, TypeOK
  <2>3. /\ pc' \in [Thread -> {"calling", "cancelling", "joining", "joined",
                               "idle", "destroying", "completing", "exited"}]
        /\ cur' \in [Thread -> Task \cup {None}]
    BY DEF Claim, Claimable, TaskInv, TypeOK
  <2>. QED
    BY <1>1, <2>1, <2>2, <2>3 DEF TaskInv, TypeOK
<1>5. NodesSound' /\ TasksSound'
  <2>1. NodesSound'
    BY <1>1, <1>2 DEF TaskInv, NodesSound, Accepted, IsTerminal, Terminal
  <2>2. TasksSound'
    BY <1>1, <1>2, Distinct DEF TaskInv, TasksSound, IsTerminal, Terminal
  <2>. QED
    BY <2>1, <2>2
<1>6. WorkersSound' /\ HostsSound'
  <2>1. \A v \in Worker : v \in Thread
    BY Distinct
  <2>2. \A v \in Worker : cur[v] # t
    BY <1>2 DEF TaskInv, WorkersSound
  <2>3. \A v \in Worker : v # w /\ cur[v] # None =>
          cur[v] \in Task /\ status'[cur[v]] = status[cur[v]] /\ captures'[cur[v]] = captures[cur[v]]
    BY <1>2, <2>1, <2>2, Distinct DEF TaskInv, TypeOK
  <2>4. \A v \in Worker :
          /\ pc'[v] \in {"idle", "calling", "destroying", "completing", "exited"}
          /\ cur'[v] # None <=> pc'[v] \in {"calling", "destroying", "completing"}
          /\ cur'[v] # None => /\ status'[cur'[v]] = "RUNNING"
                               /\ finalizing'[cur'[v]] <=> pc'[v] # "calling"
          /\ pc'[v] = "completing" => captures'[cur'[v]] = "destroyed"
    <3>. TAKE v \in Worker
    <3>1. CASE v = w
      BY <1>1, <1>2, <3>1
    <3>2. CASE v # w
      <4>1. pc'[v] = pc[v] /\ cur'[v] = cur[v]
        BY <1>2, <2>1, <3>2
      <4>. QED
        BY <1>1, <2>3, <3>2, <4>1 DEF TaskInv, WorkersSound
    <3>. QED
      BY <3>1, <3>2
  <2>5. \A u, v \in Worker : cur'[u] = cur'[v] /\ cur'[u] # None => u = v
    BY <1>2, <1>3, <2>1, <2>2 DEF TaskInv, WorkersSound
  <2>6. \A u \in Task : status'[u] = "RUNNING" => \E v \in Worker : cur'[v] = u
    <3>. SUFFICES ASSUME NEW u \in Task, status'[u] = "RUNNING", u # t
                  PROVE  \E v \in Worker : cur'[v] = u
      BY <1>2
    <3>1. status[u] = "RUNNING"
      BY <1>2, Distinct
    <3>2. PICK v \in Worker : cur[v] = u
      BY <3>1 DEF TaskInv, WorkersSound
    <3>. QED
      BY <1>2, <1>3, <2>1, <3>2, Distinct
  <2>7. HostsSound'
    BY <1>2, Distinct DEF TaskInv, HostsSound
  <2>. QED
    BY <2>4, <2>5, <2>6, <2>7 DEF WorkersSound
<1>7. EndersSound'
  <2>1. \A n \in Node : /\ Ending(n)' <=> Ending(n)
                        /\ Ending(n) => status'[n] = status[n]
    BY <1>1, <1>2 DEF Ending, IsTerminal, Terminal
  <2>2. \A ti \in Thread, n \in Node : Holds(ti, n)' <=> Holds(ti, n)
    BY <1>1 DEF Holds
  <2>3. \A ti \in Thread : slot[ti] # t
    BY <1>2 DEF TaskInv, EndersSound, Holds, Ending
  <2>. QED
    BY <1>1, <1>2, <2>1, <2>2, <2>3 DEF TaskInv, EndersSound
<1>8. UndoSound'
  <2>1. \A ti \in Thread : undo[ti] # None =>
          status'[undo[ti]] = status[undo[ti]] /\ captures'[undo[ti]] = captures[undo[ti]]
    BY <1>2, Distinct DEF TaskInv, TypeOK, UndoSound
  <2>. QED
    BY <1>1, <1>2, <2>1, Distinct DEF TaskInv, UndoSound
<1>9. EdgesSound' /\ CountsSound' /\ DeclaredSound'
  <2>1. \A n \in Node : Live(n) => Live(n)'
    BY <1>1, <1>2 DEF Live, Accepted, IsTerminal, Terminal
  <2>2. EdgesSound'
    BY <1>1, <1>2, <2>1, Distinct DEF TaskInv, EdgesSound
  <2>3. CountsSound'
    BY <1>1, <1>2, Distinct DEF TaskInv, CountsSound, Preds
  <2>4. DeclaredSound'
    <3>1. \A n \in Node : status[n] = "COMPLETED" => status'[n] = "COMPLETED"
      BY <1>2
    <3>2. \A u \in Task : declared[u] \subseteq Node
      BY DEF TaskInv, TypeOK
    <3>. QED
      BY <1>1, <3>1, <3>2 DEF TaskInv, DeclaredSound
  <2>. QED
    BY <2>2, <2>3, <2>4
<1>10. MembersSound'
  <2>1. \A h \in Group : MembersOf(h)' = MembersOf(h)
    BY <1>1 DEF MembersOf
  <2>2. \A u \in Task : member[u] # None => status'[member[u]] # "CREATED"
    BY <1>2, Distinct DEF TaskInv, TypeOK, MembersSound, Accepted
  <2>3. \A u \in Task : (Live(u)' <=> Live(u)) /\ (status'[u] = "CREATED" => status[u] = "CREATED")
    BY <1>2, Distinct DEF Live, Accepted, IsTerminal, Terminal
  <2>. QED
    BY <1>1, <1>2, <2>1, <2>2, <2>3 DEF TaskInv, MembersSound, Accepted
<1>11. GroupsSound' /\ VerdictsSound' /\ ClosedGroupDrains'
  <2>1. GroupsSound'
    BY <1>1, <1>2, Distinct DEF TaskInv, GroupsSound, Accepted
  <2>2. VerdictsSound'
    BY <1>1, <1>2, Distinct DEF TaskInv, VerdictsSound, Verdict, IsTerminal, Terminal
  <2>3. ClosedGroupDrains'
    BY <1>1, <1>2, Distinct DEF TaskInv, ClosedGroupDrains
  <2>. QED
    BY <2>1, <2>2, <2>3
<1>12. RegistryReachesLive' /\ OutstandingIsUnretired'
  <2>1. \A n \in Node : Live(n)' <=> Live(n)
    BY <1>1, <1>2 DEF Live, Accepted, IsTerminal, Terminal
  <2>2. Unretired' = Unretired /\ Undoing' = Undoing
    BY <1>1, <2>1 DEF Unretired, Undoing, Live
  <2>. QED
    BY <1>1, <2>1, <2>2
    DEF TaskInv, RegistryReachesLive, OutstandingIsUnretired, Unretired, Undoing, Live
<1>. QED
  BY <1>4, <1>5, <1>6, <1>7, <1>8, <1>9, <1>10, <1>11, <1>12 DEF TaskInv

(* The callable has returned, or thrown. *)
LEMMA FinishKeeps ==
  ASSUME TaskInv, NEW w \in Worker, NEW st \in {"COMPLETED", "FAILED"}, FinishCallable(w, st)
  PROVE  TaskInv'
<1>. DEFINE t == cur[w]
<1>1. /\ UNCHANGED <<status, captures, edges, remaining>>
      /\ UNCHANGED <<member, gOutstanding, gSealed, gQueued, gOutcome, gFirstFailure>>
      /\ UNCHANGED <<active, outstanding, retired, stopping, batch, slot, cur, undo>>
      /\ UNCHANGED <<ready, declared, admitted>>
      /\ UNCHANGED <<status, captures, member, admitted, gOutstanding>>
      /\ UNCHANGED <<status, undo, outstanding>>
      /\ pc[w] = "calling"
  BY DEF FinishCallable, CanCall, graph, groups, registry, history
<1>2. t \in Task /\ status[t] = "RUNNING" /\ ~ finalizing[t] /\ w \in Thread
  BY <1>1, Distinct DEF TaskInv, TypeOK, WorkersSound
<1>3. /\ t \in Node /\ t \notin Group /\ w \notin Host
      /\ finalizing'[t] = TRUE /\ pending'[t] = st /\ pc'[w] = "destroying"
      /\ \A n \in Node : n # t => finalizing'[n] = finalizing[n] /\ pending'[n] = pending[n]
      /\ \A th \in Thread : th # w => pc'[th] = pc[th]
  BY <1>2, Distinct DEF FinishCallable, TaskInv, TypeOK
<1>4. TypeOK'
  <2>1. finalizing' \in [Node -> BOOLEAN] /\ pending' \in [Node -> Status]
    BY DEF FinishCallable, TaskInv, TypeOK, Status, Terminal
  <2>2. pc' \in [Thread -> {"calling", "cancelling", "joining", "joined",
                            "idle", "destroying", "completing", "exited"}]
    BY DEF FinishCallable, TaskInv, TypeOK
  <2>. QED
    BY <1>1, <2>1, <2>2 DEF TaskInv, TypeOK
<1>. HIDE DEF t
<1>5. NodesSound' /\ TasksSound'
  <2>1. NodesSound'
    BY <1>1, <1>2, <1>3 DEF TaskInv, NodesSound, Accepted, IsTerminal, Terminal
  <2>2. TasksSound'
    BY <1>1, <1>2, <1>3, Distinct DEF TaskInv, TasksSound, IsTerminal, Terminal
  <2>. QED
    BY <2>1, <2>2
<1>6. WorkersSound' /\ HostsSound'
  <2>1. \A v \in Worker : v \in Thread
    BY Distinct
  <2>2. \A v \in Worker : v # w /\ cur[v] # None => finalizing'[cur[v]] = finalizing[cur[v]]
    BY <1>2, <1>3, <2>1, Distinct DEF TaskInv, TypeOK, WorkersSound, t
  <2>3. \A v \in Worker :
          /\ pc'[v] \in {"idle", "calling", "destroying", "completing", "exited"}
          /\ cur[v] # None <=> pc'[v] \in {"calling", "destroying", "completing"}
          /\ cur[v] # None => /\ status[cur[v]] = "RUNNING"
                              /\ finalizing'[cur[v]] <=> pc'[v] # "calling"
          /\ pc'[v] = "completing" => captures[cur[v]] = "destroyed"
    <3>. TAKE v \in Worker
    <3>1. CASE v = w
      BY <1>1, <1>2, <1>3, <3>1, Distinct DEF TaskInv, WorkersSound, t
    <3>2. CASE v # w
      <4>1. pc'[v] = pc[v]
        BY <1>3, <2>1, <3>2
      <4>. QED
        BY <2>2, <3>2, <4>1 DEF TaskInv, WorkersSound
    <3>. QED
      BY <3>1, <3>2
  <2>4. WorkersSound'
    BY <1>1, <2>3 DEF TaskInv, WorkersSound
  <2>5. HostsSound'
    BY <1>1, <1>3, Distinct DEF TaskInv, HostsSound
  <2>. QED
    BY <2>4, <2>5
<1>7. EndersSound'
  <2>1. \A n \in Node : n # t => (Ending(n)' <=> Ending(n))
    BY <1>1, <1>3 DEF Ending, IsTerminal
  <2>2. \A ti \in Thread, n \in Node : Holds(ti, n)' <=> Holds(ti, n)
    BY <1>1 DEF Holds
  <2>3. \A ti \in Thread : ~ Holds(ti, t)
    BY <1>2, <1>3 DEF TaskInv, EndersSound
  <2>. QED
    BY <1>1, <1>2, <2>1, <2>2, <2>3 DEF TaskInv, EndersSound
<1>8. UndoSound'
  BY <1>1 DEF TaskInv, UndoSound
<1>9. EdgesSound' /\ CountsSound' /\ DeclaredSound'
  <2>2. EdgesSound'
    BY <1>1, <1>2, <1>3, Distinct DEF TaskInv, EdgesSound, Live, Accepted, IsTerminal
  <2>3. CountsSound'
    BY <1>1, <1>2, <1>3, Distinct DEF TaskInv, CountsSound, Preds
  <2>4. DeclaredSound'
    BY <1>1, <1>2, <1>3, Distinct DEF TaskInv, DeclaredSound
  <2>. QED
    BY <2>2, <2>3, <2>4
<1>10. GroupsSound' /\ VerdictsSound' /\ ClosedGroupDrains'
  <2>1. GroupsSound'
    BY <1>1, <1>3, Distinct DEF TaskInv, GroupsSound, Accepted
  <2>2. VerdictsSound'
    BY <1>1, <1>3, Distinct DEF TaskInv, VerdictsSound, Verdict, IsTerminal
  <2>3. ClosedGroupDrains'
    BY <1>1, <1>3, Distinct DEF TaskInv, ClosedGroupDrains
  <2>. QED
    BY <2>1, <2>2, <2>3
<1>. QED
  BY <1>1, <1>4, <1>5, <1>6, <1>7, <1>8, <1>9, <1>10, SameMembers, SameRegistry DEF TaskInv

(* Its captures are destroyed. *)
LEMMA DestroyKeeps ==
  ASSUME TaskInv, NEW w \in Worker, DestroyCallable(w)
  PROVE  TaskInv'
<1>. DEFINE t == cur[w]
<1>1. /\ UNCHANGED <<status, finalizing, pending, edges, remaining, declared>>
      /\ UNCHANGED <<status, finalizing, pending, admitted>>
      /\ UNCHANGED <<gOutstanding, gSealed, gQueued, gOutcome, gFirstFailure>>
      /\ UNCHANGED <<status, undo, outstanding>> /\ UNCHANGED active
      /\ UNCHANGED <<member, retired, stopping, ready, batch, slot, cur, undo>>
      /\ pc[w] = "destroying"
  BY DEF DestroyCallable, graph, groups, registry, history
<1>2. t \in Task /\ status[t] = "RUNNING" /\ finalizing[t] /\ w \in Thread /\ w \notin Host
  BY <1>1, Distinct DEF TaskInv, TypeOK, WorkersSound
<1>3. /\ captures'[t] = "destroyed" /\ pc'[w] = "completing"
      /\ \A u \in Task : u # t => captures'[u] = captures[u]
      /\ \A th \in Thread : th # w => pc'[th] = pc[th]
  BY <1>2 DEF DestroyCallable, TaskInv, TypeOK
<1>4. TypeOK'
  <2>1. captures' \in [Task -> {"none", "stored", "taken", "destroyed"}]
    BY DEF DestroyCallable, TaskInv, TypeOK
  <2>2. pc' \in [Thread -> {"calling", "cancelling", "joining", "joined",
                            "idle", "destroying", "completing", "exited"}]
    BY DEF DestroyCallable, TaskInv, TypeOK
  <2>. QED
    BY <1>1, <2>1, <2>2 DEF TaskInv, TypeOK
<1>. HIDE DEF t
<1>5. NodesSound' /\ TasksSound'
  BY <1>1, <1>2, <1>3 DEF TaskInv, NodesSound, TasksSound, Accepted, IsTerminal
<1>6. WorkersSound' /\ HostsSound'
  <2>1. \A v \in Worker : v \in Thread
    BY Distinct
  <2>2. \A v \in Worker : v # w /\ cur[v] # None => captures'[cur[v]] = captures[cur[v]]
    BY <1>2, <1>3, <2>1, Distinct DEF TaskInv, TypeOK, WorkersSound, t
  <2>3. \A v \in Worker :
          /\ pc'[v] \in {"idle", "calling", "destroying", "completing", "exited"}
          /\ cur[v] # None <=> pc'[v] \in {"calling", "destroying", "completing"}
          /\ cur[v] # None => /\ status[cur[v]] = "RUNNING"
                              /\ finalizing[cur[v]] <=> pc'[v] # "calling"
          /\ pc'[v] = "completing" => captures'[cur[v]] = "destroyed"
    <3>. TAKE v \in Worker
    <3>1. CASE v = w
      BY <1>1, <1>2, <1>3, <3>1, Distinct DEF TaskInv, WorkersSound, t
    <3>2. CASE v # w
      <4>1. pc'[v] = pc[v]
        BY <1>3, <2>1, <3>2
      <4>. QED
        BY <2>2, <3>2, <4>1 DEF TaskInv, WorkersSound
    <3>. QED
      BY <3>1, <3>2
  <2>4. WorkersSound'
    BY <1>1, <2>3 DEF TaskInv, WorkersSound
  <2>5. HostsSound'
    BY <1>1, <1>3, Distinct DEF TaskInv, HostsSound
  <2>. QED
    BY <2>4, <2>5
<1>7. EndersSound'
  <2>1. \A n \in Node : Ending(n)' <=> Ending(n)
    BY <1>1 DEF Ending, IsTerminal
  <2>2. \A ti \in Thread, n \in Node : Holds(ti, n)' <=> Holds(ti, n)
    BY <1>1 DEF Holds
  <2>. QED
    BY <1>1, <1>3, <2>1, <2>2 DEF TaskInv, EndersSound
<1>8. UndoSound'
  <2>1. \A ti \in Thread : undo[ti] # None => captures'[undo[ti]] = captures[undo[ti]]
    BY <1>2, <1>3 DEF TaskInv, TypeOK, UndoSound
  <2>. QED
    BY <1>1, <1>2, <1>3, <2>1 DEF TaskInv, UndoSound
<1>9. MembersSound'
  <2>1. \A h \in Group : MembersOf(h)' = MembersOf(h)
    BY <1>1 DEF MembersOf
  <2>. QED
    BY <1>1, <1>2, <1>3, <2>1 DEF TaskInv, MembersSound, Live, Accepted, IsTerminal
<1>. QED
  BY <1>1, <1>4, <1>5, <1>6, <1>7, <1>8, <1>9, SameGraph, SameGroups, SameRegistry DEF TaskInv

(* The captures of a node that did not run are destroyed. *)
LEMMA DestroyCapturesKeeps ==
  ASSUME TaskInv, NEW th \in Thread, NEW n \in Node, DestroyCaptures(th, n)
  PROVE  TaskInv'
<1>1. /\ UNCHANGED <<status, finalizing, pending, edges, remaining, declared>>
      /\ UNCHANGED <<status, finalizing, pending, admitted>>
      /\ UNCHANGED <<gOutstanding, gSealed, gQueued, gOutcome, gFirstFailure>>
      /\ UNCHANGED <<status, undo, outstanding>> /\ UNCHANGED active
      /\ UNCHANGED <<member, retired, stopping, ready, pc, cur, undo>>
      /\ n \in batch[th] /\ slot[th] = None
  BY DEF DestroyCaptures, graph, groups, registry, history
<1>2. Ending(n) /\ status[n] # "RUNNING" /\ status[n] # "CREATED" /\ n # None
  BY <1>1, Distinct DEF TaskInv, EndersSound, Holds, Ending, NodesSound, Accepted
<1>3. /\ n \in Task => captures'[n] = "destroyed"
      /\ \A u \in Task : u # n => captures'[u] = captures[u]
      /\ batch'[th] = batch[th] \ {n} /\ slot'[th] = n
      /\ \A ti \in Thread : ti # th => batch'[ti] = batch[ti] /\ slot'[ti] = slot[ti]
  BY DEF DestroyCaptures, TaskInv, TypeOK
<1>4. TypeOK'
  <2>1. captures' \in [Task -> {"none", "stored", "taken", "destroyed"}]
    BY DEF DestroyCaptures, TaskInv, TypeOK
  <2>2. batch' \in [Thread -> SUBSET Node] /\ slot' \in [Thread -> Node \cup {None}]
    BY DEF DestroyCaptures, TaskInv, TypeOK
  <2>. QED
    BY <1>1, <2>1, <2>2 DEF TaskInv, TypeOK
<1>5. NodesSound' /\ TasksSound'
  <2>1. NodesSound'
    BY <1>1 DEF TaskInv, NodesSound, Accepted, IsTerminal
  <2>2. TasksSound'
    BY <1>1, <1>2, <1>3 DEF TaskInv, TasksSound, Ending, IsTerminal
  <2>. QED
    BY <2>1, <2>2
<1>6. WorkersSound' /\ HostsSound'
  <2>1. \A v \in Worker : cur[v] # None => captures'[cur[v]] = captures[cur[v]]
    BY <1>2, <1>3, Distinct DEF TaskInv, TypeOK, WorkersSound
  <2>2. WorkersSound'
    BY <1>1, <2>1 DEF TaskInv, WorkersSound
  <2>. QED
    BY <1>1, <2>2 DEF TaskInv, HostsSound
<1>7. EndersSound'
  <2>1. \A m \in Node : Ending(m)' <=> Ending(m)
    BY <1>1 DEF Ending, IsTerminal
  <2>2. \A ti \in Thread, m \in Node : Holds(ti, m)' <=> Holds(ti, m)
    <3>. TAKE ti \in Thread, m \in Node
    <3>1. CASE ti = th
      BY <1>1, <1>3, <3>1, Distinct DEF Holds
    <3>2. CASE ti # th
      BY <1>3, <3>2 DEF Holds
    <3>. QED
      BY <3>1, <3>2
  <2>3. \A ti \in Thread : slot'[ti] \notin batch'[ti]
    BY <1>3 DEF TaskInv, EndersSound
  <2>4. \A ti \in Thread : slot'[ti] \in Task => captures'[slot'[ti]] = "destroyed"
    BY <1>3 DEF TaskInv, EndersSound
  <2>. QED
    BY <1>1, <2>1, <2>2, <2>3, <2>4 DEF TaskInv, EndersSound
<1>8. UndoSound'
  <2>1. \A ti \in Thread : undo[ti] # None => captures'[undo[ti]] = captures[undo[ti]]
    BY <1>2, <1>3 DEF TaskInv, TypeOK, UndoSound
  <2>. QED
    BY <1>1, <1>2, <1>3, <2>1 DEF TaskInv, UndoSound
<1>9. MembersSound'
  <2>1. \A h \in Group : MembersOf(h)' = MembersOf(h)
    BY <1>1 DEF MembersOf
  <2>. QED
    BY <1>1, <1>2, <1>3, <2>1 DEF TaskInv, MembersSound, Live, Accepted, IsTerminal
<1>. QED
  BY <1>1, <1>4, <1>5, <1>6, <1>7, <1>8, <1>9, SameGraph, SameGroups, SameRegistry DEF TaskInv

(* The captures of a submission that is rolled back are destroyed. *)
LEMMA RollbackPayloadKeeps ==
  ASSUME TaskInv, NEW th \in Thread, RollbackPayload(th)
  PROVE  TaskInv'
<1>. DEFINE t == undo[th]
<1>1. /\ UNCHANGED <<status, finalizing, pending, edges, remaining, declared>>
      /\ UNCHANGED <<status, finalizing, pending, admitted>>
      /\ UNCHANGED <<gOutstanding, gSealed, gQueued, gOutcome, gFirstFailure>>
      /\ UNCHANGED <<status, undo, outstanding>> /\ UNCHANGED active
      /\ UNCHANGED <<member, retired, stopping, ready, pc, cur, undo, batch, slot>>
      /\ t # None /\ captures[t] = "stored"
  BY DEF RollbackPayload, graph, groups, registry, threads, history
<1>2. t \in Task /\ status[t] = "CREATED"
  BY <1>1 DEF TaskInv, TypeOK, UndoSound
<1>3. /\ captures'[t] = "destroyed"
      /\ \A u \in Task : u # t => captures'[u] = captures[u]
  BY <1>2 DEF RollbackPayload, TaskInv, TypeOK
<1>4. TypeOK'
  <2>1. captures' \in [Task -> {"none", "stored", "taken", "destroyed"}]
    BY DEF RollbackPayload, TaskInv, TypeOK
  <2>. QED
    BY <1>1, <2>1 DEF TaskInv, TypeOK
<1>. HIDE DEF t
<1>5. NodesSound' /\ TasksSound'
  <2>1. NodesSound'
    BY <1>1 DEF TaskInv, NodesSound, Accepted, IsTerminal
  <2>2. TasksSound'
    BY <1>1, <1>2, <1>3 DEF TaskInv, TasksSound, IsTerminal, Terminal
  <2>. QED
    BY <2>1, <2>2
<1>6. WorkersSound' /\ HostsSound'
  <2>1. \A v \in Worker : cur[v] # None => captures'[cur[v]] = captures[cur[v]]
    BY <1>2, <1>3, Distinct DEF TaskInv, TypeOK, WorkersSound
  <2>2. WorkersSound'
    BY <1>1, <2>1 DEF TaskInv, WorkersSound
  <2>. QED
    BY <1>1, <2>2 DEF TaskInv, HostsSound
<1>7. EndersSound'
  <2>1. \A m \in Node : Ending(m)' <=> Ending(m)
    BY <1>1 DEF Ending, IsTerminal
  <2>2. \A ti \in Thread, m \in Node : Holds(ti, m)' <=> Holds(ti, m)
    BY <1>1 DEF Holds
  <2>. QED
    BY <1>1, <1>3, <2>1, <2>2 DEF TaskInv, EndersSound
<1>8. UndoSound'
  <2>1. \A ti \in Thread : undo[ti] # None => captures'[undo[ti]] \in {"stored", "destroyed"}
    BY <1>2, <1>3 DEF TaskInv, TypeOK, UndoSound
  <2>. QED
    BY <1>1, <1>2, <1>3, <2>1 DEF TaskInv, UndoSound
<1>9. MembersSound'
  <2>1. \A h \in Group : MembersOf(h)' = MembersOf(h)
    BY <1>1 DEF MembersOf
  <2>. QED
    BY <1>1, <1>2, <1>3, <2>1 DEF TaskInv, MembersSound, Live, Accepted, IsTerminal
<1>. QED
  BY <1>1, <1>4, <1>5, <1>6, <1>7, <1>8, <1>9, SameGraph, SameGroups, SameRegistry DEF TaskInv

-----------------------------------------------------------------------------
(* Submissions. *)

LEMMA AccountIs ==
  ASSUME TaskInv, NEW th \in Thread, NEW t \in Task, NEW g \in Group \cup {None},
         Fresh(t), MayAdmit(th, g), Account(t, g)
  PROVE  /\ outstanding' = outstanding + 1 /\ retired' = {}
         /\ member' \in [Task -> Group \cup {None}] /\ gOutstanding' \in [Group -> Nat]
         /\ member'[t] = g /\ \A u \in Task : u # t => member'[u] = member[u]
         /\ g # None => Accepted(g)
         /\ \A h \in Group : /\ gOutstanding'[h] = Cardinality(MembersOf(h)')
                             /\ gQueued[h] => gOutstanding'[h] = gOutstanding[h]
<1>1. /\ member'[t] = g /\ \A u \in Task : u # t => member'[u] = member[u]
      /\ member' \in [Task -> Group \cup {None}]
      /\ outstanding' = outstanding + 1 /\ retired' = {}
  BY DEF Account, TaskInv, TypeOK
<1>2. member[t] = None
  BY DEF Fresh, TaskInv, MembersSound
<1>3. g # None => Accepted(g) /\ ~ gQueued[g]
  BY DEF MayAdmit, AdmissionOpen
<1>4. ASSUME NEW h \in Group
      PROVE  /\ gOutstanding'[h] \in Nat /\ gOutstanding'[h] = Cardinality(MembersOf(h)')
             /\ h # g => gOutstanding'[h] = gOutstanding[h]
  <2>1. gOutstanding[h] = Cardinality(MembersOf(h)) /\ gOutstanding[h] \in Nat
    BY DEF TaskInv, MembersSound, TypeOK
  <2>2. CASE h = g
    <3>1. gOutstanding'[h] = gOutstanding[h] + 1
      BY <2>2 DEF Account
    <3>2. MembersOf(h)' = MembersOf(h) \cup {t} /\ t \notin MembersOf(h)
      BY <1>1, <1>2, <2>2, Distinct DEF MembersOf
    <3>3. IsFiniteSet(MembersOf(h))
      BY NodesFinite, Distinct DEF MembersOf
    <3>4. Cardinality(MembersOf(h) \cup {t}) = Cardinality(MembersOf(h)) + 1
      BY <3>2, <3>3, AddOne
    <3>. QED
      BY <2>1, <2>2, <3>1, <3>2, <3>4
  <2>3. CASE h # g
    <3>1. gOutstanding'[h] = gOutstanding[h]
      BY <2>3 DEF Account
    <3>2. MembersOf(h)' = MembersOf(h)
      BY <1>1, <1>2, <2>3, Distinct DEF MembersOf
    <3>. QED
      BY <2>1, <2>3, <3>1, <3>2
  <2>. QED
    BY <2>2, <2>3
<1>5. gOutstanding' \in [Group -> Nat]
  <2>1. gOutstanding' = [h \in Group |-> gOutstanding'[h]]
    BY DEF Account
  <2>. QED
    BY <1>4, <2>1
<1>6. \A h \in Group : gQueued[h] => h # g
  BY <1>3, Distinct
<1>7. \A h \in Group : /\ gOutstanding'[h] = Cardinality(MembersOf(h)')
                       /\ gQueued[h] => gOutstanding'[h] = gOutstanding[h]
  BY <1>4, <1>6
<1>. QED
  BY <1>1, <1>3, <1>5, <1>7

LEMMA SubmitFailsKeeps ==
  ASSUME TaskInv, NEW th \in Thread, NEW t \in Task, NEW g \in Group \cup {None},
         NEW deps \in SUBSET Node, SubmitFails(th, t, deps, g)
  PROVE  TaskInv'
<1>1. /\ UNCHANGED <<status, finalizing, pending, edges, remaining, declared>>
      /\ UNCHANGED <<status, finalizing, pending, admitted>>
      /\ UNCHANGED <<gSealed, gQueued, gOutcome, gFirstFailure>>
      /\ UNCHANGED <<stopping, ready, pc, cur, batch, slot>>
      /\ active' = CommitActive({})
      /\ Fresh(t) /\ MayAdmit(th, g) /\ Account(t, g)
  BY DEF SubmitFails, graph, history
<1>2. /\ status[t] = "CREATED" /\ captures[t] = "none" /\ undo[th] = None
      /\ captures'[t] = "stored" /\ undo'[th] = t /\ t # None
      /\ \A u \in Task : u # t => captures'[u] = captures[u]
      /\ \A ti \in Thread : ti # th => undo'[ti] = undo[ti]
  BY <1>1, Distinct DEF SubmitFails, Fresh, MayAdmit, CanCall, TaskInv, TypeOK
<1>3. /\ outstanding' = outstanding + 1 /\ retired' = {}
      /\ member' \in [Task -> Group \cup {None}] /\ gOutstanding' \in [Group -> Nat]
      /\ member'[t] = g /\ \A u \in Task : u # t => member'[u] = member[u]
      /\ g # None => Accepted(g)
      /\ \A h \in Group : /\ gOutstanding'[h] = Cardinality(MembersOf(h)')
                          /\ gQueued[h] => gOutstanding'[h] = gOutstanding[h]
  BY <1>1, AccountIs
<1>4. TypeOK'
  <2>1. captures' \in [Task -> {"none", "stored", "taken", "destroyed"}]
        /\ undo' \in [Thread -> Task \cup {None}]
    BY DEF SubmitFails, TaskInv, TypeOK
  <2>2. active' \subseteq Node /\ retired' \subseteq Node /\ outstanding' \in Nat
    BY <1>1, <1>3 DEF TaskInv, TypeOK, CommitActive
  <2>. QED
    BY <1>1, <1>3, <2>1, <2>2 DEF TaskInv, TypeOK
<1>5. NodesSound' /\ TasksSound'
  <2>1. NodesSound'
    BY <1>1 DEF TaskInv, NodesSound, Accepted, IsTerminal
  <2>2. TasksSound'
    BY <1>1, <1>2 DEF TaskInv, TasksSound, IsTerminal, Terminal
  <2>. QED
    BY <2>1, <2>2
<1>6. WorkersSound' /\ HostsSound'
  <2>1. \A v \in Worker : cur[v] # None => captures'[cur[v]] = captures[cur[v]]
    BY <1>2, Distinct DEF TaskInv, TypeOK, WorkersSound
  <2>2. WorkersSound'
    BY <1>1, <2>1 DEF TaskInv, WorkersSound
  <2>. QED
    BY <1>1, <2>2 DEF TaskInv, HostsSound
<1>7. EndersSound'
  <2>1. \A m \in Node : Ending(m)' <=> Ending(m)
    BY <1>1 DEF Ending, IsTerminal
  <2>2. \A ti \in Thread, m \in Node : Holds(ti, m)' <=> Holds(ti, m)
    BY <1>1 DEF Holds
  <2>3. \A ti \in Thread : slot[ti] \in Task => captures'[slot[ti]] = "destroyed"
    BY <1>2 DEF TaskInv, EndersSound
  <2>. QED
    BY <1>1, <2>1, <2>2, <2>3 DEF TaskInv, EndersSound
<1>8. UndoSound'
  <2>1. \A ti \in Thread : undo[ti] # None => undo[ti] # t /\ captures'[undo[ti]] = captures[undo[ti]]
    BY <1>2 DEF TaskInv, TypeOK, UndoSound
  <2>2. \A ti \in Thread : undo'[ti] # None =>
          status[undo'[ti]] = "CREATED" /\ captures'[undo'[ti]] \in {"stored", "destroyed"}
    BY <1>2, <2>1 DEF TaskInv, UndoSound
  <2>3. \A ti, tj \in Thread : undo'[ti] = undo'[tj] /\ undo'[ti] # None => ti = tj
    BY <1>2, <2>1 DEF TaskInv, UndoSound
  <2>4. \A u \in Task : status[u] = "CREATED" =>
          \/ captures'[u] \in {"none", "destroyed"}
          \/ captures'[u] = "stored" /\ \E ti \in Thread : undo'[ti] = u
    <3>. SUFFICES ASSUME NEW u \in Task, status[u] = "CREATED", u # t
                  PROVE  \/ captures'[u] \in {"none", "destroyed"}
                         \/ captures'[u] = "stored" /\ \E ti \in Thread : undo'[ti] = u
      BY <1>2
    <3>1. captures'[u] = captures[u]
      BY <1>2
    <3>2. ASSUME NEW ti \in Thread, undo[ti] = u
          PROVE  undo'[ti] = u
      BY <1>2, <3>2, Distinct
    <3>. QED
      BY <3>1, <3>2 DEF TaskInv, UndoSound
  <2>. QED
    BY <1>1, <2>2, <2>3, <2>4 DEF UndoSound
<1>9. MembersSound'
  BY <1>1, <1>2, <1>3 DEF TaskInv, MembersSound, Live, Accepted, IsTerminal
<1>10. GroupsSound' /\ VerdictsSound' /\ ClosedGroupDrains'
  <2>1. GroupsSound'
    BY <1>1, <1>3 DEF TaskInv, GroupsSound, Accepted
  <2>2. VerdictsSound' /\ ClosedGroupDrains'
    BY <1>1 DEF TaskInv, VerdictsSound, Verdict, IsTerminal, ClosedGroupDrains
  <2>. QED
    BY <2>1, <2>2
<1>11. RegistryReachesLive'
  BY <1>1 DEF TaskInv, RegistryReachesLive, Accepted, IsTerminal, CommitActive, DrainRetired
<1>12. OutstandingIsUnretired'
  <2>1. Unretired' = Unretired
    BY <1>1 DEF Unretired, Accepted, IsTerminal
  <2>2. Undoing' = Undoing \cup {th} /\ th \notin Undoing
    BY <1>2 DEF Undoing
  <2>3. IsFiniteSet(Undoing) /\ Cardinality(Unretired) \in Nat
    BY NodesFinite DEF Unretired, Undoing
  <2>4. outstanding = Cardinality(Unretired) + Cardinality(Undoing)
    BY DEF TaskInv, OutstandingIsUnretired, Unretired, Undoing
  <2>5. outstanding' = Cardinality(Unretired') + Cardinality(Undoing')
    <3>. HIDE DEF Unretired, Undoing
    <3>. QED
      BY <1>3, <2>1, <2>2, <2>3, <2>4, AddOne
  <2>. QED
    BY <2>5 DEF OutstandingIsUnretired, Unretired, Undoing
<1>. QED
  BY <1>1, <1>4, <1>5, <1>6, <1>7, <1>8, <1>9, <1>10, <1>11, <1>12, SameGraph DEF TaskInv

LEMMA SubmitKeeps ==
  ASSUME TaskInv, NEW th \in Thread, NEW t \in Task, NEW g \in Group \cup {None},
         NEW deps \in SUBSET Node, \A d \in deps : Accepted(d), SubmitImpl(th, t, deps, g)
  PROVE  TaskInv'
<1>. DEFINE cancelled == \E d \in deps : Unsuccessful(d)
            live == IF cancelled THEN {} ELSE {d \in deps : ~ IsTerminal(d)}
<1>1. /\ UNCHANGED <<gSealed, gQueued, gOutcome, gFirstFailure, stopping, slot, pc, cur, undo>>
      /\ active' = CommitActive({t})
      /\ Fresh(t) /\ MayAdmit(th, g) /\ Account(t, g)
  BY DEF SubmitImpl
<1>2. /\ edges' = edges \cup {<<d, t>> : d \in live}
      /\ remaining' = [remaining EXCEPT ![t] = Cardinality(live)]
      /\ status' = [status EXCEPT ![t] = IF live = {} THEN "READY" ELSE "WAITING"]
      /\ finalizing' = [finalizing EXCEPT ![t] = cancelled]
      /\ pending' = [pending EXCEPT ![t] = IF cancelled THEN "CANCELLED" ELSE pending[t]]
      /\ batch' = [batch EXCEPT ![th] = IF cancelled THEN {t} ELSE batch[th]]
      /\ ready' = IF live = {} /\ ~ cancelled THEN ready \cup {t} ELSE ready
      /\ captures' = [captures EXCEPT ![t] = "stored"]
      /\ declared' = [declared EXCEPT ![t] = deps]
      /\ admitted' = [admitted EXCEPT ![t] = g]
  BY DEF SubmitImpl
<1>3. /\ t \in Node /\ t \notin Group /\ t # None
      /\ status[t] = "CREATED" /\ captures[t] = "none" /\ ~ finalizing[t]
      /\ undo[th] = None /\ batch[th] = {} /\ slot[th] = None
  BY <1>1, Distinct DEF Fresh, MayAdmit, CanCall, TaskInv, NodesSound, Accepted
<1>4. /\ cancelled \in BOOLEAN /\ live \subseteq deps /\ live \subseteq Node
      /\ cancelled => live = {}
      /\ \A d \in deps : ~ cancelled => d \in live \/ status[d] = "COMPLETED"
      /\ \A d \in live : /\ Live(d) /\ d # t
                         /\ d \in Task /\ finalizing[d] => status[d] = "RUNNING"
  <2>1. \A d \in deps : Live(d) \/ IsTerminal(d)
    BY DEF Live
  <2>2. \A d \in live : ~ Unsuccessful(d) /\ Live(d)
    BY <2>1 DEF Live
  <2>3. \A d \in live : d \in Task /\ finalizing[d] => status[d] = "RUNNING"
    BY <2>2, Distinct DEF Unsuccessful, Live, Accepted, IsTerminal, Terminal, Status,
                TaskInv, TasksSound, TypeOK
  <2>4. \A d \in deps : ~ cancelled => d \in live \/ status[d] = "COMPLETED"
    BY DEF Unsuccessful
  <2>. QED
    BY <1>3, <2>2, <2>3, <2>4 DEF Live, Accepted
<1>. HIDE DEF cancelled, live
<1>5. /\ status'[t] \in {"READY", "WAITING"} /\ captures'[t] = "stored"
      /\ status'[t] = "WAITING" <=> live # {}
      /\ finalizing'[t] <=> cancelled
      /\ cancelled => pending'[t] = "CANCELLED"
      /\ remaining'[t] = Cardinality(live)
      /\ declared'[t] = deps /\ admitted'[t] = g
      /\ \A n \in Node : n # t => /\ status'[n] = status[n] /\ finalizing'[n] = finalizing[n]
                                  /\ pending'[n] = pending[n]
      /\ \A u \in Task : u # t => /\ captures'[u] = captures[u] /\ remaining'[u] = remaining[u]
                                  /\ declared'[u] = declared[u] /\ admitted'[u] = admitted[u]
      /\ \A ti \in Thread : ti # th => batch'[ti] = batch[ti]
      /\ batch'[th] = IF cancelled THEN {t} ELSE {}
  BY <1>2, <1>3, <1>4 DEF TaskInv, TypeOK
<1>6. /\ outstanding' = outstanding + 1 /\ retired' = {}
      /\ member' \in [Task -> Group \cup {None}] /\ gOutstanding' \in [Group -> Nat]
      /\ member'[t] = g /\ \A u \in Task : u # t => member'[u] = member[u]
      /\ g # None => Accepted(g)
      /\ \A h \in Group : /\ gOutstanding'[h] = Cardinality(MembersOf(h)')
                          /\ gQueued[h] => gOutstanding'[h] = gOutstanding[h]
  BY <1>1, AccountIs
<1>7. /\ IsFiniteSet(live) /\ Cardinality(live) \in Nat /\ (live # {} => Cardinality(live) > 0)
  <2>1. IsFiniteSet(live) /\ Cardinality(live) \in Nat
    BY <1>4, NodesFinite
  <2>2. Cardinality(live) = 0 => live = {}
    BY <2>1, FS_EmptySet
  <2>. QED
    BY <2>1, <2>2
<1>8. \A d \in Node, u \in Task : <<d, u>> \in edges' <=> <<d, u>> \in edges \/ (u = t /\ d \in live)
  BY <1>2
<1>9. \A d \in Node : <<d, t>> \notin edges /\ \A u \in Task : <<t, u>> \notin edges
  BY <1>3 DEF TaskInv, EdgesSound, Live, Accepted
<1>10. TypeOK'
  <2>1. status' \in [Node -> Status]
    BY <1>2 DEF TaskInv, TypeOK, Status
  <2>2. finalizing' \in [Node -> BOOLEAN] /\ pending' \in [Node -> Status]
    BY <1>2, <1>3, <1>4 DEF TaskInv, TypeOK, Status, Terminal
  <2>3. captures' \in [Task -> {"none", "stored", "taken", "destroyed"}]
    BY <1>2 DEF TaskInv, TypeOK
  <2>4. edges' \subseteq Node \X Task
    BY <1>2, <1>4 DEF TaskInv, TypeOK
  <2>5. remaining' \in [Task -> Nat]
    BY <1>2, <1>7 DEF TaskInv, TypeOK
  <2>6. batch' \in [Thread -> SUBSET Node] /\ ready' \subseteq Task
    BY <1>2, <1>3 DEF TaskInv, TypeOK
  <2>7. declared' \in [Task -> SUBSET Node] /\ admitted' \in [Task -> Group \cup {None}]
    BY <1>2 DEF TaskInv, TypeOK
  <2>8. active' \subseteq Node /\ retired' \subseteq Node /\ outstanding' \in Nat
    BY <1>1, <1>3, <1>6 DEF TaskInv, TypeOK, CommitActive
  <2>. QED
    BY <1>1, <1>6, <2>1, <2>2, <2>3, <2>4, <2>5, <2>6, <2>7, <2>8 DEF TaskInv, TypeOK
<1>11. NodesSound' /\ TasksSound'
  <2>1. NodesSound'
    BY <1>3, <1>4, <1>5 DEF TaskInv, NodesSound, Accepted, IsTerminal, Terminal
  <2>2. TasksSound'
    BY <1>3, <1>4, <1>5, Distinct DEF TaskInv, TasksSound, IsTerminal, Terminal
  <2>. QED
    BY <2>1, <2>2
<1>12. WorkersSound' /\ HostsSound'
  <2>1. \A v \in Worker : cur[v] # None => /\ captures'[cur[v]] = captures[cur[v]]
                                           /\ status'[cur[v]] = status[cur[v]]
                                           /\ finalizing'[cur[v]] = finalizing[cur[v]]
    BY <1>3, <1>5, Distinct DEF TaskInv, TypeOK, WorkersSound
  <2>2. \A u \in Task : status'[u] = "RUNNING" => status[u] = "RUNNING"
    BY <1>5, Distinct
  <2>3. WorkersSound'
    BY <1>1, <2>1, <2>2 DEF TaskInv, WorkersSound
  <2>. QED
    BY <1>1, <2>3 DEF TaskInv, HostsSound
<1>13. EndersSound'
  <2>1. \A m \in Node : m # t => /\ Ending(m)' <=> Ending(m)
                                 /\ status'[m] = status[m]
    BY <1>5 DEF Ending, IsTerminal
  <2>2. Ending(t)' <=> cancelled
    BY <1>4, <1>5 DEF Ending, IsTerminal, Terminal
  <2>3. \A ti \in Thread : ~ Holds(ti, t)
    BY <1>3 DEF TaskInv, EndersSound, Ending
  <2>4. \A ti \in Thread, m \in Node :
          Holds(ti, m)' <=> Holds(ti, m) \/ (ti = th /\ m = t /\ cancelled)
    BY <1>1, <1>3, <1>5, Distinct DEF Holds
  <2>5. \A ti \in Thread : slot[ti] \notin batch'[ti]
    BY <1>3, <1>5 DEF TaskInv, EndersSound
  <2>6. \A ti \in Thread : slot[ti] \in Task => captures'[slot[ti]] = "destroyed"
    BY <1>3, <1>5 DEF TaskInv, EndersSound
  <2>7. \A ti, tj \in Thread, m \in Node : Holds(ti, m)' /\ Holds(tj, m)' => ti = tj
    BY <2>3, <2>4 DEF TaskInv, EndersSound
  <2>8. \A ti \in Thread, m \in Node : Holds(ti, m)' => Ending(m)' /\ status'[m] # "RUNNING"
    BY <1>5, <2>1, <2>2, <2>3, <2>4 DEF TaskInv, EndersSound
  <2>9. \A m \in Node : Ending(m)' /\ status'[m] # "RUNNING" => \E ti \in Thread : Holds(ti, m)'
    BY <2>1, <2>2, <2>4 DEF TaskInv, EndersSound
  <2>. QED
    BY <1>1, <2>5, <2>6, <2>7, <2>8, <2>9 DEF EndersSound
<1>14. UndoSound'
  <2>1. \A ti \in Thread : undo[ti] # None => /\ captures'[undo[ti]] = captures[undo[ti]]
                                              /\ status'[undo[ti]] = status[undo[ti]]
    BY <1>3, <1>5, Distinct DEF TaskInv, TypeOK, UndoSound
  <2>. QED
    BY <1>1, <1>5, <2>1, Distinct DEF TaskInv, UndoSound
<1>15. EdgesSound'
  <2>1. \A n \in Node : n # t => (Live(n)' <=> Live(n))
    BY <1>5 DEF Live, Accepted, IsTerminal
  <2>. SUFFICES ASSUME NEW d \in Node, NEW u \in Task, <<d, u>> \in edges'
                PROVE  /\ status'[u] = "WAITING" /\ ~ finalizing'[u]
                       /\ Live(d)'
                       /\ d \in Task /\ finalizing'[d] => status'[d] = "RUNNING"
    BY DEF EdgesSound
  <2>2. CASE <<d, u>> \in edges
    <3>1. u # t /\ d # t
      BY <1>9, <2>2
    <3>. QED
      BY <1>5, <2>1, <2>2, <3>1, Distinct DEF TaskInv, EdgesSound
  <2>3. CASE u = t /\ d \in live
    BY <1>4, <1>5, <2>1, <2>3
  <2>. QED
    BY <1>8, <2>2, <2>3
<1>16. CountsSound'
  <2>1. \A u \in Task : u # t => Preds(u)' = Preds(u)
    BY <1>8 DEF Preds
  <2>2. Preds(t)' = live
    BY <1>4, <1>8, <1>9 DEF Preds
  <2>3. ASSUME NEW u \in Task, u # t, status'[u] = "WAITING", ~ finalizing'[u]
        PROVE  remaining'[u] = Cardinality(Preds(u)') /\ remaining'[u] > 0
    <3>1. status[u] = "WAITING" /\ ~ finalizing[u] /\ remaining'[u] = remaining[u]
      BY <1>5, <2>3, Distinct
    <3>. QED
      BY <2>1, <2>3, <3>1 DEF TaskInv, CountsSound
  <2>. QED
    BY <1>5, <1>7, <2>2, <2>3 DEF CountsSound
<1>17. DeclaredSound'
  <2>1. ASSUME NEW u \in Task, NEW d \in declared'[u]
        PROVE  \/ finalizing'[u] /\ pending'[u] = "CANCELLED"
               \/ <<d, u>> \in edges'
               \/ status'[d] = "COMPLETED"
    <3>1. CASE u = t
      <4>1. d \in deps /\ d \in Node
        BY <1>5, <2>1, <3>1
      <4>2. status[d] = "COMPLETED" => status'[d] = "COMPLETED"
        BY <1>3, <1>5, <4>1
      <4>. QED
        BY <1>4, <1>5, <1>8, <3>1, <4>1, <4>2
    <3>2. CASE u # t
      <4>1. d \in declared[u] /\ d \in Node /\ u \in Node
        BY <1>5, <2>1, <3>2, Distinct DEF TaskInv, TypeOK
      <4>2. status[d] = "COMPLETED" => status'[d] = "COMPLETED"
        BY <1>3, <1>5, <4>1
      <4>. QED
        BY <1>5, <1>8, <3>2, <4>1, <4>2 DEF TaskInv, DeclaredSound
    <3>. QED
      BY <3>1, <3>2
  <2>. QED
    BY <2>1 DEF DeclaredSound
<1>18. MembersSound'
  <2>1. ASSUME NEW u \in Task
        PROVE  /\ Live(u)' => member'[u] = admitted'[u]
               /\ status'[u] = "CREATED" => admitted'[u] = None
               /\ captures'[u] = "none" => member'[u] = None
               /\ member'[u] # None => status'[member'[u]] # "CREATED"
    <3>1. \A n \in Node : Accepted(n) => status'[n] # "CREATED"
      BY <1>3, <1>5 DEF Accepted
    <3>2. member'[u] \in Node \/ member'[u] = None
      BY <1>6 DEF Node
    <3>3. CASE u = t
      <4>1. member'[u] = g /\ admitted'[u] = g
        BY <1>5, <1>6, <3>3
      <4>. QED
        BY <1>5, <1>6, <3>1, <3>2, <3>3, <4>1
    <3>4. CASE u # t
      <4>1. /\ status'[u] = status[u] /\ captures'[u] = captures[u] /\ admitted'[u] = admitted[u]
            /\ member'[u] = member[u]
        BY <1>5, <1>6, <3>4, Distinct
      <4>2. /\ Live(u) => member[u] = admitted[u]
            /\ status[u] = "CREATED" => admitted[u] = None
            /\ captures[u] = "none" => member[u] = None
            /\ member[u] # None => Accepted(member[u])
        BY DEF TaskInv, MembersSound
      <4>3. Live(u)' <=> Live(u)
        BY <4>1 DEF Live, Accepted, IsTerminal
      <4>4. member'[u] # None => status'[member'[u]] # "CREATED"
        BY <3>1, <3>2, <4>1, <4>2
      <4>. QED
        BY <4>1, <4>2, <4>3, <4>4 DEF Accepted
    <3>. QED
      BY <3>3, <3>4
  <2>. QED
    BY <1>6, <2>1 DEF MembersSound, Accepted
<1>19. GroupsSound' /\ VerdictsSound' /\ ClosedGroupDrains'
  <2>1. \A h \in Group : status'[h] = status[h] /\ finalizing'[h] = finalizing[h] /\ pending'[h] = pending[h]
    BY <1>3, <1>5, Distinct
  <2>2. GroupsSound'
    BY <1>1, <1>6, <2>1 DEF TaskInv, GroupsSound, Accepted
  <2>3. \A h \in Group : Verdict(h)' = Verdict(h)
    BY <1>1, <2>1 DEF Verdict
  <2>4. \A u \in Task, h \in Group : IsTerminal(u)' => /\ u # t /\ IsTerminal(u)
                                                       /\ status'[u] = status[u]
                                                       /\ admitted'[u] = admitted[u]
    BY <1>5, Distinct DEF IsTerminal, Terminal
  <2>5. \A u \in Task : status'[u] = "FAILED" <=> status[u] = "FAILED"
    BY <1>3, <1>5, Distinct
  <2>6. VerdictsSound'
    <3>. SUFFICES ASSUME NEW h \in Group
                  PROVE  /\ Verdict(h)' = "FAILED" <=> \E u \in Task : admitted'[u] = h /\ status'[u] = "FAILED"
                         /\ Verdict(h)' = "COMPLETED" =>
                              \A u \in Task : admitted'[u] = h /\ IsTerminal(u)' => status'[u] = "COMPLETED"
      BY DEF VerdictsSound
    <3>1. /\ Verdict(h) = "FAILED" <=> \E u \in Task : admitted[u] = h /\ status[u] = "FAILED"
          /\ Verdict(h) = "COMPLETED" =>
               \A u \in Task : admitted[u] = h /\ IsTerminal(u) => status[u] = "COMPLETED"
      BY DEF TaskInv, VerdictsSound
    <3>2. \A u \in Task : status[u] = "FAILED" => admitted'[u] = admitted[u]
      BY <1>3, <1>5
    <3>. QED
      BY <2>3, <2>4, <2>5, <3>1, <3>2
  <2>7. ClosedGroupDrains'
    <3>1. \A h \in Group : gOutcome[h] # "COMPLETED" => h # g
      BY <1>1, Distinct DEF MayAdmit, AdmissionOpen
    <3>. QED
      BY <1>1, <1>5, <3>1, Distinct DEF TaskInv, ClosedGroupDrains
  <2>. QED
    BY <2>2, <2>6, <2>7
<1>20. RegistryReachesLive'
  <2>1. \A n \in Node : n # t => (Live(n)' <=> Live(n))
    BY <1>5 DEF Live, Accepted, IsTerminal
  <2>2. \A n \in Node : Live(n) => n \in active'
    BY <1>1 DEF TaskInv, RegistryReachesLive, Live, IsTerminal, CommitActive, DrainRetired
  <2>3. t \in active'
    BY <1>1 DEF CommitActive
  <2>. QED
    BY <2>1, <2>2, <2>3 DEF RegistryReachesLive, Live
<1>21. OutstandingIsUnretired'
  <2>1. Unretired' = Unretired \cup {t} /\ t \notin Unretired /\ Undoing' = Undoing
    BY <1>1, <1>3, <1>5 DEF Unretired, Undoing, Accepted, IsTerminal, Terminal
  <2>2. IsFiniteSet(Unretired) /\ Cardinality(Undoing) \in Nat
    BY NodesFinite DEF Unretired, Undoing
  <2>3. outstanding = Cardinality(Unretired) + Cardinality(Undoing)
    BY DEF TaskInv, OutstandingIsUnretired, Unretired, Undoing
  <2>4. outstanding' = Cardinality(Unretired') + Cardinality(Undoing')
    <3>. HIDE DEF Unretired, Undoing
    <3>1. Cardinality(Unretired \cup {t}) = Cardinality(Unretired) + 1
          /\ Cardinality(Unretired) \in Nat
      BY <2>1, <2>2, AddOne
    <3>2. Cardinality(Undoing') = Cardinality(Undoing)
      BY <2>1
    <3>3. Cardinality(Unretired') = Cardinality(Unretired) + 1
      BY <2>1, <3>1
    <3>. QED
      BY <1>6, <2>2, <2>3, <3>1, <3>2, <3>3
  <2>. QED
    BY <2>4 DEF OutstandingIsUnretired, Unretired, Undoing
<1>. QED
  BY <1>10, <1>11, <1>12, <1>13, <1>14, <1>15, <1>16, <1>17, <1>18, <1>19, <1>20, <1>21
  DEF TaskInv

-----------------------------------------------------------------------------
(* Ends: a step decides on the ends of "doomed" and "done" and publishes that of
   N, which wakes "woken".  Its parts, one after the other. *)

Settles(N, st, woken, doomed, done) ==
  /\ N \subseteq Node /\ woken \subseteq Task /\ doomed \subseteq Task /\ done \subseteq Group
  /\ \A n \in N : /\ Ending(n) /\ st \in Terminal
                  /\ \/ st = pending[n]
                     \/ n \in Task /\ st = "FAILED" /\ pending[n] = "COMPLETED"
                  /\ n \in Task => captures[n] = "destroyed"
  /\ \A t \in woken : status[t] = "WAITING" /\ ~ finalizing[t] /\ t \notin doomed
  /\ \A t \in doomed : Cancellable(t)
  /\ \A g \in done : Accepted(g) /\ ~ gQueued[g]
  /\ \A n \in Node : /\ n \in N => status'[n] = st
                     /\ n \in woken => status'[n] = "READY"
                     /\ n \notin N /\ n \notin woken => status'[n] = status[n]
  /\ \A n \in Node : /\ finalizing'[n] <=> finalizing[n] \/ n \in doomed \/ n \in done
                     /\ n \in doomed => pending'[n] = "CANCELLED"
                     /\ n \in done => pending'[n] = gOutcome'[n]
                     /\ n \notin doomed /\ n \notin done => pending'[n] = pending[n]
  /\ \A g \in Group : /\ gOutcome'[g] \in Terminal
                      /\ gQueued'[g] <=> gQueued[g] \/ g \in done
  /\ captures' = captures

(* What the nodes were, and are. *)
SettledNow(N, woken, doomed, done) ==
  /\ \A n \in N : n \notin woken /\ n \notin doomed /\ n \notin done
  /\ \A n \in Node : n \in doomed \/ n \in done =>
       ~ finalizing[n] /\ Live(n) /\ status[n] # "RUNNING"
  /\ \A n \in Node :
       /\ Ending(n)' <=> (Ending(n) /\ n \notin N) \/ n \in doomed \/ n \in done
       /\ Live(n)' <=> Live(n) /\ n \notin N
       /\ status'[n] = "RUNNING" <=> status[n] = "RUNNING" /\ n \notin N
       /\ status'[n] = "CREATED" <=> status[n] = "CREATED"
       /\ status'[n] = "WAITING" <=> status[n] = "WAITING" /\ n \notin N /\ n \notin woken
       /\ IsTerminal(n)' <=> IsTerminal(n) \/ n \in N
       /\ IsTerminal(n) => n \notin N /\ n \notin woken /\ status'[n] = status[n]
       /\ finalizing[n] => n \notin doomed /\ n \notin done

LEMMA SettledAre ==
  ASSUME TaskInv, NEW N, NEW st, NEW woken, NEW doomed, NEW done,
         Settles(N, st, woken, doomed, done)
  PROVE  SettledNow(N, woken, doomed, done)
<1>1. \A n \in Node : n \in Group => n \notin doomed /\ n \notin woken
  BY Distinct DEF Settles
<1>2. \A n \in Node : n \in doomed \/ n \in done =>
        ~ finalizing[n] /\ Live(n) /\ status[n] # "RUNNING"
  <2>1. \A n \in doomed : ~ finalizing[n] /\ Live(n) /\ status[n] # "RUNNING"
    BY DEF Settles, Cancellable, Live
  <2>2. \A n \in done : ~ finalizing[n] /\ Live(n) /\ status[n] # "RUNNING"
    <3>. TAKE n \in done
    <3>1. n \in Group /\ n \in Node /\ ~ gQueued[n] /\ Accepted(n)
      BY Distinct DEF Settles
    <3>2. ~ finalizing[n]
      BY <3>1 DEF TaskInv, GroupsSound
    <3>. QED
      BY <3>1, <3>2 DEF TaskInv, NodesSound, Live
  <2>. QED
    BY <2>1, <2>2
<1>3. \A n \in N : /\ n \in Node /\ finalizing[n] /\ ~ IsTerminal(n) /\ Accepted(n)
                   /\ n \notin woken /\ n \notin doomed /\ n \notin done
                   /\ st \in Terminal /\ status'[n] = st
  BY <1>2 DEF Settles, Ending, TaskInv, NodesSound
<1>4. \A n \in woken : n \in Node /\ status[n] = "WAITING" /\ status'[n] = "READY"
  BY Distinct DEF Settles
<1>5. \A n \in Node : n \notin N /\ n \notin woken => status'[n] = status[n]
  BY DEF Settles
<1>6. \A n \in Node : finalizing'[n] <=> finalizing[n] \/ n \in doomed \/ n \in done
  BY DEF Settles
<1>7. ASSUME NEW n \in Node
      PROVE  /\ Live(n)' <=> Live(n) /\ n \notin N
             /\ status'[n] = "RUNNING" <=> status[n] = "RUNNING" /\ n \notin N
             /\ status'[n] = "CREATED" <=> status[n] = "CREATED"
             /\ status'[n] = "WAITING" <=> status[n] = "WAITING" /\ n \notin N /\ n \notin woken
             /\ IsTerminal(n)' <=> IsTerminal(n) \/ n \in N
             /\ IsTerminal(n) => n \notin N /\ n \notin woken /\ status'[n] = status[n]
  <2>1. CASE n \in N
    BY <1>3, <2>1 DEF Live, Accepted, IsTerminal, Terminal
  <2>2. CASE n \in woken
    BY <1>3, <1>4, <2>2 DEF Live, Accepted, IsTerminal, Terminal
  <2>3. CASE n \notin N /\ n \notin woken
    BY <1>5, <2>3 DEF Live, Accepted, IsTerminal, Terminal
  <2>. QED
    BY <2>1, <2>2, <2>3
<1>8. \A n \in Node : Ending(n)' <=> (Ending(n) /\ n \notin N) \/ n \in doomed \/ n \in done
  BY <1>2, <1>3, <1>6, <1>7 DEF Ending, Live
<1>. QED
  BY <1>2, <1>3, <1>7, <1>8 DEF SettledNow

LEMMA SettlesNodes ==
  ASSUME TaskInv, NEW N, NEW st, NEW woken, NEW doomed, NEW done,
         Settles(N, st, woken, doomed, done)
  PROVE  NodesSound' /\ TasksSound'
<1>1. SettledNow(N, woken, doomed, done)
  BY SettledAre
<1>2. ASSUME NEW n \in Node
      PROVE  /\ finalizing'[n] => Accepted(n)' /\ pending'[n] \in Terminal
             /\ IsTerminal(n)' => finalizing'[n]
             /\ IsTerminal(n)' => \/ status'[n] = pending'[n]
                                  \/ n \in Task /\ status'[n] = "FAILED" /\ pending'[n] = "COMPLETED"
             /\ n \in Group => status'[n] \notin {"READY", "RUNNING"}
  <2>1. /\ finalizing[n] => Accepted(n) /\ pending[n] \in Terminal
        /\ IsTerminal(n) => finalizing[n]
        /\ IsTerminal(n) => \/ status[n] = pending[n]
                            \/ n \in Task /\ status[n] = "FAILED" /\ pending[n] = "COMPLETED"
        /\ n \in Group => status[n] \notin {"READY", "RUNNING"}
    BY DEF TaskInv, NodesSound
  <2>2. CASE n \in doomed \/ n \in done
    <3>1. finalizing'[n] /\ pending'[n] \in Terminal
      BY <2>2, Distinct DEF Settles, Terminal
    <3>2. Live(n)' /\ ~ IsTerminal(n)' /\ status'[n] # "RUNNING"
      BY <1>1, <2>2 DEF SettledNow, Live
    <3>3. n \in Group => status'[n] # "READY"
      BY <1>1, <2>1, <2>2, Distinct DEF SettledNow, Settles
    <3>. QED
      BY <3>1, <3>2, <3>3 DEF Live
  <2>3. CASE n \in N
    <3>1. finalizing'[n] /\ status'[n] = st /\ pending'[n] = pending[n] /\ Ending(n) /\ st \in Terminal
      BY <1>1, <2>3 DEF Settles, SettledNow, Ending
    <3>2. /\ st = pending[n] \/ (n \in Task /\ st = "FAILED" /\ pending[n] = "COMPLETED")
      BY <2>3 DEF Settles
    <3>. QED
      BY <2>1, <3>1, <3>2 DEF Ending, Accepted, Terminal
  <2>4. CASE n \notin doomed /\ n \notin done /\ n \notin N
    <3>1. (finalizing'[n] <=> finalizing[n]) /\ pending'[n] = pending[n]
      BY <2>4 DEF Settles
    <3>2. n \in woken => status'[n] = "READY" /\ n \in Task /\ ~ finalizing[n]
      BY DEF Settles
    <3>3. n \notin woken => status'[n] = status[n]
      BY <2>4 DEF Settles
    <3>. QED
      BY <2>1, <3>1, <3>2, <3>3, Distinct DEF Accepted, IsTerminal, Terminal
  <2>. QED
    BY <2>2, <2>3, <2>4
<1>3. ASSUME NEW t \in Task
      PROVE  /\ finalizing'[t] /\ status'[t] = "RUNNING" => pending'[t] # "CANCELLED"
             /\ finalizing'[t] /\ status'[t] \in {"WAITING", "READY"} => pending'[t] = "CANCELLED"
             /\ IsTerminal(t)' => captures'[t] = "destroyed"
             /\ status'[t] \in {"WAITING", "READY"} /\ ~ finalizing'[t] => captures'[t] = "stored"
  <2>1. /\ finalizing[t] /\ status[t] = "RUNNING" => pending[t] # "CANCELLED"
        /\ finalizing[t] /\ status[t] \in {"WAITING", "READY"} => pending[t] = "CANCELLED"
        /\ IsTerminal(t) => captures[t] = "destroyed"
        /\ status[t] \in {"WAITING", "READY"} /\ ~ finalizing[t] => captures[t] = "stored"
    BY DEF TaskInv, TasksSound
  <2>2. t \in Node /\ t \notin done /\ captures'[t] = captures[t]
    BY Distinct DEF Settles
  <2>3. CASE t \in doomed
    <3>1. finalizing'[t] /\ pending'[t] = "CANCELLED" /\ status'[t] # "RUNNING" /\ ~ IsTerminal(t)'
      BY <1>1, <2>2, <2>3 DEF Settles, SettledNow, Live
    <3>. QED
      BY <3>1
  <2>4. CASE t \in N
    <3>1. status'[t] \in Terminal /\ captures[t] = "destroyed"
      BY <2>2, <2>4 DEF Settles
    <3>. QED
      BY <2>2, <3>1 DEF Terminal
  <2>5. CASE t \notin doomed /\ t \notin N
    <3>1. (finalizing'[t] <=> finalizing[t]) /\ pending'[t] = pending[t]
      BY <2>2, <2>5 DEF Settles
    <3>2. t \in woken => status'[t] = "READY" /\ ~ finalizing[t] /\ status[t] = "WAITING"
      BY <2>2 DEF Settles
    <3>3. t \notin woken => status'[t] = status[t]
      BY <2>2, <2>5 DEF Settles
    <3>. QED
      BY <2>1, <2>2, <3>1, <3>2, <3>3 DEF IsTerminal, Terminal
  <2>. QED
    BY <2>3, <2>4, <2>5
<1>4. NodesSound'
  BY <1>2 DEF NodesSound
<1>5. TasksSound'
  BY <1>3 DEF TasksSound
<1>. QED
  BY <1>4, <1>5

(* The batch of a thread takes what is decided; what is published leaves it. *)
LEMMA SettlesEnders ==
  ASSUME TaskInv, NEW N, NEW st, NEW woken, NEW doomed, NEW done,
         Settles(N, st, woken, doomed, done), NEW th \in Thread,
         batch' = [batch EXCEPT ![th] = batch[th] \cup doomed \cup done],
         \/ slot' = slot /\ \A n \in N : status[n] = "RUNNING"
         \/ slot[th] # None /\ N = {slot[th]} /\ slot' = [slot EXCEPT ![th] = None]
  PROVE  EndersSound'
<1>1. SettledNow(N, woken, doomed, done)
  BY SettledAre
<1>2. /\ batch'[th] = batch[th] \cup doomed \cup done
      /\ \A ti \in Thread : ti # th => batch'[ti] = batch[ti]
  BY DEF TaskInv, TypeOK
<1>3. /\ \A ti \in Thread : slot'[ti] = slot[ti] \/ slot'[ti] = None
      /\ \A ti \in Thread, n \in Node : slot'[ti] = n <=> slot[ti] = n /\ n \notin N
  <2>1. CASE slot' = slot /\ \A n \in N : status[n] = "RUNNING"
    BY <2>1 DEF TaskInv, EndersSound, Holds
  <2>2. CASE slot[th] # None /\ N = {slot[th]} /\ slot' = [slot EXCEPT ![th] = None]
    <3>1. /\ slot'[th] = None
          /\ \A ti \in Thread : ti # th => slot'[ti] = slot[ti] /\ slot[ti] # slot[th]
      BY <2>2 DEF TaskInv, TypeOK, EndersSound, Holds
    <3>. QED
      BY <2>2, <3>1, Distinct
  <2>. QED
    BY <2>1, <2>2
<1>4. \A ti \in Thread, n \in Node : n \in batch[ti] => n \notin N
  <2>1. CASE slot' = slot /\ \A n \in N : status[n] = "RUNNING"
    BY <2>1 DEF TaskInv, EndersSound, Holds
  <2>2. CASE slot[th] # None /\ N = {slot[th]} /\ slot' = [slot EXCEPT ![th] = None]
    BY <2>2 DEF TaskInv, EndersSound, Holds
  <2>. QED
    BY <2>1, <2>2
<1>5. \A ti \in Thread, n \in Node :
        Holds(ti, n)' <=> (Holds(ti, n) /\ n \notin N) \/ (ti = th /\ (n \in doomed \/ n \in done))
  BY <1>2, <1>3, <1>4 DEF Holds
<1>6. \A ti \in Thread, n \in Node : Holds(ti, n) => finalizing[n] /\ Ending(n) /\ status[n] # "RUNNING"
  BY DEF TaskInv, EndersSound, Ending
<1>7. \A ti \in Thread, n \in Node : Holds(ti, n)' => Ending(n)' /\ status'[n] # "RUNNING"
  BY <1>1, <1>5, <1>6 DEF SettledNow
<1>8. \A ti, tj \in Thread, n \in Node : Holds(ti, n)' /\ Holds(tj, n)' => ti = tj
  <2>. SUFFICES ASSUME NEW ti \in Thread, NEW tj \in Thread, NEW n \in Node,
                       Holds(ti, n)', Holds(tj, n)'
                PROVE  ti = tj
    OBVIOUS
  <2>1. CASE n \in doomed \/ n \in done
    BY <1>1, <1>5, <1>6, <2>1 DEF SettledNow
  <2>2. CASE n \notin doomed /\ n \notin done
    BY <1>5, <2>2 DEF TaskInv, EndersSound
  <2>. QED
    BY <2>1, <2>2
<1>9. \A n \in Node : Ending(n)' /\ status'[n] # "RUNNING" => \E ti \in Thread : Holds(ti, n)'
  <2>. SUFFICES ASSUME NEW n \in Node, Ending(n)', status'[n] # "RUNNING"
                PROVE  \E ti \in Thread : Holds(ti, n)'
    OBVIOUS
  <2>1. CASE n \in doomed \/ n \in done
    BY <1>5, <2>1
  <2>2. CASE n \notin doomed /\ n \notin done
    <3>1. Ending(n) /\ n \notin N /\ status[n] # "RUNNING"
      BY <1>1, <2>2 DEF SettledNow
    <3>2. PICK ti \in Thread : Holds(ti, n)
      BY <3>1 DEF TaskInv, EndersSound
    <3>. QED
      BY <1>5, <3>1, <3>2
  <2>. QED
    BY <2>1, <2>2
<1>10. \A ti \in Thread : slot'[ti] \notin batch'[ti]
  <2>. SUFFICES ASSUME NEW ti \in Thread, slot'[ti] \in batch'[ti]
                PROVE  FALSE
    OBVIOUS
  <2>1. batch[ti] \subseteq Node /\ doomed \subseteq Node /\ done \subseteq Node
    BY Distinct DEF TaskInv, TypeOK, Settles
  <2>2. slot'[ti] \in Node /\ slot'[ti] = slot[ti]
    BY <1>2, <1>3, <2>1, Distinct
  <2>3. Holds(ti, slot[ti])
    BY DEF Holds
  <2>4. slot[ti] \notin doomed /\ slot[ti] \notin done
    BY <1>1, <1>6, <2>2, <2>3 DEF SettledNow
  <2>. QED
    BY <1>2, <2>2, <2>4 DEF TaskInv, EndersSound
<1>11. \A ti \in Thread : slot'[ti] \in Task => captures'[slot'[ti]] = "destroyed"
  BY <1>3, Distinct DEF TaskInv, EndersSound, Settles
<1>. QED
  BY <1>7, <1>8, <1>9, <1>10, <1>11 DEF EndersSound

(* The workers go on, but for one that publishes the end of its own task. *)
LEMMA SettlesWorkers ==
  ASSUME TaskInv, NEW N, NEW st, NEW woken, NEW doomed, NEW done,
         Settles(N, st, woken, doomed, done),
         \/ /\ \A w \in Worker : pc'[w] = pc[w] /\ cur'[w] = cur[w]
            /\ \A n \in N : status[n] # "RUNNING"
         \/ \E w \in Worker : /\ cur[w] # None /\ N = {cur[w]}
                              /\ pc' = [pc EXCEPT ![w] = "idle"] /\ cur' = [cur EXCEPT ![w] = None]
  PROVE  WorkersSound'
<1>1. SettledNow(N, woken, doomed, done)
  BY SettledAre
<1>2. \A v \in Worker : v \in Thread /\ (cur[v] # None => cur[v] \in Task /\ cur[v] \in Node)
  BY Distinct DEF TaskInv, TypeOK
<1>3. \A v \in Worker : cur[v] # None /\ cur[v] \notin N =>
        /\ status'[cur[v]] = "RUNNING" /\ captures'[cur[v]] = captures[cur[v]]
        /\ finalizing'[cur[v]] <=> finalizing[cur[v]]
  BY <1>1, <1>2 DEF TaskInv, WorkersSound, SettledNow, Settles
<1>4. CASE /\ \A w \in Worker : pc'[w] = pc[w] /\ cur'[w] = cur[w]
           /\ \A n \in N : status[n] # "RUNNING"
  <2>1. \A v \in Worker : cur[v] # None => cur[v] \notin N
    BY <1>4 DEF TaskInv, WorkersSound
  <2>2. \A t \in Task : status'[t] = "RUNNING" => status[t] = "RUNNING"
    BY <1>1, Distinct DEF SettledNow
  <2>. QED
    BY <1>3, <1>4, <2>1, <2>2 DEF TaskInv, WorkersSound
<1>5. ASSUME NEW w \in Worker, cur[w] # None, N = {cur[w]},
             pc' = [pc EXCEPT ![w] = "idle"], cur' = [cur EXCEPT ![w] = None]
      PROVE  WorkersSound'
  <2>1. /\ pc'[w] = "idle" /\ cur'[w] = None
        /\ \A v \in Worker : v # w => pc'[v] = pc[v] /\ cur'[v] = cur[v]
    BY <1>2, <1>5 DEF TaskInv, TypeOK
  <2>2. \A v \in Worker : v # w /\ cur[v] # None => cur[v] \notin N
    BY <1>5 DEF TaskInv, WorkersSound
  <2>3. \A v \in Worker :
          /\ pc'[v] \in {"idle", "calling", "destroying", "completing", "exited"}
          /\ cur'[v] # None <=> pc'[v] \in {"calling", "destroying", "completing"}
          /\ cur'[v] # None => /\ status'[cur'[v]] = "RUNNING"
                               /\ finalizing'[cur'[v]] <=> pc'[v] # "calling"
          /\ pc'[v] = "completing" => captures'[cur'[v]] = "destroyed"
    <3>. TAKE v \in Worker
    <3>1. CASE v = w
      BY <2>1, <3>1
    <3>2. CASE v # w
      <4>1. pc'[v] = pc[v] /\ cur'[v] = cur[v]
        BY <2>1, <3>2
      <4>. QED
        BY <1>3, <2>2, <3>2, <4>1 DEF TaskInv, WorkersSound
    <3>. QED
      BY <3>1, <3>2
  <2>4. \A u, v \in Worker : cur'[u] = cur'[v] /\ cur'[u] # None => u = v
    BY <2>1 DEF TaskInv, WorkersSound
  <2>5. \A t \in Task : status'[t] = "RUNNING" => \E v \in Worker : cur'[v] = t
    <3>. SUFFICES ASSUME NEW t \in Task, status'[t] = "RUNNING"
                  PROVE  \E v \in Worker : cur'[v] = t
      OBVIOUS
    <3>1. status[t] = "RUNNING" /\ t # cur[w]
      BY <1>1, <1>5, Distinct DEF SettledNow
    <3>2. PICK v \in Worker : cur[v] = t
      BY <3>1 DEF TaskInv, WorkersSound
    <3>. QED
      BY <2>1, <3>1, <3>2
  <2>. QED
    BY <2>3, <2>4, <2>5 DEF WorkersSound
<1>. QED
  BY <1>4, <1>5

LEMMA SettlesUndo ==
  ASSUME TaskInv, NEW N, NEW st, NEW woken, NEW doomed, NEW done,
         Settles(N, st, woken, doomed, done), UNCHANGED undo
  PROVE  UndoSound'
<1>1. SettledNow(N, woken, doomed, done)
  BY SettledAre
<1>2. \A t \in Task : (status'[t] = "CREATED" <=> status[t] = "CREATED") /\ captures'[t] = captures[t]
  BY <1>1, Distinct DEF SettledNow, Settles
<1>3. \A ti \in Thread : undo[ti] # None => undo[ti] \in Task
  BY DEF TaskInv, TypeOK
<1>. QED
  BY <1>2, <1>3 DEF TaskInv, UndoSound

(* The graph loses the edges of the doomed and of what has ended; a completed
   node counts down its dependents. *)
LEMMA SettlesGraph ==
  ASSUME TaskInv, NEW N, NEW st, NEW woken, NEW doomed, NEW done,
         Settles(N, st, woken, doomed, done), UNCHANGED declared,
         \A d \in Node, t \in Task :
           <<d, t>> \in edges' <=> <<d, t>> \in edges /\ d \notin doomed /\ t \notin doomed /\ d \notin N,
         \A d \in doomed, t \in Task : <<d, t>> \in edges => t \in doomed,
         \A d \in N, t \in Task : <<d, t>> \in edges =>
           t \in doomed \/ (st = "COMPLETED" /\ N = {d} /\ remaining'[t] = remaining[t] - 1),
         \A t \in Task : t \notin doomed /\ t \notin N /\ (\A d \in N : <<d, t>> \notin edges) =>
           remaining'[t] = remaining[t] /\ t \notin woken,
         \A t \in Task : t \in woken <=>
           t \notin doomed /\ remaining[t] = 1 /\ \E d \in N : <<d, t>> \in edges
  PROVE  EdgesSound' /\ CountsSound' /\ DeclaredSound'
<1>1. SettledNow(N, woken, doomed, done)
  BY SettledAre
<1>2. \A d \in Node, t \in Task : <<d, t>> \in edges =>
        /\ status[t] = "WAITING" /\ ~ finalizing[t] /\ Live(d) /\ t \notin N
        /\ d \in Task /\ finalizing[d] => status[d] = "RUNNING"
  BY DEF TaskInv, EdgesSound, Settles, Ending
<1>3. ASSUME NEW t \in Task, status[t] = "WAITING", ~ finalizing[t], t \notin doomed
      PROVE  /\ Preds(t)' = Preds(t) \ N /\ IsFiniteSet(Preds(t))
             /\ remaining[t] = Cardinality(Preds(t)) /\ remaining[t] \in Nat
             /\ remaining[t] > 0
  <2>1. \A d \in Node : <<d, t>> \in edges' <=> <<d, t>> \in edges /\ d \notin N
    BY <1>3
  <2>2. IsFiniteSet(Preds(t))
    BY NodesFinite DEF Preds
  <2>. QED
    BY <1>3, <2>1, <2>2 DEF Preds, TaskInv, CountsSound, TypeOK
<1>4. ASSUME NEW t \in woken
      PROVE  \A d \in Node : <<d, t>> \notin edges'
  <2>1. PICK d \in N : <<d, t>> \in edges /\ remaining[t] = 1 /\ t \in Task /\ t \notin doomed
    BY <1>4 DEF Settles
  <2>2. d \in Preds(t) /\ d \in Node
    BY <2>1 DEF Preds, Settles
  <2>3. Preds(t)' = Preds(t) \ N /\ IsFiniteSet(Preds(t)) /\ Cardinality(Preds(t)) = 1 /\ N = {d}
    BY <1>2, <1>3, <2>1, <2>2
  <2>4. IsFiniteSet(Preds(t) \ {d}) /\ Cardinality(Preds(t) \ {d}) = 0
    <3>. HIDE DEF Preds
    <3>. QED
      BY <2>2, <2>3, DropOne
  <2>5. Preds(t) \ {d} = {}
    BY <2>4, FS_EmptySet
  <2>. QED
    BY <2>3, <2>5 DEF Preds
<1>5. EdgesSound'
  <2>. SUFFICES ASSUME NEW d \in Node, NEW t \in Task, <<d, t>> \in edges'
                PROVE  /\ status'[t] = "WAITING" /\ ~ finalizing'[t]
                       /\ Live(d)'
                       /\ d \in Task /\ finalizing'[d] => status'[d] = "RUNNING"
    BY DEF EdgesSound
  <2>1. <<d, t>> \in edges /\ d \notin doomed /\ t \notin doomed /\ d \notin N /\ t \notin woken
    BY <1>4
  <2>2. t \notin done /\ (d \in Task => d \notin done) /\ t \in Node
    BY Distinct DEF Settles
  <2>3. (finalizing'[t] <=> finalizing[t]) /\ (d \in Task => (finalizing'[d] <=> finalizing[d]))
    BY <2>1, <2>2 DEF Settles
  <2>. QED
    BY <1>1, <1>2, <2>1, <2>2, <2>3 DEF SettledNow
<1>6. CountsSound'
  <2>. SUFFICES ASSUME NEW t \in Task, status'[t] = "WAITING", ~ finalizing'[t]
                PROVE  remaining'[t] = Cardinality(Preds(t)') /\ remaining'[t] > 0
    BY DEF CountsSound
  <2>1. /\ status[t] = "WAITING" /\ ~ finalizing[t] /\ t \notin N /\ t \notin woken /\ t \notin doomed
    BY <1>1, Distinct DEF SettledNow, Settles
  <2>2. /\ Preds(t)' = Preds(t) \ N /\ IsFiniteSet(Preds(t))
        /\ remaining[t] = Cardinality(Preds(t)) /\ remaining[t] \in Nat /\ remaining[t] > 0
    BY <1>3, <2>1
  <2>3. CASE \E d \in N : <<d, t>> \in edges
    <3>1. PICK d \in N : <<d, t>> \in edges
      BY <2>3
    <3>2. N = {d} /\ remaining'[t] = remaining[t] - 1 /\ remaining[t] # 1
      BY <2>1, <3>1
    <3>3. d \in Preds(t)
      BY <3>1 DEF Preds, Settles
    <3>4. Cardinality(Preds(t) \ {d}) = Cardinality(Preds(t)) - 1
      <4>. HIDE DEF Preds
      <4>. QED
        BY <2>2, <3>3, DropOne
    <3>. HIDE DEF Preds
    <3>. QED
      BY <2>2, <3>2, <3>4
  <2>4. CASE \A d \in N : <<d, t>> \notin edges
    <3>1. remaining'[t] = remaining[t] /\ Preds(t) \ N = Preds(t)
      BY <2>1, <2>4 DEF Preds
    <3>. QED
      BY <2>2, <3>1
  <2>. QED
    BY <2>3, <2>4
<1>7. DeclaredSound'
  <2>. SUFFICES ASSUME NEW t \in Task, NEW d \in declared[t]
                PROVE  \/ finalizing'[t] /\ pending'[t] = "CANCELLED"
                       \/ <<d, t>> \in edges'
                       \/ status'[d] = "COMPLETED"
    BY DEF DeclaredSound
  <2>1. d \in Node /\ t \in Node /\ t \notin done
    BY Distinct DEF TaskInv, TypeOK, Settles
  <2>2. CASE t \in doomed
    BY <2>1, <2>2 DEF Settles
  <2>3. CASE t \notin doomed /\ finalizing[t] /\ pending[t] = "CANCELLED"
    BY <2>1, <2>3 DEF Settles
  <2>4. CASE t \notin doomed /\ <<d, t>> \in edges
    <3>1. d \notin doomed
      BY <2>4
    <3>2. CASE d \in N
      BY <2>1, <2>4, <3>2 DEF Settles
    <3>3. CASE d \notin N
      BY <2>1, <2>4, <3>1, <3>3
    <3>. QED
      BY <3>2, <3>3
  <2>5. CASE status[d] = "COMPLETED"
    BY <1>1, <2>1, <2>5 DEF SettledNow, IsTerminal, Terminal
  <2>. QED
    BY <2>2, <2>3, <2>4, <2>5 DEF TaskInv, DeclaredSound
<1>. QED
  BY <1>5, <1>6, <1>7

LEMMA SettlesRegistry ==
  ASSUME TaskInv, NEW N, NEW st, NEW woken, NEW doomed, NEW done,
         Settles(N, st, woken, doomed, done), UNCHANGED active
  PROVE  /\ RegistryReachesLive'
         /\ Unretired' = Unretired \ N
         /\ N \subseteq Unretired
<1>1. SettledNow(N, woken, doomed, done)
  BY SettledAre
<1>2. \A n \in Node : Live(n)' <=> Live(n) /\ n \notin N
  BY <1>1 DEF SettledNow
<1>3. RegistryReachesLive'
  BY <1>2 DEF TaskInv, RegistryReachesLive, Live
<1>4. N \subseteq Unretired
  BY DEF TaskInv, NodesSound, Settles, Unretired, Ending
<1>. QED
  BY <1>2, <1>3, <1>4 DEF Unretired, Live

(* The books of the groups. *)
LEMMA SettlesMembers ==
  ASSUME TaskInv, NEW N, NEW st, NEW woken, NEW doomed, NEW done,
         Settles(N, st, woken, doomed, done), UNCHANGED admitted,
         \A t \in Task : member'[t] = member[t] \/ (member'[t] = None /\ ~ Live(t)'),
         \A g \in Group : gOutstanding'[g] = Cardinality(MembersOf(g)')
  PROVE  MembersSound'
<1>1. SettledNow(N, woken, doomed, done)
  BY SettledAre
<1>2. ASSUME NEW t \in Task
      PROVE  /\ Live(t)' => member'[t] = admitted[t]
             /\ status'[t] = "CREATED" => admitted[t] = None
             /\ captures'[t] = "none" => member'[t] = None
             /\ member'[t] # None => status'[member'[t]] # "CREATED"
  <2>1. /\ Live(t) => member[t] = admitted[t]
        /\ status[t] = "CREATED" => admitted[t] = None
        /\ captures[t] = "none" => member[t] = None
        /\ member[t] # None => status[member[t]] # "CREATED" /\ member[t] \in Node
    BY Distinct DEF TaskInv, TypeOK, MembersSound, Accepted
  <2>2. /\ t \in Node /\ (Live(t)' => Live(t)) /\ (status'[t] = "CREATED" <=> status[t] = "CREATED")
        /\ captures'[t] = captures[t]
    BY <1>1, Distinct DEF SettledNow, Settles
  <2>3. member[t] # None => status'[member[t]] # "CREATED"
    BY <1>1, <2>1 DEF SettledNow
  <2>. QED
    BY <2>1, <2>2, <2>3
<1>. QED
  BY <1>2 DEF MembersSound, Accepted

(* A task leaves its group. *)
LEMMA LeaveIs ==
  ASSUME TaskInv, NEW t \in Task, NEW g \in Group \cup {None}, g = member[t],
         member'[t] = None, \A u \in Task : u # t => member'[u] = member[u],
         \A h \in Group : gOutstanding'[h] = IF h = g THEN gOutstanding[h] - 1 ELSE gOutstanding[h]
  PROVE  \A h \in Group : /\ gOutstanding'[h] = Cardinality(MembersOf(h)')
                          /\ gOutstanding'[h] \in Nat
                          /\ gQueued[h] => h # g /\ gOutstanding'[h] = gOutstanding[h]
<1>. TAKE h \in Group
<1>1. gOutstanding[h] = Cardinality(MembersOf(h)) /\ gOutstanding[h] \in Nat
  BY DEF TaskInv, MembersSound, TypeOK
<1>2. CASE h = g
  <2>1. gOutstanding'[h] = gOutstanding[h] - 1
    BY <1>2
  <2>2. MembersOf(h)' = MembersOf(h) \ {t} /\ t \in MembersOf(h)
    BY <1>2, Distinct DEF MembersOf
  <2>3. IsFiniteSet(MembersOf(h))
    BY NodesFinite, Distinct DEF MembersOf
  <2>4. /\ Cardinality(MembersOf(h) \ {t}) = Cardinality(MembersOf(h)) - 1
        /\ Cardinality(MembersOf(h) \ {t}) \in Nat /\ Cardinality(MembersOf(h)) > 0
    <3>. HIDE DEF MembersOf
    <3>. QED
      BY <2>2, <2>3, DropOne
  <2>5. ~ gQueued[h]
    BY <1>1, <2>4 DEF TaskInv, GroupsSound
  <2>. QED
    BY <1>1, <2>1, <2>2, <2>4, <2>5
<1>3. CASE h # g
  <2>1. gOutstanding'[h] = gOutstanding[h]
    BY <1>3
  <2>2. MembersOf(h)' = MembersOf(h)
    BY <1>3, Distinct DEF MembersOf
  <2>. QED
    BY <1>1, <1>3, <2>1, <2>2
<1>. QED
  BY <1>2, <1>3

LEMMA SettlesGroups ==
  ASSUME TaskInv, NEW N, NEW st, NEW woken, NEW doomed, NEW done,
         Settles(N, st, woken, doomed, done),
         \A g \in Group : gSealed'[g] => gSealed[g] \/ Accepted(g),
         \A g \in Group : gSealed[g] => gSealed'[g],
         \A g \in Group : gQueued[g] => gOutstanding'[g] = gOutstanding[g],
         \A g \in done : gSealed'[g] /\ gOutstanding'[g] = 0,
         \A g \in Group : gOutcome'[g] = "FAILED" <=> gFirstFailure'[g] # None
  PROVE  GroupsSound'
<1>1. SettledNow(N, woken, doomed, done)
  BY SettledAre
<1>2. ASSUME NEW g \in Group
      PROVE  /\ gSealed'[g] => Accepted(g)'
             /\ finalizing'[g] <=> gQueued'[g]
             /\ gQueued'[g] => gSealed'[g] /\ gOutstanding'[g] = 0
  <2>1. /\ gSealed[g] => Accepted(g)
        /\ finalizing[g] <=> gQueued[g]
        /\ gQueued[g] => gSealed[g] /\ gOutstanding[g] = 0
    BY DEF TaskInv, GroupsSound
  <2>2. g \in Node /\ g \notin doomed
    BY Distinct DEF Settles
  <2>3. Accepted(g)' <=> Accepted(g)
    BY <1>1, <2>2 DEF SettledNow, Accepted
  <2>4. (finalizing'[g] <=> finalizing[g] \/ g \in done) /\ (gQueued'[g] <=> gQueued[g] \/ g \in done)
    BY <2>2 DEF Settles
  <2>. QED
    BY <2>1, <2>3, <2>4
<1>. QED
  BY <1>2 DEF GroupsSound

(* A group that fails has a failed member; one that is closed has no member left
   to start. *)
LEMMA SettlesVerdicts ==
  ASSUME TaskInv, NEW N, NEW st, NEW woken, NEW doomed, NEW done,
         Settles(N, st, woken, doomed, done), UNCHANGED admitted,
         \A g \in Group : \/ gOutcome'[g] = gOutcome[g]
                          \/ gOutcome[g] # "FAILED" /\ gOutcome'[g] # "COMPLETED",
         \A g \in Group : gOutcome'[g] = "FAILED" /\ gOutcome[g] # "FAILED" =>
           \E n \in N : n \in Task /\ admitted[n] = g /\ st = "FAILED",
         \A n \in N, g \in Group : n \in Task /\ admitted[n] = g =>
           /\ ~ gQueued[g]
           /\ st = "FAILED" => gOutcome'[g] = "FAILED"
           /\ st = "CANCELLED" => gOutcome'[g] # "COMPLETED",
         \A g \in Group : gOutcome[g] = "COMPLETED" /\ gOutcome'[g] # "COMPLETED" =>
           \A t \in Members(g) : Cancellable(t) => t \in doomed
  PROVE  VerdictsSound' /\ ClosedGroupDrains'
<1>1. SettledNow(N, woken, doomed, done)
  BY SettledAre
<1>2. ASSUME NEW t \in Task
      PROVE  /\ t \in N => Ending(t) /\ status'[t] = st /\ IsTerminal(t)' /\ st \in Terminal
             /\ t \notin N => /\ IsTerminal(t)' <=> IsTerminal(t)
                              /\ IsTerminal(t) => status'[t] = status[t]
  BY <1>1, Distinct DEF Settles, SettledNow
<1>3. ASSUME NEW g \in Group, gQueued[g]
      PROVE  Verdict(g)' = Verdict(g)
  <2>1. g \in Node /\ g \notin doomed /\ g \notin done
    BY <1>3, Distinct DEF Settles
  <2>. QED
    BY <1>3, <2>1 DEF Settles, Verdict
<1>4. ASSUME NEW g \in Group, ~ gQueued[g]
      PROVE  Verdict(g)' = gOutcome'[g] /\ Verdict(g) = gOutcome[g]
  BY <1>4, Distinct DEF Settles, Verdict
<1>5. ASSUME NEW g \in Group
      PROVE  /\ Verdict(g)' = "FAILED" <=> \E t \in Task : admitted[t] = g /\ status'[t] = "FAILED"
             /\ Verdict(g)' = "COMPLETED" =>
                  \A t \in Task : admitted[t] = g /\ IsTerminal(t)' => status'[t] = "COMPLETED"
  <2>1. /\ Verdict(g) = "FAILED" <=> \E t \in Task : admitted[t] = g /\ status[t] = "FAILED"
        /\ Verdict(g) = "COMPLETED" =>
             \A t \in Task : admitted[t] = g /\ IsTerminal(t) => status[t] = "COMPLETED"
    BY DEF TaskInv, VerdictsSound
  <2>2. \A t \in Task : t \notin N => (status'[t] = "FAILED" <=> status[t] = "FAILED")
    BY <1>2 DEF IsTerminal, Terminal
  <2>3. CASE gQueued[g]
    <3>1. \A t \in Task : admitted[t] = g => t \notin N
      BY <2>3
    <3>. QED
      BY <1>2, <1>3, <2>1, <2>2, <2>3, <3>1
  <2>4. CASE ~ gQueued[g]
    <3>1. ASSUME gOutcome'[g] = "FAILED"
          PROVE  \E t \in Task : admitted[t] = g /\ status'[t] = "FAILED"
      <4>1. CASE gOutcome[g] = "FAILED"
        <5>1. PICK t \in Task : admitted[t] = g /\ status[t] = "FAILED"
          BY <1>4, <2>1, <2>4, <4>1
        <5>2. t \notin N
          BY <1>2, <5>1 DEF Ending, IsTerminal, Terminal
        <5>. QED
          BY <2>2, <5>1, <5>2
      <4>2. CASE gOutcome[g] # "FAILED"
        BY <1>2, <3>1, <4>2
      <4>. QED
        BY <4>1, <4>2
    <3>2. ASSUME NEW t \in Task, admitted[t] = g, status'[t] = "FAILED"
          PROVE  gOutcome'[g] = "FAILED"
      <4>1. CASE t \in N
        BY <1>2, <3>2, <4>1
      <4>2. CASE t \notin N
        <5>1. gOutcome[g] = "FAILED"
          BY <1>4, <2>1, <2>2, <2>4, <3>2, <4>2
        <5>. QED
          BY <5>1
      <4>. QED
        BY <4>1, <4>2
    <3>3. ASSUME gOutcome'[g] = "COMPLETED", NEW t \in Task, admitted[t] = g, IsTerminal(t)'
          PROVE  status'[t] = "COMPLETED"
      <4>1. gOutcome[g] = "COMPLETED"
        BY <3>3
      <4>2. CASE t \in N
        BY <1>2, <3>3, <4>2 DEF Terminal
      <4>3. CASE t \notin N
        BY <1>2, <1>4, <2>1, <2>4, <3>3, <4>1, <4>3
      <4>. QED
        BY <4>2, <4>3
    <3>. QED
      BY <1>4, <2>4, <3>1, <3>2, <3>3
  <2>. QED
    BY <2>3, <2>4
<1>6. VerdictsSound'
  BY <1>5 DEF VerdictsSound
<1>7. ASSUME NEW g \in Group, gOutcome'[g] # "COMPLETED", NEW t \in Task, admitted[t] = g
      PROVE  status'[t] = "RUNNING" \/ finalizing'[t]
  <2>1. t \in Node /\ (finalizing[t] => finalizing'[t]) /\ (t \in doomed => finalizing'[t])
    BY Distinct DEF Settles
  <2>2. status[t] = "RUNNING" => status'[t] = "RUNNING" \/ finalizing'[t]
    BY <1>1, <1>2, <2>1 DEF SettledNow, Ending
  <2>3. CASE gOutcome[g] # "COMPLETED"
    BY <1>7, <2>1, <2>2, <2>3 DEF TaskInv, ClosedGroupDrains
  <2>4. CASE gOutcome[g] = "COMPLETED"
    <3>1. status[t] # "CREATED"
      BY <1>7, Distinct DEF TaskInv, MembersSound
    <3>2. CASE IsTerminal(t)
      BY <2>1, <3>2 DEF TaskInv, NodesSound
    <3>3. CASE ~ IsTerminal(t)
      <4>1. Live(t)
        BY <3>1, <3>3 DEF Live, Accepted
      <4>2. t \in Members(g)
        BY <1>7, <2>1, <4>1 DEF Members, Live, TaskInv, MembersSound, RegistryReachesLive
      <4>3. CASE Cancellable(t)
        BY <1>7, <2>1, <2>4, <4>2, <4>3
      <4>4. CASE ~ Cancellable(t)
        BY <2>1, <2>2, <4>1, <4>4 DEF Cancellable, Live
      <4>. QED
        BY <4>3, <4>4
    <3>. QED
      BY <3>2, <3>3
  <2>. QED
    BY <2>3, <2>4
<1>8. ClosedGroupDrains'
  BY <1>7 DEF ClosedGroupDrains
<1>. QED
  BY <1>6, <1>8

-----------------------------------------------------------------------------
(* The calls that close. *)

LEMMA CascadeClosed ==
  ASSUME TaskInv, NEW seeds \in SUBSET Task
  PROVE  /\ Cascade(seeds) \subseteq Task
         /\ \A t \in Cascade(seeds) : Cancellable(t)
         /\ \A t \in seeds : Cancellable(t) => t \in Cascade(seeds)
         /\ \A d \in Cascade(seeds), t \in Task : <<d, t>> \in edges => t \in Cascade(seeds)
<1>1. edges \subseteq Node \X Task
  BY DEF TaskInv, TypeOK
<1>2. \A d \in Node, t \in Task : <<d, t>> \in edges => Cancellable(t)
  BY DEF TaskInv, EdgesSound, Cancellable, Accepted, IsTerminal, Terminal
<1>3. Cascade(seeds) \subseteq Node
  BY CascadeIs, Distinct
<1>. QED
  BY <1>1, <1>2, <1>3, CascadeIs

LEMMA FinalizeIs ==
  ASSUME TaskInv, NEW th \in Thread, NEW doomed \in SUBSET Task, NEW done \in SUBSET Group,
         Finalize(th, doomed, done), gOutcome' \in [Group -> Terminal]
  PROVE  /\ finalizing' \in [Node -> BOOLEAN] /\ pending' \in [Node -> Status]
         /\ gQueued' \in [Group -> BOOLEAN] /\ batch' \in [Thread -> SUBSET Node]
         /\ batch' = [batch EXCEPT ![th] = batch[th] \cup doomed \cup done]
         /\ \A n \in Node : /\ finalizing'[n] <=> finalizing[n] \/ n \in doomed \/ n \in done
                            /\ n \in doomed => pending'[n] = "CANCELLED"
                            /\ n \in done => pending'[n] = gOutcome'[n]
                            /\ n \notin doomed /\ n \notin done => pending'[n] = pending[n]
         /\ \A g \in Group : gQueued'[g] <=> gQueued[g] \/ g \in done
<1>1. \A n \in Node : n \in done => n \notin doomed
  BY Distinct
<1>2. finalizing' = [n \in Node |-> finalizing[n] \/ n \in doomed \cup done]
  BY DEF Finalize
<1>3. /\ finalizing' \in [Node -> BOOLEAN]
      /\ \A n \in Node : finalizing'[n] <=> finalizing[n] \/ n \in doomed \/ n \in done
  <2>1. \A n \in Node : (finalizing[n] \/ n \in doomed \cup done) \in BOOLEAN
    OBVIOUS
  <2>. QED
    BY <1>2, <2>1
<1>4. pending' = [n \in Node |-> IF n \in doomed THEN "CANCELLED"
                                 ELSE IF n \in done THEN gOutcome'[n] ELSE pending[n]]
  BY DEF Finalize
<1>5. /\ \A n \in Node : /\ n \in doomed => pending'[n] = "CANCELLED"
                         /\ n \in done => pending'[n] = gOutcome'[n]
                         /\ n \notin doomed /\ n \notin done => pending'[n] = pending[n]
  BY <1>1, <1>4
<1>6. pending' \in [Node -> Status]
  <2>1. \A n \in Node : pending'[n] \in Status
    BY <1>5 DEF Status, Terminal, TaskInv, TypeOK
  <2>. QED
    BY <1>4, <2>1
<1>7. gQueued' = [g \in Group |-> gQueued[g] \/ g \in done]
  BY DEF Finalize
<1>8. /\ gQueued' \in [Group -> BOOLEAN]
      /\ \A g \in Group : gQueued'[g] <=> gQueued[g] \/ g \in done
  <2>1. \A g \in Group : (gQueued[g] \/ g \in done) \in BOOLEAN
    OBVIOUS
  <2>. QED
    BY <1>7, <2>1
<1>9. /\ batch' = [batch EXCEPT ![th] = batch[th] \cup doomed \cup done]
      /\ batch' \in [Thread -> SUBSET Node]
  <2>1. batch[th] \cup doomed \cup done \in SUBSET Node
    BY Distinct DEF TaskInv, TypeOK
  <2>2. batch' = [batch EXCEPT ![th] = batch[th] \cup doomed \cup done]
    BY DEF Finalize
  <2>. QED
    BY <2>1, <2>2 DEF TaskInv, TypeOK
<1>. QED
  BY <1>3, <1>5, <1>6, <1>8, <1>9

(* No node is published. *)
LEMMA ClosesSettles ==
  ASSUME TaskInv, NEW th \in Thread, NEW doomed \in SUBSET Task, NEW done \in SUBSET Group,
         Finalize(th, doomed, done), gOutcome' \in [Group -> Terminal],
         \A t \in doomed : Cancellable(t), \A g \in done : Accepted(g) /\ ~ gQueued[g],
         UNCHANGED <<status, captures>>
  PROVE  Settles({}, "COMPLETED", {}, doomed, done)
<1>. DEFINE N == {}
<1>1. \A g \in Group : gOutcome'[g] \in Terminal
  OBVIOUS
<1>2. N \subseteq Node /\ N \subseteq Task /\ \A n : n \notin N
  OBVIOUS
<1>3. status' = status /\ captures' = captures
  OBVIOUS
<1>4. \A n \in Node : finalizing'[n] <=> finalizing[n] \/ n \in doomed \/ n \in done
  BY FinalizeIs
<1>7. \A n \in Node : /\ n \in doomed => pending'[n] = "CANCELLED"
                      /\ n \in done => pending'[n] = gOutcome'[n]
                      /\ n \notin doomed /\ n \notin done => pending'[n] = pending[n]
  <2>1. \A n \in Node : n \in done => n \notin doomed
    BY Distinct
  <2>2. pending' = [n \in Node |-> IF n \in doomed THEN "CANCELLED"
                                   ELSE IF n \in done THEN gOutcome'[n] ELSE pending[n]]
    BY DEF Finalize
  <2>. QED
    BY <2>1, <2>2
<1>6. \A g \in Group : gQueued'[g] <=> gQueued[g] \/ g \in done
  BY FinalizeIs
<1>. HIDE DEF N
<1>5. Settles(N, "COMPLETED", N, doomed, done)
  BY <1>1, <1>2, <1>3, <1>4, <1>6, <1>7 DEF Settles
<1>. QED
  BY <1>5 DEF N

LEMMA ClosingKeeps ==
  ASSUME TaskInv, NEW th \in Thread, NEW doomed \in SUBSET Task, NEW done \in SUBSET Group,
         Finalize(th, doomed, done), gOutcome' \in [Group -> Terminal],
         gSealed' \in [Group -> BOOLEAN], remaining' \in [Task -> Nat], stopping' \in BOOLEAN,
         \A t \in doomed : Cancellable(t),
         \A d \in doomed, t \in Task : <<d, t>> \in edges => t \in doomed,
         \A g \in done : Accepted(g) /\ ~ gQueued[g] /\ gSealed'[g] /\ gOutstanding'[g] = 0,
         edges' = Unlink(doomed),
         \A t \in Task : t \notin doomed => remaining'[t] = remaining[t],
         \A g \in Group : gSealed[g] => gSealed'[g],
         \A g \in Group : gSealed'[g] => gSealed[g] \/ Accepted(g),
         \A g \in Group : \/ gOutcome'[g] = gOutcome[g]
                          \/ /\ gOutcome[g] # "FAILED" /\ gOutcome'[g] = "CANCELLED"
                             /\ \A t \in Members(g) : Cancellable(t) => t \in doomed,
         UNCHANGED <<status, captures, declared, admitted, member, gOutstanding, gFirstFailure>>,
         UNCHANGED <<active, retired, outstanding, undo, slot, ready>>,
         pc' \in [Thread -> {"calling", "cancelling", "joining", "joined",
                             "idle", "destroying", "completing", "exited"}],
         cur' \in [Thread -> Task \cup {None}],
         \A w \in Worker : pc'[w] = pc[w] /\ cur'[w] = cur[w], HostsSound'
  PROVE  TaskInv'
<1>. DEFINE N == {}
            woken == {}
            st == "COMPLETED"
<1>1. Settles(N, st, woken, doomed, done)
  BY ClosesSettles
<1>2. /\ finalizing' \in [Node -> BOOLEAN] /\ pending' \in [Node -> Status]
      /\ gQueued' \in [Group -> BOOLEAN] /\ batch' \in [Thread -> SUBSET Node]
      /\ batch' = [batch EXCEPT ![th] = batch[th] \cup doomed \cup done]
  BY FinalizeIs
<1>3. \A d \in Node, t \in Task :
        <<d, t>> \in edges' <=> <<d, t>> \in edges /\ d \notin doomed /\ t \notin doomed
  <2>. TAKE d \in Node, t \in Task
  <2>1. <<d, t>>[1] = d /\ <<d, t>>[2] = t
    OBVIOUS
  <2>. QED
    BY <2>1 DEF Unlink
<1>4. TypeOK'
  <2>1. edges' \subseteq Node \X Task
    BY DEF Unlink, TaskInv, TypeOK
  <2>. QED
    BY <1>2, <2>1 DEF TaskInv, TypeOK
<1>5. \A n : n \notin N /\ n \notin woken
  OBVIOUS
<1>6. slot' = slot /\ UNCHANGED active /\ UNCHANGED undo /\ UNCHANGED declared /\ UNCHANGED admitted
  OBVIOUS
<1>. HIDE DEF N, woken, st
<1>7. NodesSound' /\ TasksSound'
  BY <1>1, SettlesNodes
<1>8. EndersSound'
  BY <1>1, <1>2, <1>5, <1>6, SettlesEnders
<1>9. WorkersSound'
  BY <1>1, <1>5, SettlesWorkers
<1>10. UndoSound'
  BY <1>1, <1>6, SettlesUndo
<1>11. EdgesSound' /\ CountsSound' /\ DeclaredSound'
  <2>1. \A d \in Node, t \in Task :
          <<d, t>> \in edges' <=> <<d, t>> \in edges /\ d \notin doomed /\ t \notin doomed /\ d \notin N
    BY <1>3, <1>5
  <2>2. \A d \in N, t \in Task : <<d, t>> \in edges =>
          t \in doomed \/ (st = "COMPLETED" /\ N = {d} /\ remaining'[t] = remaining[t] - 1)
    BY <1>5
  <2>3. \A t \in Task : t \notin doomed /\ t \notin N /\ (\A d \in N : <<d, t>> \notin edges) =>
          remaining'[t] = remaining[t] /\ t \notin woken
    BY <1>5
  <2>4. \A t \in Task : t \in woken <=>
          t \notin doomed /\ remaining[t] = 1 /\ \E d \in N : <<d, t>> \in edges
    BY <1>5
  <2>. QED
    BY <1>1, <1>6, <2>1, <2>2, <2>3, <2>4, SettlesGraph
<1>12. RegistryReachesLive' /\ Unretired' = Unretired
  BY <1>1, <1>5, <1>6, SettlesRegistry
<1>13. OutstandingIsUnretired'
  <2>1. Undoing' = Undoing /\ outstanding' = outstanding
    BY DEF Undoing
  <2>. QED
    BY <1>12, <2>1 DEF TaskInv, OutstandingIsUnretired, Unretired, Undoing
<1>14. MembersSound'
  <2>1. \A g \in Group : gOutstanding'[g] = Cardinality(MembersOf(g)')
    BY DEF TaskInv, MembersSound, MembersOf
  <2>2. \A t \in Task : member'[t] = member[t] \/ (member'[t] = None /\ ~ Live(t)')
    OBVIOUS
  <2>. QED
    BY <1>1, <1>6, <2>1, <2>2, SettlesMembers
<1>15. GroupsSound'
  <2>1. \A g \in Group : gOutcome'[g] = "FAILED" <=> gFirstFailure'[g] # None
    BY DEF TaskInv, GroupsSound
  <2>2. \A g \in Group : gQueued[g] => gOutstanding'[g] = gOutstanding[g]
    OBVIOUS
  <2>3. \A g \in done : gSealed'[g] /\ gOutstanding'[g] = 0
    OBVIOUS
  <2>. QED
    BY <1>1, <2>1, <2>2, <2>3, SettlesGroups
<1>16. VerdictsSound' /\ ClosedGroupDrains'
  <2>1. \A g \in Group : \/ gOutcome'[g] = gOutcome[g]
                         \/ gOutcome[g] # "FAILED" /\ gOutcome'[g] # "COMPLETED"
    OBVIOUS
  <2>2. \A g \in Group : ~ (gOutcome'[g] = "FAILED" /\ gOutcome[g] # "FAILED")
    OBVIOUS
  <2>3. \A g \in Group : gOutcome[g] = "COMPLETED" /\ gOutcome'[g] # "COMPLETED" =>
          \A t \in Members(g) : Cancellable(t) => t \in doomed
    OBVIOUS
  <2>. QED
    BY <1>1, <1>5, <1>6, <2>1, <2>2, <2>3, SettlesVerdicts
<1>. QED
  BY <1>4, <1>7, <1>8, <1>9, <1>10, <1>11, <1>12, <1>13, <1>14, <1>15, <1>16 DEF TaskInv

LEMMA SealKeeps ==
  ASSUME TaskInv, NEW th \in Thread, NEW g \in Group, SealGroup(th, g)
  PROVE  TaskInv'
<1>. DEFINE doomed == {}
            done == Completing({g})
<1>1. /\ gSealed' = [gSealed EXCEPT ![g] = TRUE] /\ Accepted(g)
      /\ gOutcome' = gOutcome /\ Finalize(th, doomed, done)
      /\ UNCHANGED <<edges, remaining, stopping, pc, cur>>
      /\ UNCHANGED <<status, captures, declared, admitted, member, gOutstanding, gFirstFailure>>
      /\ UNCHANGED <<active, retired, outstanding, undo, slot, ready>>
  BY DEF SealGroup, graph, registry, history
<1>2. done \in SUBSET Group /\ doomed \in SUBSET Task
  BY DEF Completing
<1>3. /\ gOutcome' \in [Group -> Terminal] /\ gSealed' \in [Group -> BOOLEAN]
      /\ remaining' \in [Task -> Nat] /\ stopping' \in BOOLEAN
      /\ pc' \in [Thread -> {"calling", "cancelling", "joining", "joined",
                             "idle", "destroying", "completing", "exited"}]
      /\ cur' \in [Thread -> Task \cup {None}]
  BY <1>1 DEF TaskInv, TypeOK
<1>4. \A h \in done : Accepted(h) /\ ~ gQueued[h] /\ gSealed'[h] /\ gOutstanding'[h] = 0
  BY <1>1 DEF Completing
<1>5. \A d : d \notin doomed
  OBVIOUS
<1>6. edges' = Unlink(doomed)
  BY <1>1 DEF Unlink
<1>7. \A h \in Group : /\ gSealed[h] => gSealed'[h]
                       /\ gSealed'[h] => gSealed[h] \/ Accepted(h)
  BY <1>1 DEF TaskInv, TypeOK
<1>8. \A h \in Group : gOutcome'[h] = gOutcome[h]
  BY <1>1
<1>9. HostsSound'
  BY <1>1 DEF TaskInv, HostsSound
<1>10. /\ \A w \in Worker : pc'[w] = pc[w] /\ cur'[w] = cur[w]
       /\ \A t \in Task : remaining'[t] = remaining[t]
  BY <1>1
<1>. HIDE DEF doomed, done
<1>. QED
  BY <1>1, <1>2, <1>3, <1>4, <1>5, <1>6, <1>7, <1>8, <1>9, <1>10, ClosingKeeps

LEMMA CancelGroupKeeps ==
  ASSUME TaskInv, NEW th \in Thread, NEW g \in Group, CancelGroup(th, g)
  PROVE  TaskInv'
<1>. DEFINE seeds == Members(g)
            doomed == Cascade(seeds)
            done == Completing({g})
<1>1. /\ gOutcome' = [gOutcome EXCEPT ![g] = IF gOutcome[g] = "FAILED" THEN gOutcome[g] ELSE "CANCELLED"]
      /\ gSealed' = [gSealed EXCEPT ![g] = TRUE] /\ Accepted(g)
      /\ Finalize(th, doomed, done) /\ CancelAll(doomed)
      /\ UNCHANGED <<stopping, pc, cur>>
      /\ UNCHANGED <<status, captures, declared, admitted, member, gOutstanding, gFirstFailure>>
      /\ UNCHANGED <<active, retired, outstanding, undo, slot, ready>>
  BY DEF CancelGroup, registry, history
<1>2. seeds \in SUBSET Task /\ done \in SUBSET Group
  BY DEF Completing, Members
<1>3. \A h \in done : Accepted(h) /\ ~ gQueued[h] /\ gSealed'[h] /\ gOutstanding'[h] = 0
  BY <1>1 DEF Completing
<1>4. \A h \in Group : /\ gSealed[h] => gSealed'[h]
                       /\ gSealed'[h] => gSealed[h] \/ Accepted(h)
  BY <1>1 DEF TaskInv, TypeOK
<1>. HIDE DEF done, seeds
<1>5. /\ doomed \in SUBSET Task
      /\ \A t \in doomed : Cancellable(t)
      /\ \A d \in doomed, t \in Task : <<d, t>> \in edges => t \in doomed
      /\ \A t \in seeds : Cancellable(t) => t \in doomed
  BY <1>2, CascadeClosed
<1>. HIDE DEF doomed
<1>6. \A h \in Group : \/ gOutcome'[h] = gOutcome[h]
                       \/ /\ gOutcome[h] # "FAILED" /\ gOutcome'[h] = "CANCELLED"
                          /\ \A t \in Members(h) : Cancellable(t) => t \in doomed
  <2>1. \A h \in Group : h # g => gOutcome'[h] = gOutcome[h]
    BY <1>1 DEF TaskInv, TypeOK
  <2>2. gOutcome[g] = "FAILED" => gOutcome'[g] = gOutcome[g]
    BY <1>1 DEF TaskInv, TypeOK
  <2>3. gOutcome[g] # "FAILED" => gOutcome'[g] = "CANCELLED"
    BY <1>1 DEF TaskInv, TypeOK
  <2>. QED
    BY <1>5, <2>1, <2>2, <2>3 DEF seeds
<1>7. gOutcome' \in [Group -> Terminal]
  <2>1. (IF gOutcome[g] = "FAILED" THEN gOutcome[g] ELSE "CANCELLED") \in Terminal
    BY DEF Terminal
  <2>. QED
    BY <1>1, <2>1 DEF TaskInv, TypeOK
<1>8. /\ gSealed' \in [Group -> BOOLEAN] /\ stopping' \in BOOLEAN
      /\ pc' \in [Thread -> {"calling", "cancelling", "joining", "joined",
                             "idle", "destroying", "completing", "exited"}]
      /\ cur' \in [Thread -> Task \cup {None}]
  BY <1>1 DEF TaskInv, TypeOK
<1>9. /\ edges' = Unlink(doomed) /\ remaining' \in [Task -> Nat]
      /\ \A t \in Task : t \notin doomed => remaining'[t] = remaining[t]
  BY <1>1 DEF CancelAll, TaskInv, TypeOK
<1>10. HostsSound'
  BY <1>1 DEF TaskInv, HostsSound
<1>11. \A w \in Worker : pc'[w] = pc[w] /\ cur'[w] = cur[w]
  BY <1>1
<1>. QED
  BY <1>1, <1>2, <1>3, <1>4, <1>5, <1>6, <1>7, <1>8, <1>9, <1>10, <1>11, ClosingKeeps

LEMMA CancelKeeps ==
  ASSUME TaskInv, NEW th \in Thread, Cancel(th)
  PROVE  TaskInv'
<1>1. th \in Host /\ th \notin Worker /\ cur[th] \in Task
  <2>1. th \notin Worker
    BY DEF Cancel, TaskInv, WorkersSound
  <2>. QED
    BY <2>1 DEF Cancel, TaskInv, HostsSound, Thread
<1>. DEFINE seeds == {cur[th]}
            doomed == Cascade(seeds)
            done == {}
<1>2. /\ UNCHANGED <<gSealed, gOutcome, stopping>>
      /\ Finalize(th, doomed, done) /\ CancelAll(doomed)
      /\ pc' = [pc EXCEPT ![th] = "calling"] /\ cur' = [cur EXCEPT ![th] = None]
      /\ UNCHANGED <<status, captures, declared, admitted, member, gOutstanding, gFirstFailure>>
      /\ UNCHANGED <<active, retired, outstanding, undo, slot, ready>>
  BY DEF Cancel, registry, history
<1>3. seeds \in SUBSET Task /\ done \in SUBSET Group /\ \A h : h \notin done
  BY <1>1
<1>. HIDE DEF done, seeds
<1>4. /\ doomed \in SUBSET Task
      /\ \A t \in doomed : Cancellable(t)
      /\ \A d \in doomed, t \in Task : <<d, t>> \in edges => t \in doomed
  BY <1>3, CascadeClosed
<1>. HIDE DEF doomed
<1>5. \A h \in Group : gSealed'[h] = gSealed[h] /\ gOutcome'[h] = gOutcome[h]
  BY <1>2
<1>6. /\ gOutcome' \in [Group -> Terminal] /\ gSealed' \in [Group -> BOOLEAN]
      /\ stopping' \in BOOLEAN
      /\ pc' \in [Thread -> {"calling", "cancelling", "joining", "joined",
                             "idle", "destroying", "completing", "exited"}]
      /\ cur' \in [Thread -> Task \cup {None}]
  BY <1>2 DEF TaskInv, TypeOK
<1>7. /\ edges' = Unlink(doomed) /\ remaining' \in [Task -> Nat]
      /\ \A t \in Task : t \notin doomed => remaining'[t] = remaining[t]
  BY <1>2 DEF CancelAll, TaskInv, TypeOK
<1>8. /\ \A w \in Worker : pc'[w] = pc[w] /\ cur'[w] = cur[w]
      /\ \A h \in Host : h # th => pc'[h] = pc[h] /\ cur'[h] = cur[h]
      /\ pc'[th] = "calling"
  BY <1>1, <1>2, Distinct DEF TaskInv, TypeOK
<1>9. HostsSound'
  BY <1>8 DEF TaskInv, HostsSound
<1>. QED
  BY <1>2, <1>3, <1>4, <1>5, <1>6, <1>7, <1>8, <1>9, ClosingKeeps

LEMMA StopKeeps ==
  ASSUME TaskInv, NEW th \in Thread, StopWorkers(th)
  PROVE  TaskInv'
<1>. DEFINE open == OpenGroups
            seeds == active \cap Task
            doomed == Cascade(seeds)
            done == Completing(open)
<1>1. /\ th \in Host /\ th \notin Worker /\ stopping' = TRUE
      /\ gOutcome' = [g \in Group |->
           IF g \in open /\ gOutcome[g] # "FAILED" THEN "CANCELLED" ELSE gOutcome[g]]
      /\ gSealed' = [g \in Group |-> gSealed[g] \/ g \in open]
      /\ Finalize(th, doomed, done) /\ CancelAll(doomed)
      /\ pc' = [pc EXCEPT ![th] = "joining"] /\ cur' = cur
      /\ UNCHANGED <<status, captures, declared, admitted, member, gOutstanding, gFirstFailure>>
      /\ UNCHANGED <<active, retired, outstanding, undo, slot, ready>>
  BY Distinct DEF StopWorkers, registry, history
<1>2. /\ seeds \in SUBSET Task /\ done \in SUBSET Group
      /\ \A h \in Group : Members(h) \subseteq seeds
  BY DEF Completing, OpenGroups, Members
<1>3. \A h \in done : Accepted(h) /\ ~ gQueued[h] /\ gSealed'[h] /\ gOutstanding'[h] = 0
  BY <1>1 DEF Completing, OpenGroups
<1>4. /\ gSealed' \in [Group -> BOOLEAN]
      /\ \A h \in Group : /\ gSealed[h] => gSealed'[h]
                          /\ gSealed'[h] => gSealed[h] \/ Accepted(h)
  <2>1. \A g \in Group : (gSealed[g] \/ g \in open) \in BOOLEAN
    OBVIOUS
  <2>. QED
    BY <1>1, <2>1 DEF OpenGroups
<1>. HIDE DEF done, seeds, open
<1>5. /\ doomed \in SUBSET Task
      /\ \A t \in doomed : Cancellable(t)
      /\ \A d \in doomed, t \in Task : <<d, t>> \in edges => t \in doomed
      /\ \A t \in seeds : Cancellable(t) => t \in doomed
  BY <1>2, CascadeClosed
<1>. HIDE DEF doomed
<1>6. \A h \in Group : \/ gOutcome'[h] = gOutcome[h]
                       \/ /\ gOutcome[h] # "FAILED" /\ gOutcome'[h] = "CANCELLED"
                          /\ \A t \in Members(h) : Cancellable(t) => t \in doomed
  BY <1>1, <1>2, <1>5
<1>7. gOutcome' \in [Group -> Terminal]
  BY <1>1 DEF TaskInv, TypeOK, Terminal
<1>8. /\ stopping' \in BOOLEAN
      /\ pc' \in [Thread -> {"calling", "cancelling", "joining", "joined",
                             "idle", "destroying", "completing", "exited"}]
      /\ cur' \in [Thread -> Task \cup {None}]
  BY <1>1 DEF TaskInv, TypeOK
<1>9. /\ edges' = Unlink(doomed) /\ remaining' \in [Task -> Nat]
      /\ \A t \in Task : t \notin doomed => remaining'[t] = remaining[t]
  BY <1>1 DEF CancelAll, TaskInv, TypeOK
<1>10. /\ \A w \in Worker : pc'[w] = pc[w] /\ cur'[w] = cur[w]
       /\ \A h \in Host : h # th => pc'[h] = pc[h] /\ cur'[h] = cur[h]
       /\ pc'[th] = "joining"
  BY <1>1, Distinct DEF TaskInv, TypeOK
<1>11. HostsSound'
  BY <1>10 DEF TaskInv, HostsSound
<1>. QED
  BY <1>1, <1>2, <1>3, <1>4, <1>5, <1>6, <1>7, <1>8, <1>9, <1>10, <1>11, ClosingKeeps

-----------------------------------------------------------------------------
(* The accounting of a submission is undone; it may have been all that its group
   was waiting for. *)

LEMMA RollbackAccountingKeeps ==
  ASSUME TaskInv, NEW th \in Thread, RollbackAccounting(th)
  PROVE  TaskInv'
<1>1. PICK t \in Task : t = undo[th] /\ captures[t] = "destroyed" /\ status[t] = "CREATED"
  BY Distinct DEF RollbackAccounting, TaskInv, TypeOK, UndoSound
<1>2. PICK g \in Group \cup {None} : g = member[t] /\ (g # None => Accepted(g))
  BY <1>1 DEF TaskInv, TypeOK, MembersSound
<1>. DEFINE done == Completing({g} \ {None})
            N == {}
            st == "COMPLETED"
<1>3. /\ member' = [member EXCEPT ![t] = None]
      /\ gOutstanding' =
           [h \in Group |-> IF h = g THEN gOutstanding[h] - 1 ELSE gOutstanding[h]]
      /\ Finalize(th, N, done) /\ outstanding' = outstanding - 1
      /\ undo' = [undo EXCEPT ![th] = None]
      /\ gSealed' = gSealed /\ gOutcome' = gOutcome /\ gFirstFailure' = gFirstFailure
      /\ UNCHANGED <<status, captures>> /\ UNCHANGED <<edges, remaining, declared, admitted>>
      /\ UNCHANGED <<active, retired, stopping, ready>> /\ UNCHANGED <<slot, pc, cur>>
  BY <1>1, <1>2 DEF RollbackAccounting, graph, history
<1>4. done \in SUBSET Group /\ \A h \in done : h = g /\ Accepted(h) /\ ~ gQueued[h]
                                              /\ gSealed'[h] /\ gOutstanding'[h] = 0
  BY <1>2 DEF Completing
<1>5. N \in SUBSET Task /\ \A n : n \notin N
  OBVIOUS
<1>. HIDE DEF N, done
<1>6. gOutcome' \in [Group -> Terminal]
  BY <1>3 DEF TaskInv, TypeOK
<1>7. Settles(N, st, N, N, done)
  <2>1. \A u \in N : Cancellable(u)
    BY <1>5
  <2>. QED
    BY <1>3, <1>4, <1>5, <1>6, <2>1, ClosesSettles DEF N
<1>8. /\ finalizing' \in [Node -> BOOLEAN] /\ pending' \in [Node -> Status]
      /\ gQueued' \in [Group -> BOOLEAN] /\ batch' \in [Thread -> SUBSET Node]
      /\ batch' = [batch EXCEPT ![th] = batch[th] \cup N \cup done]
  <2>1. Finalize(th, N, done) /\ done \in SUBSET Group /\ N \in SUBSET Task
    BY <1>3, <1>4, <1>5
  <2>2. finalizing' \in [Node -> BOOLEAN] /\ pending' \in [Node -> Status]
    BY <1>6, <2>1, FinalizeIs
  <2>3. gQueued' \in [Group -> BOOLEAN] /\ batch' \in [Thread -> SUBSET Node]
    BY <1>6, <2>1, FinalizeIs
  <2>4. batch' = [batch EXCEPT ![th] = batch[th] \cup N \cup done]
    BY <2>1 DEF Finalize
  <2>. QED
    BY <2>2, <2>3, <2>4
<1>9. member'[t] = None /\ \A u \in Task : u # t => member'[u] = member[u]
  BY <1>1, <1>3 DEF TaskInv, TypeOK
<1>10. \A h \in Group : /\ gOutstanding'[h] = Cardinality(MembersOf(h)')
                        /\ gOutstanding'[h] \in Nat
                        /\ gQueued[h] => h # g /\ gOutstanding'[h] = gOutstanding[h]
  <2>1. \A h \in Group : gOutstanding'[h] = IF h = g THEN gOutstanding[h] - 1 ELSE gOutstanding[h]
    BY <1>3
  <2>. QED
    BY <1>2, <1>9, <2>1, LeaveIs
<1>11. /\ \A ti \in Thread : ti # th => undo'[ti] = undo[ti]
       /\ undo'[th] = None
  BY <1>3 DEF TaskInv, TypeOK
<1>12. Undoing' = Undoing \ {th} /\ th \in Undoing /\ IsFiniteSet(Undoing)
  BY <1>1, <1>11, NodesFinite, Distinct DEF Undoing
<1>13. RegistryReachesLive' /\ Unretired' = Unretired
  BY <1>3, <1>5, <1>7, SettlesRegistry
<1>14. OutstandingIsUnretired' /\ outstanding' \in Nat
  <2>1. outstanding = Cardinality(Unretired) + Cardinality(Undoing)
    BY DEF TaskInv, OutstandingIsUnretired, Unretired, Undoing
  <2>2. Cardinality(Unretired) \in Nat
    BY NodesFinite DEF Unretired
  <2>3. /\ Cardinality(Undoing') = Cardinality(Undoing) - 1
        /\ Cardinality(Undoing) \in Nat /\ Cardinality(Undoing) > 0
    BY <1>12, DropOne
  <2>4. outstanding' = Cardinality(Unretired') + Cardinality(Undoing') /\ outstanding' \in Nat
    BY <1>3, <1>13, <2>1, <2>2, <2>3
  <2>. QED
    BY <2>4 DEF OutstandingIsUnretired, Unretired, Undoing
<1>15. TypeOK'
  <2>1. member' \in [Task -> Group \cup {None}]
    BY <1>3 DEF TaskInv, TypeOK
  <2>2. gOutstanding' \in [Group -> Nat]
    BY <1>3, <1>10
  <2>3. undo' \in [Thread -> Task \cup {None}]
    BY <1>3 DEF TaskInv, TypeOK
  <2>. QED
    BY <1>3, <1>8, <1>14, <2>1, <2>2, <2>3 DEF TaskInv, TypeOK
<1>16. NodesSound' /\ TasksSound'
  BY <1>7, SettlesNodes
<1>17. EndersSound'
  <2>1. slot' = slot /\ \A n \in N : status[n] = "RUNNING"
    BY <1>3, <1>5
  <2>. QED
    BY <1>7, <1>8, <2>1, SettlesEnders
<1>18. WorkersSound' /\ HostsSound'
  <2>1. /\ \A w \in Worker : pc'[w] = pc[w] /\ cur'[w] = cur[w]
        /\ \A n \in N : status[n] # "RUNNING"
    BY <1>3, <1>5
  <2>2. HostsSound'
    BY <1>3 DEF TaskInv, HostsSound
  <2>. QED
    BY <1>7, <2>1, <2>2, SettlesWorkers
<1>19. UndoSound'
  <2>1. \A ti \in Thread : undo'[ti] # None => /\ status'[undo'[ti]] = "CREATED"
                                               /\ captures'[undo'[ti]] \in {"stored", "destroyed"}
    BY <1>3, <1>11 DEF TaskInv, UndoSound
  <2>2. \A ti, tj \in Thread : undo'[ti] = undo'[tj] /\ undo'[ti] # None => ti = tj
    BY <1>11 DEF TaskInv, UndoSound
  <2>3. ASSUME NEW u \in Task, status'[u] = "CREATED"
        PROVE  \/ captures'[u] \in {"none", "destroyed"}
               \/ captures'[u] = "stored" /\ \E ti \in Thread : undo'[ti] = u
    <3>1. CASE captures[u] \in {"none", "destroyed"}
      BY <1>3, <3>1
    <3>2. CASE captures[u] \notin {"none", "destroyed"}
      <4>1. PICK ti \in Thread : captures[u] = "stored" /\ undo[ti] = u
        BY <1>3, <2>3, <3>2 DEF TaskInv, UndoSound
      <4>2. ti # th
        BY <1>1, <4>1
      <4>. QED
        BY <1>3, <1>11, <4>1, <4>2
    <3>. QED
      BY <3>1, <3>2
  <2>. QED
    BY <2>1, <2>2, <2>3 DEF UndoSound
<1>20. EdgesSound' /\ CountsSound' /\ DeclaredSound'
  <2>1. /\ \A d \in Node, u \in Task : <<d, u>> \in edges' <=>
             <<d, u>> \in edges /\ d \notin N /\ u \notin N /\ d \notin N
        /\ \A d \in N, u \in Task : <<d, u>> \in edges => u \in N
        /\ \A d \in N, u \in Task : <<d, u>> \in edges =>
             u \in N \/ (st = "COMPLETED" /\ N = {d} /\ remaining'[u] = remaining[u] - 1)
        /\ \A u \in Task : u \notin N /\ u \notin N /\ (\A d \in N : <<d, u>> \notin edges) =>
             remaining'[u] = remaining[u] /\ u \notin N
        /\ \A u \in Task : u \in N <=>
             u \notin N /\ remaining[u] = 1 /\ \E d \in N : <<d, u>> \in edges
    BY <1>3, <1>5
  <2>. QED
    BY <1>3, <1>7, <2>1, SettlesGraph
<1>21. MembersSound'
  <2>1. ~ Live(t)'
    BY <1>1, <1>3 DEF Live, Accepted
  <2>2. \A u \in Task : member'[u] = member[u] \/ (member'[u] = None /\ ~ Live(u)')
    BY <1>9, <2>1
  <2>. QED
    BY <1>3, <1>7, <1>10, <2>2, SettlesMembers
<1>22. GroupsSound'
  <2>1. \A h \in Group : gOutcome'[h] = "FAILED" <=> gFirstFailure'[h] # None
    BY <1>3 DEF TaskInv, GroupsSound
  <2>2. \A h \in Group : /\ gSealed'[h] => gSealed[h] \/ Accepted(h)
                         /\ gSealed[h] => gSealed'[h]
    BY <1>3
  <2>. QED
    BY <1>4, <1>7, <1>10, <2>1, <2>2, SettlesGroups
<1>23. VerdictsSound' /\ ClosedGroupDrains'
  <2>1. \A h \in Group : gOutcome'[h] = gOutcome[h]
    BY <1>3
  <2>. QED
    BY <1>3, <1>5, <1>7, <2>1, SettlesVerdicts
<1>. QED
  BY <1>13, <1>14, <1>15, <1>16, <1>17, <1>18, <1>19, <1>20, <1>21, <1>22, <1>23 DEF TaskInv

-----------------------------------------------------------------------------
(* Retirement: n ends with st, "out" are its dependents. *)

LEMMA CascadeOfNothing == Cascade({}) = {}
<1>. SUFFICES ASSUME NEW t \in Cascade({}) PROVE FALSE
  OBVIOUS
<1>. DEFINE U == {}
<1>1. /\ U \in SUBSET Task /\ \A s \in {} : Cancellable(s) => s \in U
      /\ \A e \in edges : e[1] \in U /\ Cancellable(e[2]) => e[2] \in U
  OBVIOUS
<1>2. t \in U
  BY <1>1 DEF Cascade
<1>. QED
  BY <1>2

(* What retirement does to the group of the node. *)
GroupEnds(n, st, g, doomed) ==
  \/ /\ gOutcome'[g] = gOutcome[g] /\ gFirstFailure'[g] = gFirstFailure[g]
     /\ gSealed'[g] <=> gSealed[g]
     /\ st = "FAILED" => gOutcome[g] = "FAILED"
     /\ st = "CANCELLED" => gOutcome[g] # "COMPLETED"
  \/ /\ gSealed'[g]
     /\ \/ /\ st = "FAILED" /\ gOutcome[g] # "FAILED"
           /\ gOutcome'[g] = "FAILED" /\ gFirstFailure'[g] = n
        \/ /\ st = "CANCELLED" /\ gOutcome[g] = "COMPLETED"
           /\ gOutcome'[g] = "CANCELLED" /\ gFirstFailure'[g] = gFirstFailure[g]
     /\ \A t \in Members(g) : Cancellable(t) => t \in doomed

(* What it does to the graph. *)
GraphEnds(n, st, woken, doomed) ==
  /\ edges' \subseteq edges
  /\ \A d \in Node, t \in Task :
       <<d, t>> \in edges' <=> <<d, t>> \in edges /\ d \notin doomed /\ t \notin doomed /\ d # n
  /\ \A t \in Task : <<n, t>> \in edges =>
       t \in doomed \/ (st = "COMPLETED" /\ remaining'[t] = remaining[t] - 1)
  /\ \A t \in Task : t \notin doomed /\ t # n /\ <<n, t>> \notin edges =>
       remaining'[t] = remaining[t] /\ t \notin woken
  /\ \A t \in Task : t \in woken <=> t \notin doomed /\ remaining[t] = 1 /\ <<n, t>> \in edges
  /\ remaining' \in [Task -> Nat]

LeavesGraph(n, st, out, released, woken, doomed) ==
  /\ \A t \in Task : <<n, t>> \in edges <=> t \in out
  /\ released = {d \in out : st = "COMPLETED" /\ status[d] = "WAITING" /\ ~ finalizing[d]}
  /\ woken = Woken(released)
  /\ st = "COMPLETED" => doomed = {}
  /\ st # "COMPLETED" => \A t \in out : Cancellable(t) => t \in doomed
  /\ edges' = {e \in Unlink(doomed) : ~ (e[1] = n /\ e[2] \in out)}
  /\ remaining' = [t \in Task |-> IF t = n \/ t \in doomed THEN 0
                                  ELSE IF t \in released THEN remaining[t] - 1
                                  ELSE remaining[t]]

LEMMA RetireGraph ==
  ASSUME TaskInv, NEW n \in Node, NEW st, NEW out \in SUBSET Task,
         NEW released, NEW woken, NEW doomed \in SUBSET Task,
         Ending(n), LeavesGraph(n, st, out, released, woken, doomed)
  PROVE  /\ GraphEnds(n, st, woken, doomed)
         /\ woken \in SUBSET Task
         /\ \A t \in woken : status[t] = "WAITING" /\ ~ finalizing[t] /\ t \notin doomed
<1>. USE DEF LeavesGraph
<1>1. \A t \in out : /\ <<n, t>> \in edges /\ status[t] = "WAITING" /\ ~ finalizing[t]
                     /\ Cancellable(t) /\ t # n /\ t \in Task
  BY DEF TaskInv, EdgesSound, Cancellable, Accepted, IsTerminal, Terminal, Ending
<1>2. \A t \in Task : t \in released <=> t \in out /\ st = "COMPLETED"
  BY <1>1
<1>3. released \subseteq out /\ woken \subseteq released
  BY DEF Woken
<1>4. \A t \in Task : t \in woken <=> t \in released /\ remaining[t] = 1
  BY <1>3 DEF Woken
<1>5. \A d \in Node, t \in Task :
        <<d, t>> \in edges' <=> <<d, t>> \in edges /\ d \notin doomed /\ t \notin doomed /\ d # n
  <2>. TAKE d \in Node, t \in Task
  <2>1. <<d, t>>[1] = d /\ <<d, t>>[2] = t
    OBVIOUS
  <2>. QED
    BY <2>1 DEF Unlink
<1>6. \A t \in released : remaining[t] > 0
  BY <1>1, <1>3 DEF TaskInv, CountsSound
<1>7. \A t \in Task : remaining[t] \in Nat
  BY DEF TaskInv, TypeOK
<1>8. remaining' \in [Task -> Nat]
  BY <1>6, <1>7
<1>9. edges' \subseteq edges
  BY DEF Unlink
<1>10. \A t \in out : t \in doomed \/ (st = "COMPLETED" /\ remaining'[t] = remaining[t] - 1)
  BY <1>1, <1>2
<1>11. \A t \in Task : t \notin doomed /\ t # n /\ t \notin out =>
         remaining'[t] = remaining[t] /\ t \notin woken
  BY <1>3
<1>12. \A t \in Task : t \in woken <=> t \notin doomed /\ remaining[t] = 1 /\ t \in out
  BY <1>1, <1>2, <1>4
<1>13. GraphEnds(n, st, woken, doomed)
  <2>. HIDE DEF TaskInv
  <2>1. \A t \in Task : <<n, t>> \in edges =>
          t \in doomed \/ (st = "COMPLETED" /\ remaining'[t] = remaining[t] - 1)
    BY <1>10
  <2>2. \A t \in Task : t \notin doomed /\ t # n /\ <<n, t>> \notin edges =>
          remaining'[t] = remaining[t] /\ t \notin woken
    BY <1>11
  <2>3. \A t \in Task : t \in woken <=> t \notin doomed /\ remaining[t] = 1 /\ <<n, t>> \in edges
    BY <1>12
  <2>. QED
    BY <1>5, <1>8, <1>9, <2>1, <2>2, <2>3 DEF GraphEnds
<1>. QED
  BY <1>1, <1>3, <1>12, <1>13

LeavesGroup(n, st, g, closed, fails, cancels, doomed) ==
  /\ fails <=> FailsGroup(g, st)
  /\ cancels <=> g # None /\ st = "CANCELLED" /\ gOutcome[g] = "COMPLETED"
  /\ closed = IF fails \/ cancels THEN {g} ELSE {}
  /\ \A h \in closed : \A t \in Members(h) : Cancellable(t) => t \in doomed
  /\ gFirstFailure' = [h \in Group |-> IF h \in closed /\ fails THEN n ELSE gFirstFailure[h]]
  /\ gOutcome' = [h \in Group |-> IF h \in closed THEN st ELSE gOutcome[h]]
  /\ gSealed' = [h \in Group |-> gSealed[h] \/ h \in closed]

LEMMA RetireGroup ==
  ASSUME TaskInv, NEW n \in Node, NEW st \in Terminal, NEW g \in Group \cup {None},
         NEW closed, NEW fails, NEW cancels, NEW doomed \in SUBSET Task,
         g # None => n \in Task, LeavesGroup(n, st, g, closed, fails, cancels, doomed)
  PROVE  /\ gFirstFailure' \in [Group -> Task \cup {None}]
         /\ gOutcome' \in [Group -> Terminal] /\ gSealed' \in [Group -> BOOLEAN]
         /\ \A h \in Group : h # g => /\ gOutcome'[h] = gOutcome[h]
                                      /\ gFirstFailure'[h] = gFirstFailure[h]
                                      /\ gSealed'[h] <=> gSealed[h]
         /\ g # None => GroupEnds(n, st, g, doomed)
<1>. USE DEF LeavesGroup
<1>1. /\ gOutcome \in [Group -> Terminal] /\ gFirstFailure \in [Group -> Task \cup {None}]
      /\ gSealed \in [Group -> BOOLEAN]
      /\ \A h \in Group : gOutcome[h] = "FAILED" <=> gFirstFailure[h] # None
  BY DEF TaskInv, TypeOK, GroupsSound
<1>2. fails => st = "FAILED" /\ g # None /\ gFirstFailure[g] = None
  BY DEF FailsGroup
<1>3. st = "FAILED" /\ g # None /\ gFirstFailure[g] = None => fails
  BY DEF FailsGroup
<1>. HIDE DEF TaskInv
<1>4. CASE fails
  <2>1. closed = {g} /\ g \in Group /\ n \in Task /\ st = "FAILED" /\ gFirstFailure[g] = None
    BY <1>2, <1>4
  <2>2. \A h \in Group : /\ gOutcome'[h] = IF h = g THEN st ELSE gOutcome[h]
                         /\ gFirstFailure'[h] = IF h = g THEN n ELSE gFirstFailure[h]
    BY <1>4, <2>1
  <2>3. \A h \in Group : gSealed'[h] <=> gSealed[h] \/ h = g
    BY <2>1
  <2>4. gFirstFailure' \in [Group -> Task \cup {None}] /\ gOutcome' \in [Group -> Terminal]
    BY <1>1, <2>1
  <2>5. gSealed' \in [Group -> BOOLEAN]
    <3>1. \A h \in Group : (gSealed[h] \/ h \in closed) \in BOOLEAN
      OBVIOUS
    <3>. QED
      BY <3>1
  <2>6. gOutcome[g] # "FAILED" /\ \A t \in Members(g) : Cancellable(t) => t \in doomed
    BY <1>1, <2>1
  <2>7. GroupEnds(n, st, g, doomed)
    <3>1. gSealed'[g] /\ gOutcome'[g] = "FAILED" /\ gFirstFailure'[g] = n
      BY <2>1, <2>2, <2>3
    <3>. QED
      BY <2>1, <2>6, <3>1 DEF GroupEnds
  <2>. QED
    BY <2>2, <2>3, <2>4, <2>5, <2>7
<1>5. CASE ~ fails /\ cancels
  <2>1. /\ closed = {g} /\ g \in Group /\ n \in Task /\ st = "CANCELLED"
        /\ gOutcome[g] = "COMPLETED"
    BY <1>5
  <2>2. \A h \in Group : /\ gOutcome'[h] = IF h = g THEN st ELSE gOutcome[h]
                         /\ gFirstFailure'[h] = gFirstFailure[h]
    BY <1>5, <2>1
  <2>3. \A h \in Group : gSealed'[h] <=> gSealed[h] \/ h = g
    BY <2>1
  <2>4. gFirstFailure' \in [Group -> Task \cup {None}] /\ gOutcome' \in [Group -> Terminal]
    BY <1>1, <1>5, <2>1
  <2>5. gSealed' \in [Group -> BOOLEAN]
    <3>1. \A h \in Group : (gSealed[h] \/ h \in closed) \in BOOLEAN
      OBVIOUS
    <3>. QED
      BY <3>1
  <2>6. \A t \in Members(g) : Cancellable(t) => t \in doomed
    BY <2>1
  <2>7. GroupEnds(n, st, g, doomed)
    <3>1. gSealed'[g] /\ gOutcome'[g] = "CANCELLED" /\ gFirstFailure'[g] = gFirstFailure[g]
      BY <2>1, <2>2, <2>3
    <3>. QED
      BY <2>1, <2>6, <3>1 DEF GroupEnds
  <2>. QED
    BY <2>2, <2>3, <2>4, <2>5, <2>7
<1>6. CASE ~ fails /\ ~ cancels
  <2>1. closed = {}
    BY <1>6
  <2>2. \A h \in Group : gOutcome'[h] = gOutcome[h] /\ gFirstFailure'[h] = gFirstFailure[h]
    BY <2>1
  <2>3. \A h \in Group : gSealed'[h] <=> gSealed[h]
    BY <2>1
  <2>4. gFirstFailure' \in [Group -> Task \cup {None}] /\ gOutcome' \in [Group -> Terminal]
    BY <1>1, <2>1
  <2>5. gSealed' \in [Group -> BOOLEAN]
    <3>1. \A h \in Group : (gSealed[h] \/ h \in closed) \in BOOLEAN
      OBVIOUS
    <3>. QED
      BY <3>1
  <2>6. g # None => GroupEnds(n, st, g, doomed)
    <3>1. g # None => /\ st = "FAILED" => gOutcome[g] = "FAILED"
                      /\ st = "CANCELLED" => gOutcome[g] # "COMPLETED"
      BY <1>1, <1>3, <1>6
    <3>. QED
      BY <2>2, <2>3, <3>1 DEF GroupEnds
  <2>. QED
    BY <2>2, <2>3, <2>4, <2>5, <2>6
<1>. QED
  BY <1>4, <1>5, <1>6

(* All of it: g is the group the node leaves. *)
Retires(th, n, st, g, woken, doomed, done) ==
  /\ (n \in Task /\ g = member[n] /\ g = admitted[n]) \/ (n \in Group /\ g = None)
  /\ g # None => Accepted(g)
  /\ GraphEnds(n, st, woken, doomed)
  /\ \A t \in woken : status[t] = "WAITING" /\ ~ finalizing[t] /\ t \notin doomed
  /\ \A t \in doomed : Cancellable(t)
  /\ \A d \in doomed, t \in Task : <<d, t>> \in edges => t \in doomed
  /\ \A h \in done : Accepted(h) /\ ~ gQueued[h] /\ gSealed'[h] /\ gOutstanding'[h] = 0
  /\ Finalize(th, doomed, done)
  /\ \A h \in Group : h # g => /\ gOutcome'[h] = gOutcome[h]
                               /\ gFirstFailure'[h] = gFirstFailure[h]
                               /\ gSealed'[h] <=> gSealed[h]
  /\ g # None => GroupEnds(n, st, g, doomed)
  /\ gFirstFailure' \in [Group -> Task \cup {None}]
  /\ gOutcome' \in [Group -> Terminal] /\ gSealed' \in [Group -> BOOLEAN]
  /\ status' = [m \in Node |-> IF m = n THEN st
                               ELSE IF m \in woken THEN "READY" ELSE status[m]]
  /\ ready' = ready \cup woken
  /\ member' = [t \in Task |-> IF t = n THEN None ELSE member[t]]
  /\ gOutstanding' = [h \in Group |-> IF h = g THEN gOutstanding[h] - 1 ELSE gOutstanding[h]]
  /\ retired' = retired \cup {n}
  /\ outstanding' = outstanding - 1
  /\ UNCHANGED <<active, declared, admitted>>

LEMMA RetireIs ==
  ASSUME TaskInv, NEW th \in Thread, NEW n \in Node, NEW st \in Terminal,
         NEW out \in SUBSET Task,
         Ending(n), \A t \in Task : <<n, t>> \in edges <=> t \in out,
         Retire(th, n, st, out)
  PROVE  \E g \in Group \cup {None}, woken \in SUBSET Task, doomed \in SUBSET Task,
            done \in SUBSET Group : Retires(th, n, st, g, woken, doomed, done)
<1>. DEFINE g == IF n \in Task THEN member[n] ELSE None
            released == {d \in out : st = "COMPLETED" /\ status[d] = "WAITING" /\ ~ finalizing[d]}
            woken == Woken(released)
            fails == FailsGroup(g, st)
            cancels == g # None /\ st = "CANCELLED" /\ gOutcome[g] = "COMPLETED"
            closed == IF fails \/ cancels THEN {g} ELSE {}
            seeds == (IF st = "COMPLETED" THEN {} ELSE out) \cup UNION {Members(h) : h \in closed}
            doomed == Cascade(seeds)
            done == Completing({g} \ {None})
<1>1. /\ status' = [m \in Node |-> IF m = n THEN st
                                   ELSE IF m \in woken THEN "READY" ELSE status[m]]
      /\ edges' = {e \in Unlink(doomed) : ~ (e[1] = n /\ e[2] \in out)}
      /\ remaining' = [t \in Task |-> IF t = n \/ t \in doomed THEN 0
                                      ELSE IF t \in released THEN remaining[t] - 1
                                      ELSE remaining[t]]
      /\ ready' = ready \cup woken
      /\ member' = [t \in Task |-> IF t = n THEN None ELSE member[t]]
      /\ gFirstFailure' = [h \in Group |-> IF h \in closed /\ fails THEN n ELSE gFirstFailure[h]]
      /\ gOutcome' = [h \in Group |-> IF h \in closed THEN st ELSE gOutcome[h]]
      /\ gSealed' = [h \in Group |-> gSealed[h] \/ h \in closed]
      /\ gOutstanding' = [h \in Group |-> IF h = g THEN gOutstanding[h] - 1 ELSE gOutstanding[h]]
      /\ Finalize(th, doomed, done)
      /\ retired' = retired \cup {n}
      /\ outstanding' = outstanding - 1
      /\ UNCHANGED <<active, history>>
  BY DEF Retire
<1>2. /\ g \in Group \cup {None} /\ (g # None => Accepted(g) /\ n \in Task)
      /\ (n \in Task /\ g = member[n] /\ g = admitted[n]) \/ (n \in Group /\ g = None)
  <2>1. CASE n \in Task
    <3>1. Live(n)
      BY DEF Ending, Live, TaskInv, NodesSound
    <3>2. g = member[n]
      BY <2>1
    <3>3. member[n] = admitted[n] /\ (member[n] # None => Accepted(member[n]))
      BY <2>1, <3>1 DEF TaskInv, MembersSound
    <3>4. member[n] \in Group \cup {None}
      BY <2>1 DEF TaskInv, TypeOK
    <3>. QED
      BY <2>1, <3>2, <3>3, <3>4
  <2>2. CASE n \notin Task
    BY <2>2 DEF Node
  <2>. QED
    BY <2>1, <2>2
<1>3. done \in SUBSET Group
      /\ \A h \in done : Accepted(h) /\ ~ gQueued[h] /\ gSealed'[h] /\ gOutstanding'[h] = 0
  <2>. HIDE DEF g
  <2>. QED
    BY <1>2 DEF Completing
<1>4. released = {d \in out : st = "COMPLETED" /\ status[d] = "WAITING" /\ ~ finalizing[d]}
  OBVIOUS
<1>5. woken = Woken(released)
  OBVIOUS
<1>6. /\ fails <=> FailsGroup(g, st)
      /\ cancels <=> g # None /\ st = "CANCELLED" /\ gOutcome[g] = "COMPLETED"
      /\ closed = IF fails \/ cancels THEN {g} ELSE {}
  OBVIOUS
<1>7. st = "COMPLETED" => ~ fails /\ ~ cancels
  BY DEF FailsGroup
<1>8. seeds = (IF st = "COMPLETED" THEN {} ELSE out) \cup UNION {Members(h) : h \in closed}
  OBVIOUS
<1>9. doomed = Cascade(seeds)
  OBVIOUS
<1>. HIDE DEF g, released, woken, fails, cancels, closed, seeds, doomed, done
<1>10. /\ seeds \in SUBSET Task
       /\ st = "COMPLETED" => seeds = {}
       /\ st # "COMPLETED" => \A t \in out : t \in seeds
       /\ \A h \in closed : \A t \in Members(h) : t \in seeds
  <2>1. \A h : Members(h) \subseteq Task
    BY DEF Members
  <2>2. st = "COMPLETED" => closed = {}
    BY <1>6, <1>7
  <2>. QED
    BY <1>8, <2>1, <2>2
<1>11. /\ doomed \in SUBSET Task
       /\ \A t \in doomed : Cancellable(t)
       /\ \A d \in doomed, t \in Task : <<d, t>> \in edges => t \in doomed
       /\ \A t \in seeds : Cancellable(t) => t \in doomed
  BY <1>9, <1>10, CascadeClosed
<1>12. st = "COMPLETED" => doomed = {}
  BY <1>9, <1>10, CascadeOfNothing
<1>13. st # "COMPLETED" => \A t \in out : Cancellable(t) => t \in doomed
  BY <1>10, <1>11
<1>14. \A h \in closed : \A t \in Members(h) : Cancellable(t) => t \in doomed
  BY <1>10, <1>11
<1>15. /\ edges' = {e \in Unlink(doomed) : ~ (e[1] = n /\ e[2] \in out)}
       /\ remaining' = [t \in Task |-> IF t = n \/ t \in doomed THEN 0
                                      ELSE IF t \in released THEN remaining[t] - 1
                                      ELSE remaining[t]]
  BY <1>1
<1>16. /\ GraphEnds(n, st, woken, doomed)
       /\ woken \in SUBSET Task
       /\ \A t \in woken : status[t] = "WAITING" /\ ~ finalizing[t] /\ t \notin doomed
  <2>1. LeavesGraph(n, st, out, released, woken, doomed)
    BY <1>4, <1>5, <1>12, <1>13, <1>15, Zenon DEF LeavesGraph
  <2>. QED
    BY <1>11, <2>1, RetireGraph
<1>17. /\ gFirstFailure' = [h \in Group |-> IF h \in closed /\ fails THEN n ELSE gFirstFailure[h]]
       /\ gOutcome' = [h \in Group |-> IF h \in closed THEN st ELSE gOutcome[h]]
       /\ gSealed' = [h \in Group |-> gSealed[h] \/ h \in closed]
  BY <1>1
<1>18. /\ gFirstFailure' \in [Group -> Task \cup {None}]
       /\ gOutcome' \in [Group -> Terminal] /\ gSealed' \in [Group -> BOOLEAN]
       /\ \A h \in Group : h # g => /\ gOutcome'[h] = gOutcome[h]
                                    /\ gFirstFailure'[h] = gFirstFailure[h]
                                    /\ gSealed'[h] <=> gSealed[h]
       /\ g # None => GroupEnds(n, st, g, doomed)
  <2>1. LeavesGroup(n, st, g, closed, fails, cancels, doomed)
    BY <1>6, <1>14, <1>17, Zenon DEF LeavesGroup
  <2>. QED
    BY <1>2, <1>11, <2>1, RetireGroup
<1>19. UNCHANGED <<active, declared, admitted>>
  BY <1>1 DEF history
<1>20. Retires(th, n, st, g, woken, doomed, done)
  BY <1>1, <1>2, <1>3, <1>11, <1>16, <1>18, <1>19 DEF Retires
<1>. QED
  BY <1>2, <1>3, <1>11, <1>16, <1>20

LEMMA RetireKeeps ==
  ASSUME TaskInv, NEW th \in Thread, NEW n \in Node, NEW st \in Terminal,
         NEW out \in SUBSET Task,
         Ending(n), \A t \in Task : <<n, t>> \in edges <=> t \in out,
         Retire(th, n, st, out),
         st = pending[n] \/ (n \in Task /\ st = "FAILED" /\ pending[n] = "COMPLETED"),
         n \in Task => captures[n] = "destroyed",
         UNCHANGED <<captures, stopping, undo>>,
         slot' \in [Thread -> Node \cup {None}],
         pc' \in [Thread -> {"calling", "cancelling", "joining", "joined",
                             "idle", "destroying", "completing", "exited"}],
         cur' \in [Thread -> Task \cup {None}],
         \A h \in Host : pc'[h] = pc[h] /\ cur'[h] = cur[h],
         \/ /\ slot[th] = n /\ slot' = [slot EXCEPT ![th] = None]
            /\ \A w \in Worker : pc'[w] = pc[w] /\ cur'[w] = cur[w]
         \/ /\ th \in Worker /\ cur[th] = n /\ slot' = slot
            /\ pc' = [pc EXCEPT ![th] = "idle"] /\ cur' = [cur EXCEPT ![th] = None]
  PROVE  TaskInv'
<1>1. PICK g \in Group \cup {None}, woken \in SUBSET Task, doomed \in SUBSET Task,
           done \in SUBSET Group : Retires(th, n, st, g, woken, doomed, done)
  BY RetireIs
<1>. DEFINE N == {n}
<1>2. N \subseteq Node /\ n \in N /\ \A m : m \in N <=> m = n
  OBVIOUS
<1>. HIDE DEF N
<1>3. /\ finalizing' \in [Node -> BOOLEAN] /\ pending' \in [Node -> Status]
      /\ gQueued' \in [Group -> BOOLEAN] /\ batch' \in [Thread -> SUBSET Node]
      /\ \A m \in Node : finalizing'[m] <=> finalizing[m] \/ m \in doomed \/ m \in done
      /\ \A h \in Group : gQueued'[h] <=> gQueued[h] \/ h \in done
  <2>1. Finalize(th, doomed, done) /\ gOutcome' \in [Group -> Terminal]
    BY <1>1 DEF Retires
  <2>2. finalizing' \in [Node -> BOOLEAN] /\ pending' \in [Node -> Status]
    BY <2>1, FinalizeIs
  <2>3. gQueued' \in [Group -> BOOLEAN] /\ batch' \in [Thread -> SUBSET Node]
    BY <2>1, FinalizeIs
  <2>4. \A m \in Node : finalizing'[m] <=> finalizing[m] \/ m \in doomed \/ m \in done
    <3>1. finalizing' = [m \in Node |-> finalizing[m] \/ m \in doomed \cup done]
      BY <2>1 DEF Finalize
    <3>2. \A m \in Node : (finalizing[m] \/ m \in doomed \cup done) \in BOOLEAN
      OBVIOUS
    <3>. QED
      BY <3>1, <3>2
  <2>5. \A h \in Group : gQueued'[h] <=> gQueued[h] \/ h \in done
    <3>1. gQueued' = [h \in Group |-> gQueued[h] \/ h \in done]
      BY <2>1 DEF Finalize
    <3>2. \A h \in Group : (gQueued[h] \/ h \in done) \in BOOLEAN
      OBVIOUS
    <3>. QED
      BY <3>1, <3>2
  <2>. QED
    BY <2>2, <2>3, <2>4, <2>5
<1>4. batch' = [batch EXCEPT ![th] = batch[th] \cup doomed \cup done]
  BY <1>1 DEF Retires, Finalize
<1>5. \A m \in Node : /\ m \in doomed => pending'[m] = "CANCELLED"
                      /\ m \in done => pending'[m] = gOutcome'[m]
                      /\ m \notin doomed /\ m \notin done => pending'[m] = pending[m]
  <2>1. \A m \in Node : m \in done => m \notin doomed
    BY Distinct
  <2>2. pending' = [m \in Node |-> IF m \in doomed THEN "CANCELLED"
                                   ELSE IF m \in done THEN gOutcome'[m] ELSE pending[m]]
    BY <1>1 DEF Retires, Finalize
  <2>. QED
    BY <2>1, <2>2
<1>6. \A m \in Node : /\ m \in N => status'[m] = st
                      /\ m \in woken => status'[m] = "READY"
                      /\ m \notin N /\ m \notin woken => status'[m] = status[m]
  <2>1. status' = [m \in Node |-> IF m = n THEN st
                                  ELSE IF m \in woken THEN "READY" ELSE status[m]]
    BY <1>1 DEF Retires
  <2>2. n \notin woken
    BY <1>1 DEF Retires, Ending
  <2>. QED
    BY <1>2, <2>1, <2>2
<1>7. Settles(N, st, woken, doomed, done)
  <2>1. \A m \in N : /\ Ending(m) /\ st \in Terminal
                     /\ \/ st = pending[m]
                        \/ m \in Task /\ st = "FAILED" /\ pending[m] = "COMPLETED"
                     /\ m \in Task => captures[m] = "destroyed"
    BY <1>2
  <2>2. \A t \in woken : status[t] = "WAITING" /\ ~ finalizing[t] /\ t \notin doomed
    BY <1>1 DEF Retires
  <2>3. \A t \in doomed : Cancellable(t)
    BY <1>1 DEF Retires
  <2>4. \A h \in done : Accepted(h) /\ ~ gQueued[h]
    BY <1>1 DEF Retires
  <2>5. \A h \in Group : gOutcome'[h] \in Terminal
    BY <1>1 DEF Retires
  <2>6. captures' = captures
    OBVIOUS
  <2>. QED
    BY <1>2, <1>3, <1>5, <1>6, <2>1, <2>2, <2>3, <2>4, <2>5, <2>6 DEF Settles
<1>8. NodesSound' /\ TasksSound'
  BY <1>7, SettlesNodes
<1>10. status[n] = "RUNNING" <=> slot[th] # n
  <2>1. CASE slot[th] = n
    BY <2>1 DEF TaskInv, EndersSound, Holds
  <2>2. CASE slot[th] # n
    <3>1. th \in Worker /\ cur[th] = n
      BY <2>2
    <3>. QED
      BY <2>2, <3>1, Distinct DEF TaskInv, WorkersSound
  <2>. QED
    BY <2>1, <2>2
<1>11. EndersSound'
  <2>1. \/ slot' = slot /\ \A m \in N : status[m] = "RUNNING"
        \/ slot[th] # None /\ N = {slot[th]} /\ slot' = [slot EXCEPT ![th] = None]
    <3>1. CASE slot[th] = n /\ slot' = [slot EXCEPT ![th] = None]
      BY <3>1, Distinct DEF N
    <3>2. CASE th \in Worker /\ cur[th] = n /\ slot' = slot
      <4>1. status[n] = "RUNNING"
        BY <3>2, Distinct DEF TaskInv, WorkersSound
      <4>. QED
        BY <1>2, <3>2, <4>1
    <3>. QED
      BY <3>1, <3>2
  <2>. QED
    BY <1>4, <1>7, <2>1, SettlesEnders
<1>12. WorkersSound' /\ HostsSound'
  <2>1. \/ /\ \A w \in Worker : pc'[w] = pc[w] /\ cur'[w] = cur[w]
           /\ \A m \in N : status[m] # "RUNNING"
        \/ \E w \in Worker : /\ cur[w] # None /\ N = {cur[w]}
                             /\ pc' = [pc EXCEPT ![w] = "idle"] /\ cur' = [cur EXCEPT ![w] = None]
    <3>1. CASE slot[th] = n /\ \A w \in Worker : pc'[w] = pc[w] /\ cur'[w] = cur[w]
      BY <1>2, <1>10, <3>1
    <3>2. CASE /\ th \in Worker /\ cur[th] = n
               /\ pc' = [pc EXCEPT ![th] = "idle"] /\ cur' = [cur EXCEPT ![th] = None]
      BY <3>2, Distinct DEF N
    <3>. QED
      BY <3>1, <3>2
  <2>2. HostsSound'
    BY DEF TaskInv, HostsSound
  <2>. QED
    BY <1>7, <2>1, <2>2, SettlesWorkers
<1>13. UndoSound'
  <2>1. UNCHANGED undo
    OBVIOUS
  <2>. QED
    BY <1>7, <2>1, SettlesUndo
<1>14. UNCHANGED <<active, declared, admitted>>
  BY <1>1 DEF Retires
<1>15. EdgesSound' /\ CountsSound' /\ DeclaredSound'
  <2>1. /\ \A d \in Node, t \in Task :
             <<d, t>> \in edges' <=> <<d, t>> \in edges /\ d \notin doomed /\ t \notin doomed /\ d # n
        /\ \A t \in Task : <<n, t>> \in edges =>
             t \in doomed \/ (st = "COMPLETED" /\ remaining'[t] = remaining[t] - 1)
        /\ \A t \in Task : t \notin doomed /\ t # n /\ <<n, t>> \notin edges =>
             remaining'[t] = remaining[t] /\ t \notin woken
        /\ \A t \in Task : t \in woken <=> t \notin doomed /\ remaining[t] = 1 /\ <<n, t>> \in edges
    BY <1>1 DEF Retires, GraphEnds
  <2>2. \A d \in doomed, t \in Task : <<d, t>> \in edges => t \in doomed
    BY <1>1 DEF Retires
  <2>3. \A d \in Node, t \in Task :
          <<d, t>> \in edges' <=> <<d, t>> \in edges /\ d \notin doomed /\ t \notin doomed /\ d \notin N
    BY <1>2, <2>1
  <2>4. \A d \in N, t \in Task : <<d, t>> \in edges =>
          t \in doomed \/ (st = "COMPLETED" /\ N = {d} /\ remaining'[t] = remaining[t] - 1)
    BY <2>1 DEF N
  <2>5. \A t \in Task : t \notin doomed /\ t \notin N /\ (\A d \in N : <<d, t>> \notin edges) =>
          remaining'[t] = remaining[t] /\ t \notin woken
    BY <1>2, <2>1
  <2>6. \A t \in Task : t \in woken <=>
          t \notin doomed /\ remaining[t] = 1 /\ \E d \in N : <<d, t>> \in edges
    BY <1>2, <2>1
  <2>7. UNCHANGED declared
    BY <1>14
  <2>. QED
    BY <1>7, <2>2, <2>3, <2>4, <2>5, <2>6, <2>7, SettlesGraph
<1>16. RegistryReachesLive' /\ Unretired' = Unretired \ N /\ N \subseteq Unretired
  <2>1. UNCHANGED active
    BY <1>14
  <2>. QED
    BY <1>7, <2>1, SettlesRegistry
<1>17. OutstandingIsUnretired' /\ outstanding' \in Nat
  <2>1. /\ Cardinality(Unretired') = Cardinality(Unretired) - 1
        /\ Cardinality(Unretired) \in Nat /\ Cardinality(Unretired) > 0
        /\ Cardinality(Unretired') \in Nat
    <3>1. IsFiniteSet(Unretired)
      BY NodesFinite DEF Unretired
    <3>2. n \in Unretired /\ Unretired' = Unretired \ {n}
      BY <1>2, <1>16 DEF N
    <3>. QED
      BY <3>1, <3>2, DropOne
  <2>2. outstanding = Cardinality(Unretired) + Cardinality(Undoing)
    BY DEF TaskInv, OutstandingIsUnretired, Unretired, Undoing
  <2>3. Cardinality(Undoing) \in Nat
    BY NodesFinite DEF Undoing
  <2>4. Undoing' = Undoing
    BY DEF Undoing
  <2>5. outstanding' = outstanding - 1
    BY <1>1 DEF Retires
  <2>6. outstanding' = Cardinality(Unretired') + Cardinality(Undoing') /\ outstanding' \in Nat
    BY <2>1, <2>2, <2>3, <2>4, <2>5
  <2>. QED
    BY <2>6 DEF OutstandingIsUnretired, Unretired, Undoing
<1>18. /\ member' = [t \in Task |-> IF t = n THEN None ELSE member[t]]
       /\ gOutstanding' = [h \in Group |-> IF h = g THEN gOutstanding[h] - 1 ELSE gOutstanding[h]]
       /\ (n \in Task /\ g = member[n] /\ g = admitted[n]) \/ (n \in Group /\ g = None)
  BY <1>1 DEF Retires
<1>19. \A h \in Group : /\ gOutstanding'[h] = Cardinality(MembersOf(h)')
                        /\ gOutstanding'[h] \in Nat
                        /\ gQueued[h] => h # g /\ gOutstanding'[h] = gOutstanding[h]
  <2>1. CASE n \in Task
    <3>1. g = member[n] /\ member'[n] = None /\ \A u \in Task : u # n => member'[u] = member[u]
      BY <1>18, <2>1, Distinct
    <3>2. \A h \in Group : gOutstanding'[h] = IF h = g THEN gOutstanding[h] - 1 ELSE gOutstanding[h]
      BY <1>18
    <3>. QED
      BY <2>1, <3>1, <3>2, LeaveIs
  <2>2. CASE n \notin Task
    <3>1. g = None /\ \A h \in Group : h # g
      BY <1>18, <2>2, Distinct
    <3>2. \A t \in Task : member'[t] = member[t]
      BY <1>18, <2>2
    <3>3. \A h \in Group : gOutstanding'[h] = gOutstanding[h]
      BY <1>18, <3>1
    <3>4. \A h \in Group : MembersOf(h)' = MembersOf(h)
      BY <3>2 DEF MembersOf
    <3>. QED
      BY <3>1, <3>3, <3>4 DEF TaskInv, TypeOK, MembersSound
  <2>. QED
    BY <2>1, <2>2
<1>20. SettledNow(N, woken, doomed, done)
  BY <1>7, SettledAre
<1>21. MembersSound'
  <2>1. ~ Live(n)'
    BY <1>2, <1>20 DEF SettledNow
  <2>2. \A t \in Task : member'[t] = member[t] \/ (member'[t] = None /\ ~ Live(t)')
    <3>. TAKE t \in Task
    <3>1. CASE t = n
      BY <1>18, <2>1, <3>1
    <3>2. CASE t # n
      BY <1>18, <3>2
    <3>. QED
      BY <3>1, <3>2
  <2>3. UNCHANGED admitted
    BY <1>14
  <2>. QED
    BY <1>7, <1>19, <2>2, <2>3, SettlesMembers
<1>22. /\ \A h \in Group : h # g => /\ gOutcome'[h] = gOutcome[h]
                                    /\ gFirstFailure'[h] = gFirstFailure[h]
                                    /\ gSealed'[h] <=> gSealed[h]
       /\ g # None => GroupEnds(n, st, g, doomed)
       /\ g # None => Accepted(g)
  BY <1>1 DEF Retires
<1>23. GroupsSound'
  <2>1. ASSUME NEW h \in Group
        PROVE  /\ gOutcome'[h] = "FAILED" <=> gFirstFailure'[h] # None
               /\ gSealed'[h] => gSealed[h] \/ Accepted(h)
               /\ gSealed[h] => gSealed'[h]
    <3>1. gOutcome[h] = "FAILED" <=> gFirstFailure[h] # None
      BY DEF TaskInv, GroupsSound
    <3>2. CASE h = g
      <4>1. g # None /\ n # None
        BY <3>2, Distinct
      <4>. QED
        BY <1>22, <3>1, <3>2, <4>1 DEF GroupEnds
    <3>3. CASE h # g
      BY <1>22, <3>1, <3>3
    <3>. QED
      BY <3>2, <3>3
  <2>2. \A h \in Group : gQueued[h] => gOutstanding'[h] = gOutstanding[h]
    BY <1>19
  <2>3. \A h \in done : gSealed'[h] /\ gOutstanding'[h] = 0
    BY <1>1 DEF Retires
  <2>. QED
    BY <1>7, <2>1, <2>2, <2>3, SettlesGroups
<1>24. VerdictsSound' /\ ClosedGroupDrains'
  <2>1. ASSUME NEW h \in Group
        PROVE  /\ \/ gOutcome'[h] = gOutcome[h]
                  \/ gOutcome[h] # "FAILED" /\ gOutcome'[h] # "COMPLETED"
               /\ gOutcome'[h] = "FAILED" /\ gOutcome[h] # "FAILED" => h = g /\ st = "FAILED"
               /\ gOutcome[h] = "COMPLETED" /\ gOutcome'[h] # "COMPLETED" =>
                    \A t \in Members(h) : Cancellable(t) => t \in doomed
    <3>1. CASE h = g
      BY <1>22, <3>1, Distinct DEF GroupEnds
    <3>2. CASE h # g
      BY <1>22, <3>2
    <3>. QED
      BY <3>1, <3>2
  <2>2. \A h \in Group : gOutcome'[h] = "FAILED" /\ gOutcome[h] # "FAILED" =>
          \E m \in N : m \in Task /\ admitted[m] = h /\ st = "FAILED"
    BY <1>2, <1>18, <2>1, Distinct
  <2>3. \A m \in N, h \in Group : m \in Task /\ admitted[m] = h =>
          /\ ~ gQueued[h]
          /\ st = "FAILED" => gOutcome'[h] = "FAILED"
          /\ st = "CANCELLED" => gOutcome'[h] # "COMPLETED"
    <3>. SUFFICES ASSUME NEW h \in Group, n \in Task, admitted[n] = h
                  PROVE  /\ ~ gQueued[h]
                         /\ st = "FAILED" => gOutcome'[h] = "FAILED"
                         /\ st = "CANCELLED" => gOutcome'[h] # "COMPLETED"
      BY <1>2
    <3>1. h = g /\ g # None
      BY <1>18, Distinct
    <3>2. ~ gQueued[h]
      BY <1>19, <3>1
    <3>3. GroupEnds(n, st, g, doomed)
      BY <1>22, <3>1
    <3>. QED
      BY <3>1, <3>2, <3>3 DEF GroupEnds
  <2>4. UNCHANGED admitted
    BY <1>14
  <2>5. \A h \in Group : \/ gOutcome'[h] = gOutcome[h]
                         \/ gOutcome[h] # "FAILED" /\ gOutcome'[h] # "COMPLETED"
    BY <2>1
  <2>6. \A h \in Group : gOutcome[h] = "COMPLETED" /\ gOutcome'[h] # "COMPLETED" =>
          \A t \in Members(h) : Cancellable(t) => t \in doomed
    BY <2>1
  <2>. QED
    BY <1>7, <2>2, <2>3, <2>4, <2>5, <2>6, SettlesVerdicts
<1>25. TypeOK'
  <2>1. /\ gFirstFailure' \in [Group -> Task \cup {None}]
        /\ gOutcome' \in [Group -> Terminal] /\ gSealed' \in [Group -> BOOLEAN]
        /\ remaining' \in [Task -> Nat] /\ edges' \subseteq edges
    BY <1>1 DEF Retires, GraphEnds
  <2>2. status' \in [Node -> Status]
    <3>1. status' = [m \in Node |-> IF m = n THEN st
                                    ELSE IF m \in woken THEN "READY" ELSE status[m]]
      BY <1>1 DEF Retires
    <3>. QED
      BY <3>1 DEF TaskInv, TypeOK, Status
  <2>3. member' \in [Task -> Group \cup {None}]
    BY <1>18 DEF TaskInv, TypeOK
  <2>4. gOutstanding' \in [Group -> Nat]
    BY <1>18, <1>19
  <2>5. ready' \subseteq Task /\ retired' \subseteq Node
    BY <1>1 DEF Retires, TaskInv, TypeOK
  <2>. QED
    BY <1>3, <1>14, <1>17, <2>1, <2>2, <2>3, <2>4, <2>5 DEF TaskInv, TypeOK
<1>. QED
  BY <1>8, <1>11, <1>12, <1>13, <1>15, <1>16, <1>17, <1>21, <1>23, <1>24, <1>25 DEF TaskInv

LEMMA DrainFinalizationsKeeps ==
  ASSUME TaskInv, NEW th \in Thread, DrainFinalizations(th)
  PROVE  TaskInv'
<1>1. PICK n \in Node : n = slot[th]
  BY DEF DrainFinalizations, TaskInv, TypeOK
<1>2. Ending(n) /\ status[n] # "RUNNING" /\ (n \in Task => captures[n] = "destroyed")
  BY <1>1 DEF TaskInv, EndersSound, Holds
<1>3. PICK st \in Terminal : st = pending[n]
  BY <1>2 DEF TaskInv, NodesSound, Ending
<1>4. PICK out \in SUBSET Task : out = IF n \in Group THEN Dependents(n) ELSE {}
  BY DEF Dependents
<1>5. \A t \in Task : <<n, t>> \in edges <=> t \in out
  <2>1. CASE n \in Group
    BY <1>4, <2>1 DEF Dependents
  <2>2. CASE n \notin Group
    <3>1. n \in Task
      BY <2>2, Distinct
    <3>2. \A t \in Task : <<n, t>> \notin edges
      BY <1>2, <3>1 DEF TaskInv, EdgesSound, Ending
    <3>. QED
      BY <1>4, <2>2, <3>2
  <2>. QED
    BY <2>1, <2>2
<1>6. /\ Retire(th, n, st, out) /\ slot[th] = n /\ slot' = [slot EXCEPT ![th] = None]
      /\ UNCHANGED <<captures, stopping, undo>> /\ UNCHANGED <<pc, cur>>
  BY <1>1, <1>3, <1>4 DEF DrainFinalizations
<1>7. /\ slot' \in [Thread -> Node \cup {None}]
      /\ pc' \in [Thread -> {"calling", "cancelling", "joining", "joined",
                             "idle", "destroying", "completing", "exited"}]
      /\ cur' \in [Thread -> Task \cup {None}]
  BY <1>6 DEF TaskInv, TypeOK
<1>8. /\ \A h \in Host : pc'[h] = pc[h] /\ cur'[h] = cur[h]
      /\ \A w \in Worker : pc'[w] = pc[w] /\ cur'[w] = cur[w]
  BY <1>6
<1>. QED
  BY <1>2, <1>3, <1>5, <1>6, <1>7, <1>8, RetireKeeps

LEMMA CompleteStateKeeps ==
  ASSUME TaskInv, NEW w \in Worker, NEW st, CompleteState(w, st)
  PROVE  TaskInv'
<1>1. PICK n \in Task : n = cur[w]
  BY Distinct DEF CompleteState, TaskInv, TypeOK, WorkersSound
<1>2. /\ status[n] = "RUNNING" /\ finalizing[n] /\ captures[n] = "destroyed"
      /\ n \in Node /\ w \in Thread
  BY <1>1, Distinct DEF CompleteState, TaskInv, WorkersSound
<1>3. Ending(n)
  BY <1>2 DEF Ending, IsTerminal, Terminal
<1>4. /\ st \in Terminal
      /\ st = pending[n] \/ (n \in Task /\ st = "FAILED" /\ pending[n] = "COMPLETED")
  <2>1. pending[n] \in Terminal /\ pending[n] # "CANCELLED"
    BY <1>2 DEF TaskInv, NodesSound, TasksSound
  <2>2. st = pending[n] \/ st = "FAILED"
    BY <1>1 DEF CompleteState
  <2>. QED
    BY <2>1, <2>2 DEF Terminal
<1>5. PICK out \in SUBSET Task : out = Dependents(n)
  BY DEF Dependents
<1>6. \A t \in Task : <<n, t>> \in edges <=> t \in out
  BY <1>5 DEF Dependents
<1>7. /\ Retire(w, n, st, out) /\ cur[w] = n
      /\ pc' = [pc EXCEPT ![w] = "idle"] /\ cur' = [cur EXCEPT ![w] = None]
      /\ UNCHANGED <<captures, stopping, undo>> /\ slot' = slot
  BY <1>1, <1>5 DEF CompleteState
<1>8. /\ slot' \in [Thread -> Node \cup {None}]
      /\ pc' \in [Thread -> {"calling", "cancelling", "joining", "joined",
                             "idle", "destroying", "completing", "exited"}]
      /\ cur' \in [Thread -> Task \cup {None}]
  BY <1>7 DEF TaskInv, TypeOK
<1>9. \A h \in Host : pc'[h] = pc[h] /\ cur'[h] = cur[h]
  BY <1>2, <1>7, Distinct DEF TaskInv, TypeOK
<1>. QED
  BY <1>2, <1>3, <1>4, <1>6, <1>7, <1>8, <1>9, RetireKeeps

-----------------------------------------------------------------------------
(* The invariant holds always. *)

LEMMA TaskInitially == Init => TaskInv
<1>. SUFFICES ASSUME Init PROVE TaskInv
  OBVIOUS
<1>1. TypeOK
  BY Distinct DEF Init, TypeOK, Status, Terminal, Thread
<1>2. /\ \A n \in Node : status[n] = "CREATED" /\ ~ finalizing[n]
      /\ \A t \in Task : captures[t] = "none" /\ member[t] = None /\ admitted[t] = None
                         /\ declared[t] = {}
      /\ \A th \in Thread : cur[th] = None /\ slot[th] = None /\ batch[th] = {} /\ undo[th] = None
      /\ \A g \in Group : /\ ~ gSealed[g] /\ ~ gQueued[g] /\ gOutstanding[g] = 0
                          /\ gOutcome[g] = "COMPLETED" /\ gFirstFailure[g] = None
      /\ edges = {} /\ outstanding = 0
  BY DEF Init
<1>3. /\ \A w \in Worker : pc[w] = "idle"
      /\ \A h \in Host : pc[h] = "calling"
  BY Distinct DEF Init
<1>4. NodesSound /\ TasksSound
  BY <1>2, Distinct DEF NodesSound, TasksSound, IsTerminal, Terminal
<1>5. WorkersSound /\ HostsSound
  BY <1>2, <1>3, Distinct DEF WorkersSound, HostsSound
<1>6. EndersSound /\ UndoSound
  BY <1>2, Distinct DEF EndersSound, Holds, Ending, UndoSound
<1>7. EdgesSound /\ DeclaredSound
  BY <1>2 DEF EdgesSound, DeclaredSound
<1>8. CountsSound
  BY <1>2, Distinct DEF CountsSound
<1>9. MembersSound
  <2>1. \A g \in Group : MembersOf(g) = {}
    BY <1>2, Distinct DEF MembersOf
  <2>2. \A g \in Group : gOutstanding[g] = Cardinality(MembersOf(g))
    BY <1>2, <2>1, FS_EmptySet
  <2>. QED
    BY <1>2, <2>2, Distinct DEF MembersSound, Live, Accepted
<1>10. GroupsSound /\ ClosedGroupDrains
  BY <1>2, Distinct DEF GroupsSound, ClosedGroupDrains
<1>11. VerdictsSound
  BY <1>2, Distinct DEF VerdictsSound, Verdict, IsTerminal, Terminal
<1>12. RegistryReachesLive
  BY <1>2 DEF RegistryReachesLive, Accepted
<1>13. OutstandingIsUnretired
  <2>1. /\ {n \in Node : Accepted(n) /\ ~ IsTerminal(n)} = {}
        /\ {th \in Thread : undo[th] # None} = {}
    BY <1>2 DEF Accepted
  <2>. QED
    BY <1>2, <2>1, FS_EmptySet DEF OutstandingIsUnretired
<1>. QED
  BY <1>1, <1>4, <1>5, <1>6, <1>7, <1>8, <1>9, <1>10, <1>11, <1>12, <1>13 DEF TaskInv

LEMMA CallKeeps ==
  ASSUME TaskInv, NEW th \in Thread, Call(th)
  PROVE  TaskInv'
<1>1. CASE \E g \in Group : CreateTaskGroup(th, g) \/ SealGroup(th, g) \/ CancelGroup(th, g)
  BY <1>1, CreateKeeps, SealKeeps, CancelGroupKeeps
<1>2. CASE Submit(th)
  <2>1. PICK g \in Group \cup {None} :
          \E t \in Task : \E deps \in Dependencies(g) :
            SubmitImpl(th, t, deps, g) \/ SubmitFails(th, t, deps, g)
    BY <1>2 DEF Submit
  <2>2. PICK t \in Task, deps \in Dependencies(g) :
          SubmitImpl(th, t, deps, g) \/ SubmitFails(th, t, deps, g)
    BY <2>1
  <2>3. deps \in SUBSET Node /\ \A d \in deps : Accepted(d)
    BY Distinct DEF Dependencies
  <2>. QED
    BY <2>2, <2>3, SubmitKeeps, SubmitFailsKeeps
<1>3. CASE SubmitRejected(th) \/ WaitIdle(th)
  BY <1>3, DrainKeeps
<1>4. CASE \E t \in Task : CancelTest(th, t)
  BY <1>4, GoesKeeps
<1>5. CASE StopWorkers(th)
  BY <1>5, StopKeeps
<1>. QED
  BY <1>1, <1>2, <1>3, <1>4, <1>5 DEF Call

LEMMA ContinueKeeps ==
  ASSUME TaskInv, NEW th \in Thread, Continue(th)
  PROVE  TaskInv'
BY RollbackPayloadKeeps, RollbackAccountingKeeps, CancelKeeps, DestroyCapturesKeeps,
   DrainFinalizationsKeeps, GoesKeeps
DEF Continue

LEMMA WorkKeeps ==
  ASSUME TaskInv, NEW w \in Worker, Work(w)
  PROVE  TaskInv'
<1>1. CASE \E t \in Task : Claim(w, t)
  BY <1>1, DropsKeeps, ClaimKeeps
<1>2. CASE \E st \in {"COMPLETED", "FAILED"} : FinishCallable(w, st) \/ CompleteState(w, st)
  BY <1>2, FinishKeeps, CompleteStateKeeps
<1>3. CASE DestroyCallable(w)
  BY <1>3, DestroyKeeps
<1>4. CASE WorkerExits(w)
  BY <1>4, GoesKeeps, Distinct
<1>. QED
  BY <1>1, <1>2, <1>3, <1>4 DEF Work

LEMMA TaskStep == TaskInv /\ [Next]_vars => TaskInv'
<1>. SUFFICES ASSUME TaskInv, [Next]_vars PROVE TaskInv'
  OBVIOUS
<1>1. CASE \E th \in Thread : Call(th) \/ Continue(th)
  BY <1>1, CallKeeps, ContinueKeeps
<1>2. CASE \E w \in Worker : Work(w)
  BY <1>2, WorkKeeps
<1>3. CASE UNCHANGED vars
  BY <1>3, StuttersKeeps
<1>. QED
  BY <1>1, <1>2, <1>3 DEF Next

(* The inductive invariant holds in every behaviour of the executor. *)
THEOREM TaskAlways == Spec => []TaskInv
<1>1. Init => TaskInv
  BY TaskInitially
<1>2. TaskInv /\ [Next]_vars => TaskInv'
  BY TaskStep
<1>. QED
  BY <1>1, <1>2, PTL DEF Spec

(* Every variable of the executor keeps its type: the counters of the graph, of
   the groups and of the lifetime never go below zero. *)
THEOREM TaskTyped == Spec => []TypeOK
<1>1. TaskInv => TypeOK
  BY DEF TaskInv
<1>. QED
  BY <1>1, TaskAlways, PTL

-----------------------------------------------------------------------------
(* What the properties say follows from the invariant. *)

LEMMA BooksFollow == TaskInv => BooksBalance
<1>. SUFFICES ASSUME TaskInv PROVE BooksBalance
  OBVIOUS
<1>1. \A e \in edges : ~ IsTerminal(e[1]) /\ ~ IsTerminal(e[2])
  <2>. TAKE e \in edges
  <2>1. PICK d \in Node, t \in Task : e = <<d, t>>
    BY DEF TaskInv, TypeOK
  <2>2. Live(d) /\ status[t] = "WAITING"
    BY <2>1 DEF TaskInv, EdgesSound
  <2>3. e[1] = d /\ e[2] = t
    BY <2>1
  <2>. QED
    BY <2>2, <2>3 DEF Live, IsTerminal, Terminal
<1>2. \A t \in Task : status[t] = "WAITING" /\ ~ finalizing[t] =>
        /\ remaining[t] = Cardinality({n \in Node : <<n, t>> \in edges})
        /\ remaining[t] > 0
  BY DEF TaskInv, CountsSound, Preds
<1>3. GraphConsistent
  BY <1>1, <1>2 DEF GraphConsistent
<1>. QED
  BY <1>3 DEF TaskInv, BooksBalance

LEMMA EndsFollow == TaskInv => EndsOnceDestroyed
<1>. SUFFICES ASSUME TaskInv PROVE EndsOnceDestroyed
  OBVIOUS
<1>1. ASSUME NEW t \in Task, status[t] = "RUNNING"
      PROVE  Cardinality({w \in Worker : cur[w] = t}) = 1
  <2>1. PICK w \in Worker : cur[w] = t
    BY <1>1 DEF TaskInv, WorkersSound
  <2>2. \A v \in Worker : cur[v] = t => v = w
    BY <2>1, Distinct DEF TaskInv, WorkersSound
  <2>. DEFINE S == {v \in Worker : cur[v] = t}
  <2>3. \A v : v \in S <=> v = w
    BY <2>1, <2>2
  <2>. HIDE DEF S
  <2>4. Cardinality(S) = 1
    BY <2>3, OnlyOne
  <2>. QED
    BY <2>4 DEF S
<1>2. ASSUME NEW n \in Node, finalizing[n] /\ ~ IsTerminal(n)
      PROVE  Cardinality({th \in Thread :
               \/ n \in batch[th]
               \/ slot[th] = n
               \/ pc[th] \in {"destroying", "completing"} /\ cur[th] = n}) = 1
  <2>. DEFINE Completes(th) == pc[th] \in {"destroying", "completing"} /\ cur[th] = n
              S == {th \in Thread :
                      \/ n \in batch[th]
                      \/ slot[th] = n
                      \/ pc[th] \in {"destroying", "completing"} /\ cur[th] = n}
  <2>1. \A th \in Thread : Completes(th) => th \in Worker /\ status[n] = "RUNNING"
    <3>. SUFFICES ASSUME NEW th \in Thread, Completes(th)
                  PROVE  th \in Worker /\ status[n] = "RUNNING"
      OBVIOUS
    <3>1. th \in Worker
      BY DEF TaskInv, HostsSound, Thread
    <3>. QED
      BY <3>1, Distinct DEF TaskInv, WorkersSound
  <2>2. \A th \in Thread : Holds(th, n) => status[n] # "RUNNING"
    BY DEF TaskInv, EndersSound
  <2>3. \E th \in Thread : th \in S /\ \A ti \in Thread : ti \in S => ti = th
    <3>1. CASE status[n] = "RUNNING"
      <4>1. n \in Task
        BY <3>1, Distinct DEF TaskInv, NodesSound
      <4>2. PICK w \in Worker : cur[w] = n
        BY <3>1, <4>1 DEF TaskInv, WorkersSound
      <4>3. pc[w] \in {"destroying", "completing"}
        BY <1>2, <4>1, <4>2, Distinct DEF TaskInv, WorkersSound
      <4>4. \A v \in Worker : cur[v] = n => v = w
        BY <4>1, <4>2, Distinct DEF TaskInv, WorkersSound
      <4>5. w \in S
        BY <4>2, <4>3, Distinct
      <4>6. \A ti \in Thread : ti \in S => ti = w
        BY <2>1, <2>2, <3>1, <4>4 DEF Holds
      <4>. QED
        BY <4>5, <4>6, Distinct
    <3>2. CASE status[n] # "RUNNING"
      <4>1. PICK th \in Thread : Holds(th, n)
        BY <1>2, <3>2 DEF TaskInv, EndersSound, Ending
      <4>2. th \in S
        BY <4>1 DEF Holds
      <4>3. \A ti \in Thread : ti \in S => Holds(ti, n)
        BY <2>1, <3>2 DEF Holds
      <4>4. \A ti \in Thread : ti \in S => ti = th
        BY <4>1, <4>3 DEF TaskInv, EndersSound
      <4>. QED
        BY <4>2, <4>4
    <3>. QED
      BY <3>1, <3>2
  <2>4. S \subseteq Thread
    OBVIOUS
  <2>. HIDE DEF S
  <2>5. PICK th : \A ti : ti \in S <=> ti = th
    BY <2>3, <2>4
  <2>6. Cardinality(S) = 1
    BY <2>5, OnlyOne
  <2>. QED
    BY <2>6 DEF S
<1>3. \A t \in Task : IsTerminal(t) => captures[t] = "destroyed"
  BY DEF TaskInv, TasksSound
<1>4. ASSUME outstanding = 0, NEW t \in Task
      PROVE  captures[t] \in {"none", "destroyed"}
  <2>1. Cardinality(Unretired) = 0 /\ Cardinality(Undoing) = 0
    <3>1. outstanding = Cardinality(Unretired) + Cardinality(Undoing)
      BY DEF TaskInv, OutstandingIsUnretired, Unretired, Undoing
    <3>2. Cardinality(Unretired) \in Nat /\ Cardinality(Undoing) \in Nat
      BY NodesFinite DEF Unretired, Undoing
    <3>. QED
      BY <1>4, <3>1, <3>2
  <2>2. Unretired = {} /\ Undoing = {}
    <3>1. IsFiniteSet(Unretired) /\ IsFiniteSet(Undoing)
      BY NodesFinite DEF Unretired, Undoing
    <3>. QED
      BY <2>1, <3>1, FS_EmptySet
  <2>3. ~ Live(t)
    BY <2>2, Distinct DEF Unretired, Live
  <2>4. CASE IsTerminal(t)
    BY <1>3, <2>4
  <2>5. CASE status[t] = "CREATED"
    <3>1. \A th \in Thread : undo[th] = None
      BY <2>2 DEF Undoing
    <3>. QED
      BY <2>5, <3>1, Distinct DEF TaskInv, UndoSound
  <2>. QED
    BY <2>3, <2>4, <2>5 DEF Live, Accepted
<1>. QED
  BY <1>1, <1>2, <1>3, <1>4 DEF EndsOnceDestroyed

LEMMA OutcomesFollow == TaskInv => OutcomesFollowGraph
<1>. SUFFICES ASSUME TaskInv PROVE OutcomesFollowGraph
  OBVIOUS
<1>1. DependenciesHold
  <2>. SUFFICES ASSUME NEW t \in Task, status[t] \in {"RUNNING", "COMPLETED", "FAILED"},
                       NEW d \in declared[t]
                PROVE  /\ status[d] = "COMPLETED"
                       /\ d \in Task => captures[d] = "destroyed"
    BY DEF DependenciesHold
  <2>1. t \in Node /\ d \in Node
    BY Distinct DEF TaskInv, TypeOK
  <2>2. ~ (finalizing[t] /\ pending[t] = "CANCELLED")
    <3>1. status[t] = "RUNNING" => ~ (finalizing[t] /\ pending[t] = "CANCELLED")
      BY DEF TaskInv, TasksSound
    <3>2. status[t] \in {"COMPLETED", "FAILED"} => pending[t] # "CANCELLED"
      BY <2>1 DEF TaskInv, NodesSound, IsTerminal, Terminal
    <3>. QED
      BY <3>1, <3>2
  <2>3. <<d, t>> \notin edges
    BY <2>1 DEF TaskInv, EdgesSound
  <2>4. status[d] = "COMPLETED"
    BY <2>2, <2>3 DEF TaskInv, DeclaredSound
  <2>. QED
    BY <2>4 DEF TaskInv, TasksSound, IsTerminal, Terminal
<1>2. CancellationReachesDependents
  <2>. SUFFICES ASSUME NEW t \in Task, NEW d \in declared[t], status[d] \in {"FAILED", "CANCELLED"}
                PROVE  status[t] = "CANCELLED" \/ (finalizing[t] /\ pending[t] = "CANCELLED")
    BY DEF CancellationReachesDependents
  <2>1. d \in Node
    BY DEF TaskInv, TypeOK
  <2>2. <<d, t>> \notin edges
    BY <2>1 DEF TaskInv, EdgesSound, Live, IsTerminal, Terminal
  <2>. QED
    BY <2>2 DEF TaskInv, DeclaredSound
<1>3. GateAfterMembers
  <2>. SUFFICES ASSUME NEW g \in Group, gQueued[g]
                PROVE  /\ \A t \in Task : admitted[t] = g => IsTerminal(t) /\ captures[t] = "destroyed"
                       /\ \A th \in Thread : undo[th] # None => member[undo[th]] # g
    BY DEF GateAfterMembers
  <2>1. MembersOf(g) = {}
    <3>1. Cardinality(MembersOf(g)) = 0
      BY DEF TaskInv, GroupsSound, MembersSound
    <3>2. MembersOf(g) \subseteq Node
      BY Distinct DEF MembersOf
    <3>. QED
      BY <3>1, <3>2, NodesFinite, FS_EmptySet
  <2>2. \A t \in Task : member[t] # g
    BY <2>1 DEF MembersOf
  <2>3. \A th \in Thread : undo[th] # None => undo[th] \in Task
    BY DEF TaskInv, TypeOK
  <2>4. \A t \in Task : admitted[t] = g => IsTerminal(t)
    BY <2>2, Distinct DEF TaskInv, MembersSound, Live, Accepted
  <2>. QED
    BY <2>2, <2>3, <2>4 DEF TaskInv, TasksSound
<1>4. GroupOutcomeIsMembers
  <2>. SUFFICES ASSUME NEW g \in Group, IsTerminal(g)
                PROVE  /\ status[g] = "FAILED" <=> \E t \in Task : admitted[t] = g /\ status[t] = "FAILED"
                       /\ status[g] = "COMPLETED" =>
                            \A t \in Task : admitted[t] = g => status[t] = "COMPLETED"
    BY DEF GroupOutcomeIsMembers
  <2>1. finalizing[g] /\ status[g] = pending[g]
    BY Distinct DEF TaskInv, NodesSound
  <2>2. gQueued[g]
    BY <2>1 DEF TaskInv, GroupsSound
  <2>3. Verdict(g) = status[g]
    BY <2>1, <2>2 DEF Verdict
  <2>4. \A t \in Task : admitted[t] = g => IsTerminal(t)
    BY <1>3, <2>2 DEF GateAfterMembers
  <2>. QED
    BY <2>3, <2>4 DEF TaskInv, VerdictsSound
<1>. QED
  BY <1>1, <1>2, <1>3, <1>4
  DEF TaskInv, OutcomesFollowGraph, GroupsEndWithMembers

(* The graph, the counter of outstanding work and the registry agree with the
   life cycles of the nodes in every state: no ended node keeps an edge, a
   waiting task counts its edges, WaitIdle's counter is the work that is left,
   and the registry misses none of it. *)
THEOREM TaskBooks == Spec => []BooksBalance
BY TaskAlways, BooksFollow, PTL

(* One worker runs a running task and one thread ends an ending node; when
   nothing is outstanding every callable has been destroyed. *)
THEOREM TaskEnds == Spec => []EndsOnceDestroyed
BY TaskAlways, EndsFollow, PTL

(* A task ends as its dependencies and its group demand, and a group as its
   members did, however calls, failures and cancellations interleave. *)
THEOREM TaskOutcomes == Spec => []OutcomesFollowGraph
BY TaskAlways, OutcomesFollow, PTL

-----------------------------------------------------------------------------
(* The user jobs.  The inductive invariant says of each job what its phase   *)
(* means to the threads at it, who keeps its handle, and what is reported of *)
(* it; and what the scope that is joined at the end still lists.             *)

JobSteps ==
  {"idle", "submit", "cancelAll", "exit", "join", "check", "body", "subscribe", "suspend",
   "finalize", "publish", "notify", "report", "wake", "read", "scan", "wait", "exited",
   "selected", "failResume"}

JobsTyped ==
  /\ JobsTypeOK
  /\ at \in [JobThread -> [step : JobSteps, job : Job \cup {NoJob}]]

(* What the phase of a job says about the threads at it, its body and its    *)
(* result. *)
PhaseIsTrue(j) ==
  /\ \A t1, t2 \in JobThread : Owns(t1, j) /\ Owns(t2, j) => t1 = t2
  /\ \A t \in JobThread : at[t].job = j =>
       /\ at[t].step = "submit" => t = Player /\ phase[j] = "QUEUED" /\ j \notin runs
       /\ at[t].step \in {"check", "body", "subscribe", "suspend"} =>
            phase[j] \in {"RUNNING", "STOP_RUNNING"} /\ bodyHeld[j]
       /\ at[t].step = "finalize" =>
            /\ phase[j] \in {"RUNNING", "STOP_RUNNING"} /\ ~ bodyHeld[j]
            /\ outcome[j] = "none" => phase[j] = "STOP_RUNNING"
       /\ at[t].step = "publish" =>
            phase[j] = "FINALIZING" /\ ~ bodyHeld[j] /\ outcome[j] # "none"
       /\ at[t].step \in {"notify", "report"} => phase[j] = "READY"
  /\ j \in runs =>
       phase[j] \in {"QUEUED", "RESUME_QUEUED", "CANCEL_QUEUED", "FINALIZING", "READY"}
  /\ phase[j] \in {"NONE", "QUEUED", "WAITING", "RESUME_QUEUED", "CANCEL_QUEUED"} => bodyHeld[j]
  /\ phase[j] = "READY" => ~ bodyHeld[j] /\ outcome[j] # "none"

(* A job nobody has submitted yet has no handle and no past. *)
Unmade(j) ==
  /\ holder[j] = "gone" /\ hasConsumer[j] /\ ~ observed[j] /\ ~ reported[j]
  /\ outcome[j] = "none" /\ await[j] = NoJob
Unsubmitted(j) == phase[j] = "NONE" \/ (at[Player].job = j /\ at[Player].step = "submit")

(* Who may take a result still has its handle, a body the one it awaits. *)
HandlesAreKept(j) ==
  /\ Unsubmitted(j) => Unmade(j)
  /\ bodyHeld[j] /\ await[j] # NoJob => holder[await[j]] = j
  /\ holder[j] # "gone" => hasConsumer[j]
  /\ observed[j] => hasConsumer[j] /\ holder[j] = "gone"

(* Whoever comes last, the end of the job or the end of its last consumer,   *)
(* reports. *)
ReportsAreMade(j) ==
  /\ reported[j] => phase[j] = "READY"
  /\ reports[j] = IF reported[j] /\ outcome[j] = "failure" THEN 1 ELSE 0
  /\ Settled(j) => reported[j]

(* The scope lists what is not over, and lets nothing in once it is left. *)
ScopeIsTrue ==
  /\ \A j \in Job : phase[j] \notin {"NONE", "READY"} => \E k \in DOMAIN jobList : jobList[k] = j
  /\ at[Player].step = "submit" => ~ jobsStopping
  /\ at[Player].step \in {"cancelAll", "exit", "join"} => jobsStopping
  /\ scopeExit => jobsStopping
  /\ Stands(Dispatcher, "exited") =>
       scopeExit /\ \A j \in Job : phase[j] \in {"NONE", "READY"}

JobsInv ==
  /\ JobsTyped /\ ScopeIsTrue
  /\ \A j \in Job : PhaseIsTrue(j) /\ HandlesAreKept(j) /\ ReportsAreMade(j)

LEMMA JobNames ==
  /\ {Player, Dispatcher} \subseteq JobThread /\ JobWorker \subseteq JobThread
  /\ Player # Dispatcher /\ NoJob \notin Job /\ NoJob \notin JobThread
  /\ Player \notin Job /\ "gone" \notin Job /\ Player # "gone"
  /\ \A w \in JobWorker : w # Player /\ w # Dispatcher
BY UserJobsAssumption DEF JobThread, Player, Dispatcher

(* A thread goes to its next step, the others stay. *)
LEMMA Goes ==
  ASSUME JobsTyped, NEW th \in JobThread, NEW s \in JobSteps, NEW j \in Job \cup {NoJob},
         at' = [at EXCEPT ![th] = At(s, j)]
  PROVE  /\ at' \in [JobThread -> [step : JobSteps, job : Job \cup {NoJob}]]
         /\ at'[th].step = s /\ at'[th].job = j
         /\ \A t \in JobThread : t # th => at'[t] = at[t]
<1>1. at \in [JobThread -> [step : JobSteps, job : Job \cup {NoJob}]]
      /\ At(s, j) \in [step : JobSteps, job : Job \cup {NoJob}]
      /\ At(s, j).step = s /\ At(s, j).job = j
  BY DEF JobsTyped, At
<1>. QED
  BY <1>1

(* The steps in which a thread is at a job whose phase says so. *)
PhaseSteps == {"submit", "check", "body", "subscribe", "suspend", "finalize", "publish",
               "notify", "report"}

(* What a step leaves alone stays true: the phase of a job ... *)
LEMMA PhaseStays ==
  ASSUME NEW i \in Job, PhaseIsTrue(i),
         phase'[i] = phase[i], bodyHeld'[i] = bodyHeld[i], outcome'[i] = outcome[i],
         i \in runs' => i \in runs,
         \A t \in JobThread : at'[t] = at[t] \/ at'[t].job # i \/ at'[t].step \notin PhaseSteps
  PROVE  PhaseIsTrue(i)'
BY DEF PhaseIsTrue, Owns, PhaseSteps

(* ... its handle and the one its body awaits ... *)
LEMMA HandlesStay ==
  ASSUME NEW i \in Job, HandlesAreKept(i),
         phase'[i] = "NONE" => phase[i] = "NONE",
         at'[Player] = at[Player] \/ at'[Player].job # i \/ at'[Player].step # "submit",
         holder'[i] = holder[i], hasConsumer'[i] = hasConsumer[i],
         observed'[i] = observed[i], reported'[i] = reported[i],
         outcome'[i] = outcome[i] \/ ~ Unsubmitted(i)',
         await'[i] = await[i], bodyHeld'[i] => bodyHeld[i],
         bodyHeld'[i] /\ await[i] # NoJob => holder'[await[i]] = holder[await[i]]
  PROVE  HandlesAreKept(i)'
BY DEF HandlesAreKept, Unmade, Unsubmitted

(* ... its report ... *)
LEMMA ReportsStay ==
  ASSUME NEW i \in Job, ReportsAreMade(i),
         reported'[i] = reported[i], reports'[i] = reports[i],
         reported[i] => outcome'[i] = outcome[i],
         phase'[i] = phase[i] \/ (phase[i] # "READY" /\ phase'[i] # "READY"),
         \/ hasConsumer'[i] = hasConsumer[i] /\ dropping'[i] = dropping[i]
         \/ hasConsumer'[i] \/ dropping'[i] # NoJob,
         \A t \in JobThread : at[t].job = i /\ at[t].step \in {"notify", "report"} => at'[t] = at[t]
  PROVE  ReportsAreMade(i)'
<1>1. reported'[i] => phase'[i] = "READY"
  BY DEF ReportsAreMade
<1>2. reports'[i] = IF reported'[i] /\ outcome'[i] = "failure" THEN 1 ELSE 0
  BY DEF ReportsAreMade
<1>3. Settled(i)' => reported'[i]
  BY DEF ReportsAreMade, Settled
<1>. QED
  BY <1>1, <1>2, <1>3 DEF ReportsAreMade

(* ... and the scope. *)
LEMMA ScopeStays ==
  ASSUME ScopeIsTrue, jobList' = jobList, jobsStopping' = jobsStopping, scopeExit' = scopeExit,
         \A i \in Job : phase[i] \in {"NONE", "READY"} => phase'[i] \in {"NONE", "READY"},
         \A t \in JobThread :
           at'[t] = at[t] \/ at'[t].step \notin {"submit", "cancelAll", "exit", "join", "exited"}
  PROVE  ScopeIsTrue'
BY JobNames DEF ScopeIsTrue, Stands

(* Whoever has the body of a job is alone at it. *)
LEMMA AloneAt ==
  ASSUME NEW j \in Job, PhaseIsTrue(j), NEW th \in JobThread, at[th].job = j,
         at[th].step \in {"check", "body", "subscribe", "suspend", "finalize", "publish"}
  PROVE  \A t \in JobThread : t # th /\ at[t].job = j => at[t].step \notin PhaseSteps
BY DEF PhaseIsTrue, Owns, PhaseSteps

LEMMA NobodyAt ==
  ASSUME NEW j \in Job, PhaseIsTrue(j),
         phase[j] \in {"WAITING", "RESUME_QUEUED", "CANCEL_QUEUED"}
  PROVE  \A t \in JobThread : at[t].job = j => at[t].step \notin PhaseSteps
BY DEF PhaseIsTrue, Owns, PhaseSteps

(* The handles a body owns are abandoned with it. *)
LEMMA Abandons ==
  ASSUME JobsTyped, NEW th \in JobThread, NEW S \in SUBSET Job, AbandonAll(th, S)
  PROVE  /\ holder' \in [Job -> Job \cup {Player, "gone"}]
         /\ hasConsumer' \in [Job -> BOOLEAN] /\ dropping' \in [Job -> JobThread \cup {NoJob}]
         /\ \A i \in S : holder'[i] = "gone" /\ ~ hasConsumer'[i] /\ dropping'[i] = th
         /\ \A i \in Job \ S : /\ holder'[i] = holder[i] /\ hasConsumer'[i] = hasConsumer[i]
                              /\ dropping'[i] = dropping[i]
BY DEF AbandonAll, JobsTyped, JobsTypeOK

(* A body goes, and its thread ends the job. *)
BodyEnded(th, j, s) ==
  /\ ReleaseBody(th, j) /\ s \in {"publish", "finalize"}
  /\ at' = [at EXCEPT ![th] = At(s, j)] /\ at[th].step \notin {"notify", "report"}
  /\ \A t \in JobThread : t # th /\ at[t].job = j => at[t].step \notin PhaseSteps
  /\ phase[j] \notin {"NONE", "READY"} /\ phase'[j] \notin {"NONE", "READY"}
  /\ phase' \in [Job -> JobPhase] /\ \A i \in Job : i # j => phase'[i] = phase[i]
  /\ outcome' \in [Job -> {"none", "value", "failure", "cancelled"}]
  /\ \A i \in Job : i # j => outcome'[i] = outcome[i]
  /\ s = "publish" => phase'[j] = "FINALIZING" /\ outcome'[j] # "none"
  /\ s = "finalize" => /\ phase'[j] \in {"RUNNING", "STOP_RUNNING"} /\ j \notin runs
                       /\ outcome'[j] = "none" => phase'[j] = "STOP_RUNNING"
  /\ await' = await /\ awaitReady' = awaitReady /\ subscriber' = subscriber
  /\ stopDelivered' = stopDelivered /\ observed' = observed /\ reported' = reported
  /\ reports' = reports /\ runs' = runs /\ jobNews' = jobNews
  /\ jobList' = jobList /\ look' = look /\ jobsStopping' = jobsStopping /\ scopeExit' = scopeExit

LEMMA BodyGoes ==
  ASSUME JobsInv, NEW th \in JobThread, NEW j \in Job, NEW s, BodyEnded(th, j, s)
  PROVE  JobsInv'
<1> USE DEF BodyEnded
<1>1. JobsTyped /\ ScopeIsTrue
      /\ \A i \in Job : PhaseIsTrue(i) /\ HandlesAreKept(i) /\ ReportsAreMade(i)
  BY DEF JobsInv
<1>2. /\ at' \in [JobThread -> [step : JobSteps, job : Job \cup {NoJob}]]
      /\ at'[th].step = s /\ at'[th].job = j
      /\ \A t \in JobThread : t # th => at'[t] = at[t]
  <2>1. s \in JobSteps /\ j \in Job \cup {NoJob}
    BY DEF JobSteps
  <2>. QED
    BY <1>1, <2>1, Goes
<1>3. /\ bodyHeld' \in [Job -> BOOLEAN] /\ ~ bodyHeld'[j]
      /\ \A i \in Job : i # j => bodyHeld'[i] = bodyHeld[i]
  BY <1>1 DEF ReleaseBody, JobsTyped, JobsTypeOK
<1>4. /\ holder' \in [Job -> Job \cup {Player, "gone"}]
      /\ hasConsumer' \in [Job -> BOOLEAN] /\ dropping' \in [Job -> JobThread \cup {NoJob}]
      /\ \A i \in Job : holder[i] = j =>
           holder'[i] = "gone" /\ ~ hasConsumer'[i] /\ dropping'[i] = th
      /\ \A i \in Job : holder[i] # j =>
           /\ holder'[i] = holder[i] /\ hasConsumer'[i] = hasConsumer[i]
           /\ dropping'[i] = dropping[i]
  <2>1. Owned(j) \in SUBSET Job /\ \A i \in Job : i \in Owned(j) <=> holder[i] = j
    BY DEF Owned
  <2>2. AbandonAll(th, Owned(j))
    BY DEF ReleaseBody
  <2>. QED
    BY <1>1, <2>1, <2>2, Abandons
<1>5. JobsTyped'
  BY <1>1, <1>2, <1>3, <1>4 DEF JobsTyped, JobsTypeOK
<1>6. ScopeIsTrue'
  <2>1. \A i \in Job : phase[i] \in {"NONE", "READY"} => phase'[i] \in {"NONE", "READY"}
    OBVIOUS
  <2>2. \A t \in JobThread :
          at'[t] = at[t] \/ at'[t].step \notin {"submit", "cancelAll", "exit", "join", "exited"}
    BY <1>2
  <2>. QED
    BY <1>1, <2>1, <2>2, ScopeStays
<1>7. ASSUME NEW i \in Job PROVE PhaseIsTrue(i)'
  <2>1. CASE i = j
    <3>1. \A t \in JobThread : t # th /\ at'[t].job = j => at'[t].step \notin PhaseSteps
      BY <1>2
    <3>2. j \in runs => phase[j] \in {"QUEUED", "RESUME_QUEUED", "CANCEL_QUEUED", "FINALIZING", "READY"}
      BY <1>1 DEF PhaseIsTrue
    <3>. QED
      BY <1>2, <1>3, <2>1, <3>1, <3>2 DEF PhaseIsTrue, Owns, PhaseSteps
  <2>2. CASE i # j
    <3>1. \A t \in JobThread : at'[t] = at[t] \/ at'[t].job # i
      BY <1>2, <2>2
    <3>. QED
      BY <1>1, <1>3, <2>2, <3>1, PhaseStays
  <2>. QED
    BY <2>1, <2>2
<1>8. ASSUME NEW i \in Job PROVE HandlesAreKept(i)'
  <2>1. Unsubmitted(i)' => i # j /\ Unsubmitted(i)
    <3>1. (at'[Player].job = i /\ at'[Player].step = "submit")
            => Player # th /\ at'[Player] = at[Player]
      BY <1>2, JobNames
    <3>2. (Player # th /\ at[Player].job = j) => at[Player].step # "submit"
      BY JobNames DEF PhaseSteps
    <3>3. phase'[i] = "NONE" => i # j /\ phase[i] = "NONE"
      OBVIOUS
    <3>. QED
      BY <3>1, <3>2, <3>3 DEF Unsubmitted
  <2>2. Unsubmitted(i)' => Unmade(i)'
    <3>1. Unsubmitted(i)' => Unmade(i) /\ holder[i] # j /\ outcome'[i] = outcome[i]
      BY <1>1, <2>1, JobNames DEF HandlesAreKept, Unmade
    <3>. QED
      BY <1>4, <3>1 DEF Unmade
  <2>3. bodyHeld'[i] /\ await'[i] # NoJob => holder'[await'[i]] = i
    <3>1. bodyHeld'[i] => i # j /\ bodyHeld[i]
      BY <1>3
    <3>2. await[i] \in Job \cup {NoJob}
      BY <1>1 DEF JobsTyped, JobsTypeOK
    <3>. QED
      BY <1>1, <1>4, <3>1, <3>2 DEF HandlesAreKept
  <2>4. /\ holder'[i] # "gone" => hasConsumer'[i]
        /\ observed'[i] => hasConsumer'[i] /\ holder'[i] = "gone"
    BY <1>1, <1>4, JobNames DEF HandlesAreKept
  <2>. QED
    BY <2>2, <2>3, <2>4 DEF HandlesAreKept
<1>9. ASSUME NEW i \in Job PROVE ReportsAreMade(i)'
  <2>1. \A t \in JobThread : at[t].job = i /\ at[t].step \in {"notify", "report"} => at'[t] = at[t]
    BY <1>2
  <2>2. reported[i] => outcome'[i] = outcome[i]
    BY <1>1 DEF ReportsAreMade
  <2>3. phase'[i] = phase[i] \/ (phase[i] # "READY" /\ phase'[i] # "READY")
    OBVIOUS
  <2>4. \/ hasConsumer'[i] = hasConsumer[i] /\ dropping'[i] = dropping[i]
        \/ dropping'[i] # NoJob
    BY <1>4, JobNames
  <2>. QED
    BY <1>1, <2>1, <2>2, <2>3, <2>4, ReportsStay
<1>. QED
  BY <1>5, <1>6, <1>7, <1>8, <1>9 DEF JobsInv

(* A thread that has a body goes on with it. *)
LEMMA BodyMoves ==
  ASSUME JobsInv, NEW w \in JobWorker, NEW j \in Job,
         at[w].job = j, at[w].step \in {"check", "body", "subscribe"},
         NEW s \in {"body", "subscribe", "suspend"}, at' = [at EXCEPT ![w] = At(s, j)],
         phase' = phase, bodyHeld' = bodyHeld, outcome' = outcome, holder' = holder,
         hasConsumer' = hasConsumer, dropping' = dropping, runs' = runs,
         stopDelivered' = stopDelivered, observed' = observed, reported' = reported,
         reports' = reports, jobList' = jobList, look' = look,
         jobsStopping' = jobsStopping, scopeExit' = scopeExit, jobNews' = jobNews,
         await' \in [Job -> Job \cup {NoJob}], awaitReady' \in [Job -> BOOLEAN],
         subscriber' \in [Job -> Job \cup {NoJob}],
         \A i \in Job : i # j => await'[i] = await[i],
         await'[j] = await[j] \/ holder[await'[j]] = j
  PROVE  JobsInv'
<1>1. JobsTyped /\ ScopeIsTrue
      /\ \A i \in Job : PhaseIsTrue(i) /\ HandlesAreKept(i) /\ ReportsAreMade(i)
  BY DEF JobsInv
<1>2. /\ at' \in [JobThread -> [step : JobSteps, job : Job \cup {NoJob}]]
      /\ at'[w].step = s /\ at'[w].job = j /\ w \in JobThread /\ w # Player
      /\ \A t \in JobThread : t # w => at'[t] = at[t]
  <2>1. s \in JobSteps /\ j \in Job \cup {NoJob}
    BY DEF JobSteps
  <2>2. w \in JobThread /\ w # Player
    BY JobNames
  <2>3. /\ at' \in [JobThread -> [step : JobSteps, job : Job \cup {NoJob}]]
        /\ at'[w].step = s /\ at'[w].job = j
        /\ \A t \in JobThread : t # w => at'[t] = at[t]
    BY <1>1, <2>1, <2>2, Goes
  <2>. QED
    BY <2>2, <2>3
<1>3. /\ phase[j] \in {"RUNNING", "STOP_RUNNING"} /\ bodyHeld[j]
      /\ \A t \in JobThread : t # w /\ at[t].job = j => at[t].step \notin PhaseSteps
  <2>1. at[w].step \in {"check", "body", "subscribe", "suspend", "finalize", "publish"}
    OBVIOUS
  <2>2. \A t \in JobThread : t # w /\ at[t].job = j => at[t].step \notin PhaseSteps
    BY <1>1, <1>2, <2>1, AloneAt
  <2>. QED
    BY <1>1, <1>2, <2>2 DEF PhaseIsTrue
<1>4. JobsTyped'
  BY <1>1, <1>2 DEF JobsTyped, JobsTypeOK
<1>5. ScopeIsTrue'
  <2>1. \A t \in JobThread :
          at'[t] = at[t] \/ at'[t].step \notin {"submit", "cancelAll", "exit", "join", "exited"}
    BY <1>2
  <2>. QED
    BY <1>1, <2>1, ScopeStays
<1>6. ASSUME NEW i \in Job PROVE PhaseIsTrue(i)'
  <2>1. CASE i = j
    <3>1. \A t \in JobThread : t # w /\ at'[t].job = j => at'[t].step \notin PhaseSteps
      BY <1>2, <1>3
    <3>2. j \notin runs
      BY <1>1, <1>3 DEF PhaseIsTrue
    <3>. QED
      BY <1>2, <1>3, <2>1, <3>1, <3>2 DEF PhaseIsTrue, Owns, PhaseSteps
  <2>2. CASE i # j
    <3>1. \A t \in JobThread : at'[t] = at[t] \/ at'[t].job # i
      BY <1>2, <2>2
    <3>. QED
      BY <1>1, <3>1, PhaseStays
  <2>. QED
    BY <2>1, <2>2
<1>7. ASSUME NEW i \in Job PROVE HandlesAreKept(i)'
  <2>1. at'[Player] = at[Player]
    BY <1>2, JobNames
  <2>2. Unsubmitted(i)' => Unsubmitted(i) /\ i # j
    <3>1. ~ Unsubmitted(j)
      <4>1. ~ (at[Player].job = j /\ at[Player].step = "submit")
        BY <1>2, <1>3, JobNames DEF PhaseSteps
      <4>. QED
        BY <1>3, <4>1 DEF Unsubmitted
    <3>. QED
      BY <2>1, <3>1 DEF Unsubmitted
  <2>. QED
    BY <1>1, <2>2 DEF HandlesAreKept, Unmade
<1>8. ASSUME NEW i \in Job PROVE ReportsAreMade(i)'
  <2>1. \A t \in JobThread : at[t].job = i /\ at[t].step \in {"notify", "report"} => at'[t] = at[t]
    BY <1>2
  <2>. QED
    BY <1>1, <2>1, ReportsStay
<1>. QED
  BY <1>4, <1>5, <1>6, <1>7, <1>8 DEF JobsInv

(* A step of one thread that changes the phase of one job, or only its own   *)
(* place. *)
QuietSteps == JobSteps \ {"submit", "cancelAll", "exit", "join", "exited"}

LEMMA PhaseChanges ==
  ASSUME JobsInv, NEW th \in JobThread, NEW j \in Job, NEW p \in JobPhase,
         phase' = [phase EXCEPT ![j] = p],
         p = phase[j] \/ (phase[j] \notin {"NONE", "READY"} /\ p \notin {"NONE", "READY"}),
         NEW s \in QuietSteps, NEW m \in Job \cup {NoJob}, at' = [at EXCEPT ![th] = At(s, m)],
         m = j \/ s \notin PhaseSteps, at[th].step \notin {"notify", "report"},
         runs' \subseteq Job, \A i \in runs' : i = j \/ i \in runs,
         PhaseIsTrue(j)',
         bodyHeld' = bodyHeld, outcome' = outcome, await' = await, awaitReady' = awaitReady,
         subscriber' = subscriber, stopDelivered' \in [Job -> BOOLEAN], holder' = holder,
         hasConsumer' = hasConsumer, observed' = observed, reported' = reported,
         reports' = reports, dropping' = dropping, jobList' = jobList, look' \in Nat,
         jobsStopping' = jobsStopping, scopeExit' = scopeExit, jobNews' \in BOOLEAN
  PROVE  JobsInv'
<1>1. JobsTyped /\ ScopeIsTrue
      /\ \A i \in Job : PhaseIsTrue(i) /\ HandlesAreKept(i) /\ ReportsAreMade(i)
  BY DEF JobsInv
<1>2. /\ at' \in [JobThread -> [step : JobSteps, job : Job \cup {NoJob}]]
      /\ at'[th].step = s /\ at'[th].job = m
      /\ \A t \in JobThread : t # th => at'[t] = at[t]
  <2>1. s \in JobSteps
    BY DEF QuietSteps
  <2>. QED
    BY <1>1, <2>1, Goes
<1>3. /\ phase' \in [Job -> JobPhase] /\ phase'[j] = p
      /\ \A i \in Job : i # j => phase'[i] = phase[i]
  BY <1>1 DEF JobsTyped, JobsTypeOK
<1>4. JobsTyped'
  BY <1>1, <1>2, <1>3 DEF JobsTyped, JobsTypeOK
<1>5. ScopeIsTrue'
  <2>1. \A i \in Job : phase[i] \in {"NONE", "READY"} => phase'[i] \in {"NONE", "READY"}
    BY <1>3
  <2>2. \A t \in JobThread :
          at'[t] = at[t] \/ at'[t].step \notin {"submit", "cancelAll", "exit", "join", "exited"}
    BY <1>2 DEF QuietSteps
  <2>. QED
    BY <1>1, <2>1, <2>2, ScopeStays
<1>6. ASSUME NEW i \in Job, i # j PROVE PhaseIsTrue(i)'
  <2>1. \A t \in JobThread : at'[t] = at[t] \/ at'[t].job # i \/ at'[t].step \notin PhaseSteps
    BY <1>2, <1>6
  <2>. QED
    BY <1>1, <1>3, <1>6, <2>1, PhaseStays
<1>7. ASSUME NEW i \in Job PROVE HandlesAreKept(i)'
  <2>1. phase'[i] = "NONE" => phase[i] = "NONE"
    BY <1>3
  <2>2. at'[Player] = at[Player] \/ at'[Player].step # "submit"
    BY <1>2, JobNames DEF QuietSteps
  <2>. QED
    BY <1>1, <2>1, <2>2, HandlesStay DEF HandlesAreKept
<1>8. ASSUME NEW i \in Job PROVE ReportsAreMade(i)'
  <2>1. \A t \in JobThread : at[t].job = i /\ at[t].step \in {"notify", "report"} => at'[t] = at[t]
    BY <1>2
  <2>2. phase'[i] = phase[i] \/ (phase[i] # "READY" /\ phase'[i] # "READY")
    BY <1>3
  <2>. QED
    BY <1>1, <2>1, <2>2, ReportsStay
<1>. QED
  BY <1>4, <1>5, <1>6, <1>7, <1>8 DEF JobsInv

(* The dispatcher goes on, to a step that says nothing of a phase. *)
LEMMA DispatcherMoves ==
  ASSUME JobsInv, NEW j \in Job, at[Dispatcher].step \in {"selected", "failResume"},
         NEW s \in {"read", "failResume"}, NEW m \in Job \cup {NoJob},
         at' = [at EXCEPT ![Dispatcher] = At(s, m)], phase' = phase, runs' = runs,
         bodyHeld' = bodyHeld, outcome' = outcome, await' = await, awaitReady' = awaitReady,
         subscriber' = subscriber, stopDelivered' \in [Job -> BOOLEAN], holder' = holder,
         hasConsumer' = hasConsumer, observed' = observed, reported' = reported,
         reports' = reports, dropping' = dropping, jobList' = jobList, look' = look,
         jobsStopping' = jobsStopping, scopeExit' = scopeExit, jobNews' = jobNews
  PROVE  JobsInv'
<1>1. JobsTyped /\ ScopeIsTrue
      /\ \A i \in Job : PhaseIsTrue(i) /\ HandlesAreKept(i) /\ ReportsAreMade(i)
  BY DEF JobsInv
<1>2. phase' = [phase EXCEPT ![j] = phase[j]] /\ phase[j] \in JobPhase
  BY <1>1 DEF JobsTyped, JobsTypeOK
<1>3. s \in QuietSteps /\ s \in JobSteps /\ s \notin PhaseSteps
  BY DEF QuietSteps, PhaseSteps, JobSteps
<1>4. PhaseIsTrue(j)'
  <2>1. /\ at'[Dispatcher].step = s
        /\ \A t \in JobThread : t # Dispatcher => at'[t] = at[t]
    BY <1>1, <1>3, JobNames, Goes
  <2>2. \A t \in JobThread : at'[t] = at[t] \/ at'[t].step \notin PhaseSteps
    BY <1>3, <2>1
  <2>. QED
    BY <1>1, <2>2, PhaseStays
<1>5. runs' \subseteq Job /\ look' \in Nat /\ jobNews' \in BOOLEAN
  BY <1>1 DEF JobsTyped, JobsTypeOK
<1>. QED
  BY <1>2, <1>3, <1>4, <1>5, JobNames, PhaseChanges

LEMMA JobsStart == JobsInit => JobsInv
<1> SUFFICES ASSUME JobsInit PROVE JobsInv
  OBVIOUS
<1>1. \A t \in JobThread : at[t].job = NoJob /\ at[t].step \in {"idle", "read"}
  BY DEF JobsInit, JobIdle, At
<1>2. JobsTyped
  <2>1. at \in [JobThread -> [step : JobSteps, job : Job \cup {NoJob}]]
    BY DEF JobsInit, JobIdle, At, JobSteps
  <2>2. JobsTypeOK
    <3>1. /\ phase \in [Job -> JobPhase] /\ holder \in [Job -> Job \cup {Player, "gone"}]
          /\ outcome \in [Job -> {"none", "value", "failure", "cancelled"}]
      BY DEF JobsInit, JobPhase
    <3>2. /\ hasConsumer \in [Job -> BOOLEAN] /\ observed \in [Job -> BOOLEAN]
          /\ reported \in [Job -> BOOLEAN] /\ stopDelivered \in [Job -> BOOLEAN]
          /\ bodyHeld \in [Job -> BOOLEAN] /\ awaitReady \in [Job -> BOOLEAN]
      BY DEF JobsInit
    <3>3. /\ reports \in [Job -> Nat] /\ await \in [Job -> Job \cup {NoJob}]
          /\ subscriber \in [Job -> Job \cup {NoJob}] /\ runs \subseteq Job
          /\ dropping \in [Job -> JobThread \cup {NoJob}]
      BY DEF JobsInit
    <3>4. look \in Nat
          /\ jobNews \in BOOLEAN /\ jobsStopping \in BOOLEAN /\ scopeExit \in BOOLEAN
      BY DEF JobsInit
    <3>5. jobList \in Seq(Job)
      <4>1. jobList = <<>>
        BY DEF JobsInit
      <4>. QED
        BY <4>1, EmptySeq
    <3>. QED
      BY <3>1, <3>2, <3>3, <3>4, <3>5 DEF JobsTypeOK
  <2>. QED
    BY <2>1, <2>2 DEF JobsTyped
<1>3. ScopeIsTrue
  BY <1>1, JobNames DEF JobsInit, ScopeIsTrue, Stands
<1>4. ASSUME NEW j \in Job
      PROVE  PhaseIsTrue(j) /\ HandlesAreKept(j) /\ ReportsAreMade(j)
  <2>1. phase[j] = "NONE" /\ bodyHeld[j] /\ await[j] = NoJob /\ ~ observed[j] /\ ~ reported[j]
        /\ reports[j] = 0 /\ holder[j] = "gone" /\ hasConsumer[j] /\ outcome[j] = "none"
        /\ runs = {}
    BY DEF JobsInit
  <2>2. PhaseIsTrue(j)
    BY <1>1, <2>1, JobNames DEF PhaseIsTrue, Owns
  <2>. QED
    BY <2>1, <2>2 DEF HandlesAreKept, Unmade, ReportsAreMade, Settled
<1>. QED
  BY <1>2, <1>3, <1>4 DEF JobsInv

(***************************************************************************)
(* The steps of the worker.                                                 *)
(***************************************************************************)

LEMMA ClaimKeepsJobs ==
  ASSUME JobsInv, NEW w \in JobWorker, NEW j \in Job, ClaimJob(w, j)
  PROVE  JobsInv'
<1>1. /\ Stands(w, "idle") /\ j \in runs /\ runs' = runs \ {j}
      /\ bodyHeld' = bodyHeld /\ outcome' = outcome /\ await' = await /\ awaitReady' = awaitReady
      /\ subscriber' = subscriber /\ stopDelivered' = stopDelivered /\ holder' = holder
      /\ hasConsumer' = hasConsumer /\ observed' = observed /\ reported' = reported
      /\ reports' = reports /\ dropping' = dropping /\ jobList' = jobList /\ look' = look
      /\ jobsStopping' = jobsStopping /\ scopeExit' = scopeExit /\ jobNews' = jobNews
  BY DEF ClaimJob, handleVars, scopeVars
<1>2. JobsTyped /\ ScopeIsTrue
      /\ \A i \in Job : PhaseIsTrue(i) /\ HandlesAreKept(i) /\ ReportsAreMade(i)
  BY DEF JobsInv
<1>3. w \in JobThread /\ at[w].step = "idle"
  BY <1>1, JobNames DEF Stands
<1>4. CASE phase[j] \in {"QUEUED", "RESUME_QUEUED"}
  <2>1. phase' = [phase EXCEPT ![j] = "RUNNING"] /\ at' = [at EXCEPT ![w] = At("check", j)]
    BY <1>4 DEF ClaimJob, Go
  <2>2. at'[w].step = "check" /\ at'[w].job = j /\ \A t \in JobThread : t # w => at'[t] = at[t]
    <3>1. "check" \in JobSteps
      BY DEF JobSteps
    <3>. QED
      BY <1>2, <1>3, <2>1, <3>1, Goes
  <2>3. phase'[j] = "RUNNING"
    BY <1>2, <2>1 DEF JobsTyped, JobsTypeOK
  <2>4. PhaseIsTrue(j)'
    <3>1. \A t \in JobThread : t # w /\ at'[t].job = j => at'[t].step \notin PhaseSteps
      BY <1>1, <1>2, <1>4, <2>2 DEF PhaseIsTrue, PhaseSteps, Owns
    <3>2. bodyHeld[j]
      BY <1>2, <1>4 DEF PhaseIsTrue
    <3>. QED
      BY <1>1, <2>2, <2>3, <3>1, <3>2 DEF PhaseIsTrue, Owns, PhaseSteps
  <2>5. "RUNNING" \in JobPhase /\ "check" \in QuietSteps
    BY DEF JobPhase, QuietSteps, JobSteps
  <2>. QED
    BY <1>1, <1>2, <1>3, <1>4, <2>1, <2>4, <2>5, PhaseChanges DEF JobsTyped, JobsTypeOK
<1>5. CASE phase[j] \notin {"QUEUED", "RESUME_QUEUED"}
  <2>1. phase' = phase /\ at' = at
    BY <1>5 DEF ClaimJob
  <2>2. JobsTyped'
    BY <1>1, <1>2, <2>1 DEF JobsTyped, JobsTypeOK
  <2>3. ScopeIsTrue'
    BY <1>1, <1>2, <2>1, ScopeStays
  <2>4. ASSUME NEW i \in Job
        PROVE  PhaseIsTrue(i)' /\ HandlesAreKept(i)' /\ ReportsAreMade(i)'
    <3>1. PhaseIsTrue(i)'
      BY <1>1, <1>2, <2>1, PhaseStays
    <3>2. HandlesAreKept(i)'
      BY <1>1, <1>2, <2>1, HandlesStay DEF HandlesAreKept
    <3>3. ReportsAreMade(i)'
      BY <1>1, <1>2, <2>1, ReportsStay
    <3>. QED
      BY <3>1, <3>2, <3>3
  <2>. QED
    BY <2>2, <2>3, <2>4 DEF JobsInv
<1>. QED
  BY <1>4, <1>5

LEMMA CheckKeepsJobs ==
  ASSUME JobsInv, NEW w \in JobWorker, NEW j \in Job, CheckStopping(w, j)
  PROVE  JobsInv'
<1>1. /\ at[w] = At("check", j) /\ runs' = runs
      /\ await' = await /\ awaitReady' = awaitReady
      /\ subscriber' = subscriber /\ stopDelivered' = stopDelivered
      /\ observed' = observed /\ reported' = reported
      /\ reports' = reports /\ jobList' = jobList /\ look' = look
      /\ jobsStopping' = jobsStopping /\ scopeExit' = scopeExit /\ jobNews' = jobNews
  BY DEF CheckStopping, scopeVars
<1>2. JobsTyped /\ ScopeIsTrue
      /\ \A i \in Job : PhaseIsTrue(i) /\ HandlesAreKept(i) /\ ReportsAreMade(i)
  BY DEF JobsInv
<1>3. /\ w \in JobThread /\ at[w].step = "check" /\ at[w].job = j
      /\ \A t \in JobThread : t # w /\ at[t].job = j => at[t].step \notin PhaseSteps
  <2>1. w \in JobThread /\ at[w].step = "check" /\ at[w].job = j
    BY <1>1, JobNames DEF At
  <2>. QED
    BY <1>2, <2>1, AloneAt
<1>4. phase[j] \in {"RUNNING", "STOP_RUNNING"} /\ bodyHeld[j]
  BY <1>2, <1>3 DEF PhaseIsTrue
<1>5. CASE jobsStopping
  <2>1. /\ phase' = [phase EXCEPT ![j] = "FINALIZING"] /\ ReleaseBody(w, j)
        /\ outcome' = [outcome EXCEPT ![j] = CancelledOutcome(outcome[j])]
        /\ at' = [at EXCEPT ![w] = At("publish", j)]
    BY <1>5 DEF CheckStopping, Go
  <2>2. /\ phase' \in [Job -> JobPhase] /\ phase'[j] = "FINALIZING"
        /\ \A i \in Job : i # j => phase'[i] = phase[i]
    BY <1>2, <2>1 DEF JobsTyped, JobsTypeOK, JobPhase
  <2>3. /\ outcome' \in [Job -> {"none", "value", "failure", "cancelled"}] /\ outcome'[j] # "none"
        /\ \A i \in Job : i # j => outcome'[i] = outcome[i]
    BY <1>2, <2>1 DEF JobsTyped, JobsTypeOK, CancelledOutcome
  <2>4. /\ phase[j] \notin {"NONE", "READY"} /\ phase'[j] \notin {"NONE", "READY"}
        /\ at[w].step \notin {"notify", "report"}
    BY <1>3, <1>4, <2>2
  <2>5. BodyEnded(w, j, "publish")
    BY <1>1, <1>3, <2>1, <2>2, <2>3, <2>4 DEF BodyEnded
  <2>. QED
    BY <1>3, <2>5, BodyGoes
<1>6. CASE ~ jobsStopping
  <2>1. /\ at' = [at EXCEPT ![w] = At("body", j)] /\ phase' = phase /\ bodyHeld' = bodyHeld
        /\ outcome' = outcome /\ holder' = holder /\ hasConsumer' = hasConsumer
        /\ dropping' = dropping
    BY <1>6 DEF CheckStopping, Go
  <2>2. /\ await \in [Job -> Job \cup {NoJob}] /\ awaitReady \in [Job -> BOOLEAN]
        /\ subscriber \in [Job -> Job \cup {NoJob}]
    BY <1>2 DEF JobsTyped, JobsTypeOK
  <2>. QED
    BY <1>1, <1>3, <2>1, <2>2, BodyMoves
<1>. QED
  BY <1>5, <1>6

LEMMA EndKeepsJobs ==
  ASSUME JobsInv, NEW w \in JobWorker, NEW j \in Job, NEW o \in {"value", "failure"},
         BodyEnds(w, j, o)
  PROVE  JobsInv'
<1>1. /\ at[w] = At("body", j) /\ outcome' = [outcome EXCEPT ![j] = o] /\ ReleaseBody(w, j)
      /\ at' = [at EXCEPT ![w] = At("finalize", j)] /\ phase' = phase /\ runs' = runs
      /\ await' = await /\ awaitReady' = awaitReady
      /\ subscriber' = subscriber /\ stopDelivered' = stopDelivered
      /\ observed' = observed /\ reported' = reported
      /\ reports' = reports /\ jobList' = jobList /\ look' = look
      /\ jobsStopping' = jobsStopping /\ scopeExit' = scopeExit /\ jobNews' = jobNews
  BY DEF BodyEnds, scopeVars, Go
<1>2. JobsTyped /\ ScopeIsTrue
      /\ \A i \in Job : PhaseIsTrue(i) /\ HandlesAreKept(i) /\ ReportsAreMade(i)
  BY DEF JobsInv
<1>3. /\ w \in JobThread /\ at[w].step = "body" /\ at[w].job = j
      /\ \A t \in JobThread : t # w /\ at[t].job = j => at[t].step \notin PhaseSteps
  <2>1. w \in JobThread /\ at[w].step = "body" /\ at[w].job = j
    BY <1>1, JobNames DEF At
  <2>. QED
    BY <1>2, <2>1, AloneAt
<1>4. phase[j] \in {"RUNNING", "STOP_RUNNING"} /\ j \notin runs /\ phase \in [Job -> JobPhase]
  BY <1>2, <1>3 DEF PhaseIsTrue, JobsTyped, JobsTypeOK
<1>5. /\ outcome' \in [Job -> {"none", "value", "failure", "cancelled"}] /\ outcome'[j] # "none"
      /\ \A i \in Job : i # j => outcome'[i] = outcome[i]
  BY <1>1, <1>2 DEF JobsTyped, JobsTypeOK
<1>6. /\ phase[j] \notin {"NONE", "READY"} /\ at[w].step \notin {"notify", "report"}
  BY <1>3, <1>4
<1>7. BodyEnded(w, j, "finalize")
  BY <1>1, <1>3, <1>4, <1>5, <1>6 DEF BodyEnded
<1>. QED
  BY <1>3, <1>7, BodyGoes

LEMMA AwaitKeepsJobs ==
  ASSUME JobsInv, NEW w \in JobWorker, NEW j \in Job, NEW k \in Job, Await(w, j, k)
  PROVE  JobsInv'
<1>1. /\ at[w] = At("body", j) /\ holder[k] = j /\ await' = [await EXCEPT ![j] = k]
      /\ awaitReady' = [awaitReady EXCEPT ![j] = FALSE]
      /\ phase' = phase /\ bodyHeld' = bodyHeld /\ outcome' = outcome /\ holder' = holder
      /\ hasConsumer' = hasConsumer /\ dropping' = dropping /\ runs' = runs
      /\ subscriber' = subscriber /\ stopDelivered' = stopDelivered
      /\ observed' = observed /\ reported' = reported
      /\ reports' = reports /\ jobList' = jobList /\ look' = look
      /\ jobsStopping' = jobsStopping /\ scopeExit' = scopeExit /\ jobNews' = jobNews
  BY DEF Await, handleVars, scopeVars
<1>2. JobsTyped
  BY DEF JobsInv
<1>3. PICK s \in {"body", "subscribe"} : at' = [at EXCEPT ![w] = At(s, j)]
  <2>1. CASE phase[k] = "READY"
    <3>1. at' = at
      BY <2>1 DEF Await
    <3>2. at = [at EXCEPT ![w] = at[w]]
      BY <1>2 DEF JobsTyped
    <3>. QED
      BY <1>1, <3>1, <3>2
  <2>2. CASE phase[k] # "READY"
    BY <2>2 DEF Await, Go
  <2>. QED
    BY <2>1, <2>2
<1>4. at[w].step = "body" /\ at[w].job = j
  BY <1>1 DEF At
<1>5. /\ await' \in [Job -> Job \cup {NoJob}] /\ awaitReady' \in [Job -> BOOLEAN]
      /\ subscriber' \in [Job -> Job \cup {NoJob}]
      /\ \A i \in Job : i # j => await'[i] = await[i]
      /\ holder[await'[j]] = j
  BY <1>1, <1>2 DEF JobsTyped, JobsTypeOK
<1>. QED
  BY <1>1, <1>3, <1>4, <1>5, BodyMoves

LEMMA SubscribeKeepsJobs ==
  ASSUME JobsInv, NEW w \in JobWorker, NEW j \in Job, Subscribe(w, j)
  PROVE  JobsInv'
<1>1. /\ at[w] = At("subscribe", j) /\ await' = await /\ awaitReady' = awaitReady
      /\ phase' = phase /\ bodyHeld' = bodyHeld /\ outcome' = outcome /\ holder' = holder
      /\ hasConsumer' = hasConsumer /\ dropping' = dropping /\ runs' = runs
      /\ stopDelivered' = stopDelivered
      /\ observed' = observed /\ reported' = reported
      /\ reports' = reports /\ jobList' = jobList /\ look' = look
      /\ jobsStopping' = jobsStopping /\ scopeExit' = scopeExit /\ jobNews' = jobNews
  BY DEF Subscribe, handleVars, scopeVars
<1>2. /\ await \in [Job -> Job \cup {NoJob}] /\ awaitReady \in [Job -> BOOLEAN]
      /\ subscriber \in [Job -> Job \cup {NoJob}]
  BY DEF JobsInv, JobsTyped, JobsTypeOK
<1>3. PICK s \in {"body", "suspend"} : at' = [at EXCEPT ![w] = At(s, j)]
  BY DEF Subscribe, Go
<1>4. at[w].step = "subscribe" /\ at[w].job = j
  BY <1>1 DEF At
<1>5. subscriber' \in [Job -> Job \cup {NoJob}]
  BY <1>2 DEF Subscribe
<1>. QED
  BY <1>1, <1>2, <1>3, <1>4, <1>5, BodyMoves

LEMMA SuspendKeepsJobs ==
  ASSUME JobsInv, NEW w \in JobWorker, NEW j \in Job, Suspend(w, j)
  PROVE  JobsInv'
<1>1. /\ at[w] = At("suspend", j) /\ await' = await /\ awaitReady' = awaitReady
      /\ subscriber' = subscriber /\ outcome' = outcome /\ runs' = runs
      /\ stopDelivered' = stopDelivered /\ observed' = observed /\ reported' = reported
      /\ reports' = reports /\ jobList' = jobList /\ look' = look
      /\ jobsStopping' = jobsStopping /\ scopeExit' = scopeExit /\ jobNews' = jobNews
  BY DEF Suspend, scopeVars
<1>2. JobsTyped /\ ScopeIsTrue
      /\ \A i \in Job : PhaseIsTrue(i) /\ HandlesAreKept(i) /\ ReportsAreMade(i)
  BY DEF JobsInv
<1>3. /\ w \in JobThread /\ at[w].step = "suspend" /\ at[w].job = j
      /\ \A t \in JobThread : t # w /\ at[t].job = j => at[t].step \notin PhaseSteps
  <2>1. w \in JobThread /\ at[w].step = "suspend" /\ at[w].job = j
    BY <1>1, JobNames DEF At
  <2>. QED
    BY <1>2, <2>1, AloneAt
<1>4. phase[j] \in {"RUNNING", "STOP_RUNNING"} /\ bodyHeld[j] /\ j \notin runs
      /\ phase \in [Job -> JobPhase]
  BY <1>2, <1>3 DEF PhaseIsTrue, JobsTyped, JobsTypeOK
<1>5. CASE phase[j] = "RUNNING"
  <2>1. /\ phase' = [phase EXCEPT ![j] = "WAITING"] /\ at' = [at EXCEPT ![w] = At("wake", NoJob)]
        /\ bodyHeld' = bodyHeld /\ holder' = holder /\ hasConsumer' = hasConsumer
        /\ dropping' = dropping
    BY <1>5 DEF Suspend, Go
  <2>2. "wake" \in QuietSteps /\ "wake" \notin PhaseSteps /\ "WAITING" \in JobPhase
        /\ "wake" \in JobSteps
    BY DEF QuietSteps, PhaseSteps, JobPhase, JobSteps
  <2>3. at'[w].step = "wake" /\ \A t \in JobThread : t # w => at'[t] = at[t]
    BY <1>2, <1>3, <2>1, <2>2, Goes
  <2>4. phase'[j] = "WAITING"
    BY <1>4, <2>1
  <2>5. PhaseIsTrue(j)'
    <3>1. \A t \in JobThread : at'[t].job = j => at'[t].step \notin PhaseSteps
      BY <1>3, <2>2, <2>3
    <3>. QED
      BY <1>1, <1>4, <2>1, <2>4, <3>1 DEF PhaseIsTrue, Owns, PhaseSteps
  <2>. QED
    BY <1>1, <1>2, <1>3, <1>4, <2>1, <2>2, <2>5, PhaseChanges DEF JobsTyped, JobsTypeOK
<1>6. CASE phase[j] # "RUNNING"
  <2>1. /\ ReleaseBody(w, j) /\ at' = [at EXCEPT ![w] = At("finalize", j)] /\ phase' = phase
    BY <1>6 DEF Suspend, Go
  <2>2. outcome \in [Job -> {"none", "value", "failure", "cancelled"}]
    BY <1>2 DEF JobsTyped, JobsTypeOK
  <2>3. /\ phase[j] = "STOP_RUNNING" /\ phase[j] \notin {"NONE", "READY"}
        /\ at[w].step \notin {"notify", "report"}
    BY <1>3, <1>4, <1>6
  <2>4. BodyEnded(w, j, "finalize")
    BY <1>1, <1>3, <1>4, <2>1, <2>2, <2>3 DEF BodyEnded
  <2>. QED
    BY <1>3, <2>4, BodyGoes
<1>. QED
  BY <1>5, <1>6

(* A body that goes on takes the result it awaited; nobody else awaits it. *)
LEMMA ResumedKeepsJobs ==
  ASSUME JobsInv, NEW w \in JobWorker, NEW j \in Job, Resumed(w, j)
  PROVE  JobsInv'
<1> DEFINE k == await[j]
<1>1. JobsTyped /\ ScopeIsTrue
      /\ \A i \in Job : PhaseIsTrue(i) /\ HandlesAreKept(i) /\ ReportsAreMade(i)
  BY DEF JobsInv
<1>2. /\ at[w].step = "body" /\ at[w].job = j /\ w \in JobThread /\ k \in Job
  BY <1>1, JobNames DEF Resumed, At, JobsTyped, JobsTypeOK
<1>3. /\ observed' = [observed EXCEPT ![k] = TRUE] /\ holder' = [holder EXCEPT ![k] = "gone"]
      /\ await' = [await EXCEPT ![j] = NoJob]
      /\ phase' = phase /\ bodyHeld' = bodyHeld /\ outcome' = outcome
      /\ hasConsumer' = hasConsumer /\ dropping' = dropping /\ runs' = runs /\ at' = at
      /\ stopDelivered' = stopDelivered /\ reported' = reported
      /\ awaitReady' = awaitReady /\ subscriber' = subscriber
      /\ reports' = reports /\ jobList' = jobList /\ look' = look
      /\ jobsStopping' = jobsStopping /\ scopeExit' = scopeExit /\ jobNews' = jobNews
  BY DEF Resumed, TakeAwaited, scopeVars
<1>4. holder[k] = j /\ bodyHeld[j] /\ hasConsumer[k] /\ ~ Unsubmitted(k)
  BY <1>1, <1>2, JobNames DEF PhaseIsTrue, HandlesAreKept, Unmade
<1>5. /\ observed' \in [Job -> BOOLEAN] /\ holder' \in [Job -> Job \cup {Player, "gone"}]
      /\ await' \in [Job -> Job \cup {NoJob}] /\ await'[j] = NoJob
      /\ holder'[k] = "gone" /\ observed'[k]
      /\ \A i \in Job : i # j => await'[i] = await[i]
      /\ \A i \in Job : i # k => holder'[i] = holder[i] /\ observed'[i] = observed[i]
  BY <1>1, <1>2, <1>3 DEF JobsTyped, JobsTypeOK
<1> HIDE DEF k
<1>6. JobsTyped'
  BY <1>1, <1>3, <1>5 DEF JobsTyped, JobsTypeOK
<1>7. ScopeIsTrue'
  BY <1>1, <1>3, ScopeStays
<1>8. ASSUME NEW i \in Job PROVE PhaseIsTrue(i)' /\ ReportsAreMade(i)'
  <2>1. PhaseIsTrue(i)'
    BY <1>1, <1>3, PhaseStays
  <2>2. ReportsAreMade(i)'
    BY <1>1, <1>3, ReportsStay
  <2>. QED
    BY <2>1, <2>2
<1>9. ASSUME NEW i \in Job PROVE HandlesAreKept(i)'
  <2>1. Unsubmitted(i)' <=> Unsubmitted(i)
    BY <1>3 DEF Unsubmitted
  <2>2. Unsubmitted(i)' => Unmade(i)'
    <3>1. Unsubmitted(i)' => Unmade(i) /\ i # k
      BY <1>1, <1>4, <2>1 DEF HandlesAreKept
    <3>2. CASE i = j
      BY <1>3, <1>5, <3>1, <3>2 DEF Unmade
    <3>3. CASE i # j
      BY <1>3, <1>5, <3>1, <3>3 DEF Unmade
    <3>. QED
      BY <3>2, <3>3
  <2>3. bodyHeld'[i] /\ await'[i] # NoJob => holder'[await'[i]] = i
    <3>1. await'[i] # NoJob => i # j /\ await'[i] = await[i] /\ await[i] \in Job
      BY <1>1, <1>5 DEF JobsTyped, JobsTypeOK
    <3>. QED
      BY <1>1, <1>3, <1>4, <1>5, <3>1 DEF HandlesAreKept
  <2>4. /\ holder'[i] # "gone" => hasConsumer'[i]
        /\ observed'[i] => hasConsumer'[i] /\ holder'[i] = "gone"
    BY <1>1, <1>3, <1>4, <1>5 DEF HandlesAreKept
  <2>. QED
    BY <2>2, <2>3, <2>4 DEF HandlesAreKept
<1>. QED
  BY <1>6, <1>7, <1>8, <1>9 DEF JobsInv

(***************************************************************************)
(* Publication and reports.                                                 *)
(***************************************************************************)

LEMMA Publishes ==
  ASSUME JobsInv, NEW th \in JobThread, NEW j \in Job, Publication(th, j),
         at[th].job = j, at[th].step \in {"finalize", "publish"},
         outcome' \in [Job -> {"none", "value", "failure", "cancelled"}], outcome'[j] # "none",
         \A i \in Job : i # j => outcome'[i] = outcome[i]
  PROVE  JobsInv'
<1>1. JobsTyped /\ ScopeIsTrue
      /\ \A i \in Job : PhaseIsTrue(i) /\ HandlesAreKept(i) /\ ReportsAreMade(i)
  BY DEF JobsInv
<1>2. /\ phase' = [phase EXCEPT ![j] = "READY"] /\ await' = [await EXCEPT ![j] = NoJob]
      /\ awaitReady' = [awaitReady EXCEPT ![j] = FALSE]
      /\ bodyHeld' = bodyHeld /\ subscriber' = subscriber /\ stopDelivered' = stopDelivered
      /\ holder' = holder /\ hasConsumer' = hasConsumer /\ observed' = observed
      /\ reported' = reported /\ reports' = reports /\ dropping' = dropping /\ runs' = runs
      /\ jobList' = jobList /\ look' = look /\ jobsStopping' = jobsStopping
      /\ scopeExit' = scopeExit /\ jobNews' = jobNews
  BY DEF Publication, handleVars, scopeVars
<1>3. PICK s \in {"notify", "report"} : at' = [at EXCEPT ![th] = At(s, j)]
  BY DEF Publication, Go
<1>4. /\ at' \in [JobThread -> [step : JobSteps, job : Job \cup {NoJob}]]
      /\ at'[th].step = s /\ at'[th].job = j
      /\ \A t \in JobThread : t # th => at'[t] = at[t]
  <2>1. s \in JobSteps /\ j \in Job \cup {NoJob}
    BY DEF JobSteps
  <2>. QED
    BY <1>1, <1>3, <2>1, Goes
<1>5. /\ phase[j] # "READY" /\ ~ bodyHeld[j]
      /\ \A t \in JobThread : t # th /\ at[t].job = j => at[t].step \notin PhaseSteps
  <2>1. \A t \in JobThread : t # th /\ at[t].job = j => at[t].step \notin PhaseSteps
    BY <1>1, AloneAt
  <2>. QED
    BY <1>1, <2>1 DEF PhaseIsTrue
<1>6. /\ phase' \in [Job -> JobPhase] /\ phase'[j] = "READY"
      /\ \A i \in Job : i # j => phase'[i] = phase[i] /\ await'[i] = await[i]
      /\ await' \in [Job -> Job \cup {NoJob}] /\ awaitReady' \in [Job -> BOOLEAN]
  BY <1>1, <1>2 DEF JobsTyped, JobsTypeOK, JobPhase
<1>7. JobsTyped'
  BY <1>1, <1>2, <1>4, <1>6 DEF JobsTyped, JobsTypeOK
<1>8. ScopeIsTrue'
  <2>1. \A i \in Job : phase[i] \in {"NONE", "READY"} => phase'[i] \in {"NONE", "READY"}
    BY <1>6
  <2>2. \A t \in JobThread :
          at'[t] = at[t] \/ at'[t].step \notin {"submit", "cancelAll", "exit", "join", "exited"}
    BY <1>4
  <2>. QED
    BY <1>1, <1>2, <2>1, <2>2, ScopeStays
<1>9. ASSUME NEW i \in Job PROVE PhaseIsTrue(i)'
  <2>1. CASE i = j
    <3>1. \A t \in JobThread : t # th /\ at'[t].job = j => at'[t].step \notin PhaseSteps
      BY <1>4, <1>5
    <3>. QED
      BY <1>2, <1>4, <1>5, <1>6, <2>1, <3>1 DEF PhaseIsTrue, Owns, PhaseSteps
  <2>2. CASE i # j
    <3>1. \A t \in JobThread : at'[t] = at[t] \/ at'[t].job # i
      BY <1>4, <2>2
    <3>. QED
      BY <1>1, <1>2, <1>6, <2>2, <3>1, PhaseStays
  <2>. QED
    BY <2>1, <2>2
<1>10. ASSUME NEW i \in Job PROVE HandlesAreKept(i)'
  <2>1. at'[Player] = at[Player] \/ at'[Player].step # "submit"
    BY <1>4, JobNames
  <2>2. CASE i = j
    <3>1. ~ Unsubmitted(i)' /\ ~ bodyHeld'[i]
      <4>1. ~ (at'[Player].job = j /\ at'[Player].step = "submit")
        BY <1>4, <1>5, JobNames DEF PhaseSteps
      <4>. QED
        BY <1>2, <1>5, <1>6, <2>2, <4>1 DEF Unsubmitted
    <3>. QED
      BY <1>1, <1>2, <3>1 DEF HandlesAreKept
  <2>3. CASE i # j
    BY <1>1, <1>2, <1>6, <2>1, <2>3, HandlesStay DEF HandlesAreKept
  <2>. QED
    BY <2>2, <2>3
<1>11. ASSUME NEW i \in Job PROVE ReportsAreMade(i)'
  <2>1. CASE i = j
    <3>1. ~ Settled(i)'
      BY <1>4, <2>1 DEF Settled
    <3>. QED
      BY <1>1, <1>2, <1>5, <1>6, <2>1, <3>1 DEF ReportsAreMade
  <2>2. CASE i # j
    <3>1. \A t \in JobThread : at[t].job = i /\ at[t].step \in {"notify", "report"} => at'[t] = at[t]
      BY <1>4
    <3>. QED
      BY <1>1, <1>2, <1>6, <2>2, <3>1, ReportsStay
  <2>. QED
    BY <2>1, <2>2
<1>. QED
  BY <1>7, <1>8, <1>9, <1>10, <1>11 DEF JobsInv

LEMMA PublishKeepsJobs ==
  ASSUME JobsInv, NEW th \in JobThread, NEW j \in Job, Publish(th, j)
  PROVE  JobsInv'
<1>1. /\ at[th].step = "publish" /\ at[th].job = j /\ Publication(th, j) /\ outcome' = outcome
  BY DEF Publish, At
<1>2. outcome \in [Job -> {"none", "value", "failure", "cancelled"}] /\ outcome[j] # "none"
  BY <1>1 DEF JobsInv, JobsTyped, JobsTypeOK, PhaseIsTrue
<1>. QED
  BY <1>1, <1>2, Publishes

LEMMA FinalizeKeepsJobs ==
  ASSUME JobsInv, NEW w \in JobWorker, NEW j \in Job, FinalizeJob(w, j)
  PROVE  JobsInv'
<1>1. /\ at[w].step = "finalize" /\ at[w].job = j /\ Publication(w, j) /\ w \in JobThread
      /\ outcome' = [outcome EXCEPT
           ![j] = IF phase[j] = "STOP_RUNNING" THEN CancelledOutcome(outcome[j]) ELSE outcome[j]]
  BY JobNames DEF FinalizeJob, At
<1>2. /\ outcome \in [Job -> {"none", "value", "failure", "cancelled"}]
      /\ outcome[j] = "none" => phase[j] = "STOP_RUNNING"
  BY <1>1 DEF JobsInv, JobsTyped, JobsTypeOK, PhaseIsTrue
<1>3. /\ outcome' \in [Job -> {"none", "value", "failure", "cancelled"}] /\ outcome'[j] # "none"
      /\ \A i \in Job : i # j => outcome'[i] = outcome[i]
  BY <1>1, <1>2 DEF CancelledOutcome
<1>. QED
  BY <1>1, <1>3, Publishes

(* What nobody can take any more is reported when it is ready, once. *)
LEMMA ReportIs ==
  ASSUME JobsInv, NEW k \in Job, ReportUnobserved(k),
         phase' = phase, outcome' = outcome, hasConsumer' = hasConsumer
  PROVE  /\ reported' \in [Job -> BOOLEAN] /\ reports' \in [Job -> Nat]
         /\ \A i \in Job : i # k => reported'[i] = reported[i] /\ reports'[i] = reports[i]
         /\ phase[k] # "READY" => reported'[k] = reported[k]
         /\ ReportsAreMade(k)'
<1>1. JobsTyped /\ ScopeIsTrue
      /\ \A i \in Job : PhaseIsTrue(i) /\ HandlesAreKept(i) /\ ReportsAreMade(i)
  BY DEF JobsInv
<1>2. /\ reported' = [reported EXCEPT ![k] = reported[k] \/ Unobserved(k)]
      /\ reports' = [reports EXCEPT ![k] = IF Unobserved(k) /\ outcome[k] = "failure"
                                           THEN reports[k] + 1 ELSE reports[k]]
  BY DEF ReportUnobserved
<1>3. /\ reported \in [Job -> BOOLEAN] /\ reports \in [Job -> Nat] /\ reports[k] + 1 \in Nat
  BY <1>1 DEF JobsTyped, JobsTypeOK
<1>4. reported' \in [Job -> BOOLEAN]
      /\ reported'[k] = (reported[k] \/ Unobserved(k))
      /\ \A i \in Job : i # k => reported'[i] = reported[i]
  <2>1. (reported[k] \/ Unobserved(k)) \in BOOLEAN
    OBVIOUS
  <2>. QED
    BY <1>2, <1>3, <2>1
<1>5. reports' \in [Job -> Nat]
      /\ reports'[k] = (IF Unobserved(k) /\ outcome[k] = "failure" THEN reports[k] + 1 ELSE reports[k])
      /\ \A i \in Job : i # k => reports'[i] = reports[i]
  BY <1>2, <1>3
<1>6. phase[k] # "READY" => reported'[k] = reported[k]
  BY <1>3, <1>4 DEF Unobserved
<1>7. ReportsAreMade(k)'
  <2>1. reported'[k] => phase'[k] = "READY"
    BY <1>1, <1>4 DEF ReportsAreMade, Unobserved
  <2>2. reports'[k] = IF reported'[k] /\ outcome'[k] = "failure" THEN 1 ELSE 0
    BY <1>1, <1>4, <1>5 DEF ReportsAreMade, Unobserved
  <2>3. Settled(k)' => reported'[k]
    BY <1>1, <1>4 DEF Settled, HandlesAreKept, Unobserved
  <2>. QED
    BY <2>1, <2>2, <2>3 DEF ReportsAreMade
<1>. QED
  BY <1>4, <1>5, <1>6, <1>7

(* A report of one job leaves the rest as it was. *)
LEMMA Reporting ==
  ASSUME JobsInv, NEW k \in Job, ReportUnobserved(k),
         dropping' \in [Job -> JobThread \cup {NoJob}],
         \A i \in Job : i # k => dropping'[i] = dropping[i],
         at' \in [JobThread -> [step : JobSteps, job : Job \cup {NoJob}]],
         \A t \in JobThread : at'[t] = at[t] \/ (/\ at[t].job = k /\ at'[t].job = NoJob
                                              /\ at'[t].step \in {"idle", "read"}),
         phase' = phase, bodyHeld' = bodyHeld, outcome' = outcome, await' = await,
         awaitReady' = awaitReady, subscriber' = subscriber, stopDelivered' = stopDelivered,
         holder' = holder, hasConsumer' = hasConsumer, observed' = observed, runs' = runs,
         jobList' = jobList, look' = look, jobsStopping' = jobsStopping, scopeExit' = scopeExit,
         jobNews' \in BOOLEAN
  PROVE  JobsInv'
<1>1. JobsTyped /\ ScopeIsTrue
      /\ \A i \in Job : PhaseIsTrue(i) /\ HandlesAreKept(i) /\ ReportsAreMade(i)
  BY DEF JobsInv
<1>2. /\ reported' \in [Job -> BOOLEAN] /\ reports' \in [Job -> Nat]
      /\ \A i \in Job : i # k => reported'[i] = reported[i] /\ reports'[i] = reports[i]
      /\ phase[k] # "READY" => reported'[k] = reported[k]
      /\ ReportsAreMade(k)'
  BY ReportIs
<1>3. JobsTyped'
  BY <1>1, <1>2 DEF JobsTyped, JobsTypeOK
<1>4. ScopeIsTrue'
  <2>1. \A t \in JobThread :
          at'[t] = at[t] \/ at'[t].step \notin {"submit", "cancelAll", "exit", "join", "exited"}
    OBVIOUS
  <2>. QED
    BY <1>1, <2>1, ScopeStays
<1>5. ASSUME NEW i \in Job PROVE PhaseIsTrue(i)'
  <2>1. \A t \in JobThread : at'[t] = at[t] \/ at'[t].job # i
    BY JobNames
  <2>. QED
    BY <1>1, <2>1, PhaseStays
<1>6. ASSUME NEW i \in Job PROVE HandlesAreKept(i)'
  <2>1. Unsubmitted(i)' => Unsubmitted(i)
    BY JobNames DEF Unsubmitted
  <2>2. Unsubmitted(i) => phase[i] # "READY"
    BY <1>1, JobNames DEF Unsubmitted, PhaseIsTrue
  <2>3. Unsubmitted(i) => reported'[i] = reported[i]
    BY <1>2, <2>2
  <2>. QED
    BY <1>1, <2>1, <2>3 DEF HandlesAreKept, Unmade
<1>7. ASSUME NEW i \in Job, i # k PROVE ReportsAreMade(i)'
  <2>1. \A t \in JobThread : at[t].job = i /\ at[t].step \in {"notify", "report"} => at'[t] = at[t]
    BY <1>7
  <2>. QED
    BY <1>1, <1>2, <1>7, <2>1, ReportsStay
<1>. QED
  BY <1>2, <1>3, <1>4, <1>5, <1>6, <1>7 DEF JobsInv

LEMMA ReportKeepsJobs ==
  ASSUME JobsInv, NEW th \in JobThread, NEW j \in Job, Report(th, j)
  PROVE  JobsInv'
<1>1. JobsTyped /\ dropping \in [Job -> JobThread \cup {NoJob}]
  BY DEF JobsInv, JobsTyped, JobsTypeOK
<1>2. /\ at[th].job = j /\ ReportUnobserved(j) /\ jobNews' = TRUE
      /\ phase' = phase /\ bodyHeld' = bodyHeld /\ outcome' = outcome /\ await' = await
      /\ awaitReady' = awaitReady /\ subscriber' = subscriber /\ stopDelivered' = stopDelivered
      /\ holder' = holder /\ hasConsumer' = hasConsumer /\ observed' = observed
      /\ dropping' = dropping /\ runs' = runs
      /\ jobList' = jobList /\ look' = look /\ jobsStopping' = jobsStopping
      /\ scopeExit' = scopeExit
  BY DEF Report, At, jobVars, scopeVars
<1>3. PICK s \in {"idle", "read"} : at' = [at EXCEPT ![th] = At(s, NoJob)]
  BY DEF Report, Rest, JobIdle, At
<1>4. /\ at' \in [JobThread -> [step : JobSteps, job : Job \cup {NoJob}]]
      /\ at'[th].step = s /\ at'[th].job = NoJob
      /\ \A t \in JobThread : t # th => at'[t] = at[t]
  <2>1. s \in JobSteps /\ NoJob \in Job \cup {NoJob}
    BY DEF JobSteps
  <2>. QED
    BY <1>1, <1>3, <2>1, Goes
<1>5. \A t \in JobThread : at'[t] = at[t] \/ (/\ at[t].job = j /\ at'[t].job = NoJob
                                            /\ at'[t].step \in {"idle", "read"})
  BY <1>2, <1>4
<1>. QED
  BY <1>1, <1>2, <1>4, <1>5, Reporting

LEMMA AbandonKeepsJobs ==
  ASSUME JobsInv, NEW k \in Job, EndAbandon(k)
  PROVE  JobsInv'
<1>1. JobsTyped /\ dropping \in [Job -> JobThread \cup {NoJob}] /\ jobNews \in BOOLEAN
      /\ at \in [JobThread -> [step : JobSteps, job : Job \cup {NoJob}]]
  BY DEF JobsInv, JobsTyped, JobsTypeOK
<1>2. /\ ReportUnobserved(k) /\ dropping' = [dropping EXCEPT ![k] = NoJob] /\ at' = at
      /\ phase' = phase /\ bodyHeld' = bodyHeld /\ outcome' = outcome /\ await' = await
      /\ awaitReady' = awaitReady /\ subscriber' = subscriber /\ stopDelivered' = stopDelivered
      /\ holder' = holder /\ hasConsumer' = hasConsumer /\ observed' = observed
      /\ runs' = runs /\ jobList' = jobList /\ look' = look /\ jobsStopping' = jobsStopping
      /\ scopeExit' = scopeExit /\ jobNews' = jobNews
  BY DEF EndAbandon, jobVars, scopeVars
<1>3. dropping' \in [Job -> JobThread \cup {NoJob}]
      /\ \A i \in Job : i # k => dropping'[i] = dropping[i]
  BY <1>1, <1>2
<1>. QED
  BY <1>1, <1>2, <1>3, Reporting

(***************************************************************************)
(* The steps of the dispatcher.                                             *)
(***************************************************************************)

LEMMA DispatchCancelKeepsJobs ==
  ASSUME JobsInv, NEW j \in Job, DispatchCancel(j)
  PROVE  JobsInv'
<1>1. /\ at[Dispatcher] = At("selected", j) /\ phase[j] = "CANCEL_QUEUED"
      /\ phase' = [phase EXCEPT ![j] = "FINALIZING"] /\ ReleaseBody(Dispatcher, j)
      /\ outcome' = [outcome EXCEPT ![j] = CancelledOutcome(outcome[j])]
      /\ at' = [at EXCEPT ![Dispatcher] = At("publish", j)]
      /\ await' = await /\ awaitReady' = awaitReady /\ subscriber' = subscriber
      /\ stopDelivered' = stopDelivered /\ observed' = observed /\ reported' = reported
      /\ reports' = reports /\ runs' = runs /\ jobNews' = jobNews
      /\ jobList' = jobList /\ look' = look /\ jobsStopping' = jobsStopping
      /\ scopeExit' = scopeExit
  BY DEF DispatchCancel, Go, scopeVars
<1>2. JobsTyped /\ ScopeIsTrue
      /\ \A i \in Job : PhaseIsTrue(i) /\ HandlesAreKept(i) /\ ReportsAreMade(i)
  BY DEF JobsInv
<1>3. /\ phase' \in [Job -> JobPhase] /\ phase'[j] = "FINALIZING"
      /\ \A i \in Job : i # j => phase'[i] = phase[i]
  BY <1>1, <1>2 DEF JobsTyped, JobsTypeOK, JobPhase
<1>4. /\ outcome' \in [Job -> {"none", "value", "failure", "cancelled"}] /\ outcome'[j] # "none"
      /\ \A i \in Job : i # j => outcome'[i] = outcome[i]
  BY <1>1, <1>2 DEF JobsTyped, JobsTypeOK, CancelledOutcome
<1>5. \A t \in JobThread : at[t].job = j => at[t].step \notin PhaseSteps
  BY <1>1, <1>2, NobodyAt
<1>6. at[Dispatcher].step = "selected"
  BY <1>1 DEF At
<1>7. BodyEnded(Dispatcher, j, "publish")
  BY <1>1, <1>3, <1>4, <1>5, <1>6 DEF BodyEnded
<1>. QED
  BY <1>7, BodyGoes, JobNames

LEMMA FailResumeKeepsJobs ==
  ASSUME JobsInv, NEW j \in Job, FailResume(j)
  PROVE  JobsInv'
<1>1. /\ at[Dispatcher] = At("failResume", j)
      /\ await' = await /\ awaitReady' = awaitReady /\ subscriber' = subscriber
      /\ stopDelivered' = stopDelivered /\ observed' = observed /\ reported' = reported
      /\ reports' = reports /\ runs' = runs /\ jobNews' = jobNews
      /\ jobList' = jobList /\ look' = look /\ jobsStopping' = jobsStopping
      /\ scopeExit' = scopeExit
  BY DEF FailResume, scopeVars
<1>2. JobsTyped /\ ScopeIsTrue
      /\ \A i \in Job : PhaseIsTrue(i) /\ HandlesAreKept(i) /\ ReportsAreMade(i)
  BY DEF JobsInv
<1>3. at[Dispatcher].step = "failResume" /\ at[Dispatcher].job = j
  BY <1>1 DEF At
<1>4. CASE phase[j] = "RESUME_QUEUED"
  <2>1. /\ phase' = [phase EXCEPT ![j] = "FINALIZING"] /\ ReleaseBody(Dispatcher, j)
        /\ outcome' = [outcome EXCEPT ![j] = "failure"]
        /\ at' = [at EXCEPT ![Dispatcher] = At("publish", j)]
    BY <1>4 DEF FailResume, Go
  <2>2. /\ phase' \in [Job -> JobPhase] /\ phase'[j] = "FINALIZING"
        /\ \A i \in Job : i # j => phase'[i] = phase[i]
    BY <1>2, <2>1 DEF JobsTyped, JobsTypeOK, JobPhase
  <2>3. /\ outcome' \in [Job -> {"none", "value", "failure", "cancelled"}] /\ outcome'[j] # "none"
        /\ \A i \in Job : i # j => outcome'[i] = outcome[i]
    BY <1>2, <2>1 DEF JobsTyped, JobsTypeOK
  <2>4. \A t \in JobThread : at[t].job = j => at[t].step \notin PhaseSteps
    BY <1>2, <1>4, NobodyAt
  <2>5. BodyEnded(Dispatcher, j, "publish")
    BY <1>1, <1>3, <1>4, <2>1, <2>2, <2>3, <2>4 DEF BodyEnded
  <2>. QED
    BY <2>5, BodyGoes, JobNames
<1>5. CASE phase[j] # "RESUME_QUEUED"
  <2>1. /\ at' = [at EXCEPT ![Dispatcher] = At("read", NoJob)] /\ phase' = phase
        /\ bodyHeld' = bodyHeld /\ outcome' = outcome /\ holder' = holder
        /\ hasConsumer' = hasConsumer /\ dropping' = dropping
    BY <1>5 DEF FailResume, Go
  <2>. QED
    BY <1>1, <1>2, <1>3, <2>1, DispatcherMoves DEF JobsTyped, JobsTypeOK
<1>. QED
  BY <1>4, <1>5

LEMMA SubmitResumeKeepsJobs ==
  ASSUME JobsInv, NEW j \in Job, SubmitResume(j)
  PROVE  JobsInv'
<1>1. /\ at[Dispatcher] = At("selected", j) /\ phase[j] = "RESUME_QUEUED"
      /\ runs' = runs \cup {j} /\ at' = [at EXCEPT ![Dispatcher] = At("read", NoJob)]
      /\ phase' = phase /\ stopDelivered' = stopDelivered /\ look' = look /\ jobNews' = jobNews
      /\ bodyHeld' = bodyHeld /\ outcome' = outcome /\ await' = await /\ awaitReady' = awaitReady
      /\ subscriber' = subscriber /\ holder' = holder
      /\ hasConsumer' = hasConsumer /\ observed' = observed /\ reported' = reported
      /\ reports' = reports /\ dropping' = dropping /\ jobList' = jobList
      /\ jobsStopping' = jobsStopping /\ scopeExit' = scopeExit
  BY DEF SubmitResume, Go, jobVars, handleVars, scopeVars
<1>2. JobsTyped /\ ScopeIsTrue
      /\ \A i \in Job : PhaseIsTrue(i) /\ HandlesAreKept(i) /\ ReportsAreMade(i)
  BY DEF JobsInv
<1>3. at[Dispatcher].step = "selected" /\ at[Dispatcher].job = j
  BY <1>1 DEF At
<1>4. \A t \in JobThread : at[t].job = j => at[t].step \notin PhaseSteps
  BY <1>1, <1>2, NobodyAt
<1>5. phase' = [phase EXCEPT ![j] = phase[j]] /\ phase[j] \in JobPhase
  BY <1>1, <1>2 DEF JobsTyped, JobsTypeOK
<1>6. "read" \in QuietSteps /\ "read" \in JobSteps /\ "read" \notin PhaseSteps
  BY DEF QuietSteps, PhaseSteps, JobSteps
<1>7. PhaseIsTrue(j)'
  <2>1. /\ at'[Dispatcher].step = "read"
        /\ \A t \in JobThread : t # Dispatcher => at'[t] = at[t]
    BY <1>1, <1>2, <1>6, JobNames, Goes
  <2>2. \A t \in JobThread : at'[t].job = j => at'[t].step \notin PhaseSteps
    BY <1>4, <1>6, <2>1
  <2>3. bodyHeld[j]
    BY <1>1, <1>2 DEF PhaseIsTrue
  <2>. QED
    BY <1>1, <2>2, <2>3 DEF PhaseIsTrue, Owns, PhaseSteps
<1>8. /\ runs' \subseteq Job /\ look' \in Nat /\ jobNews' \in BOOLEAN
      /\ \A i \in runs' : i = j \/ i \in runs
      /\ stopDelivered' \in [Job -> BOOLEAN]
  BY <1>1, <1>2 DEF JobsTyped, JobsTypeOK
<1>. QED
  BY <1>1, <1>3, <1>5, <1>6, <1>7, <1>8, JobNames, PhaseChanges

LEMMA ResumeThrowsKeepsJobs ==
  ASSUME JobsInv, NEW j \in Job, ResumeThrows(j)
  PROVE  JobsInv'
<1>1. /\ at[Dispatcher] = At("selected", j)
      /\ at' = [at EXCEPT ![Dispatcher] = At("failResume", j)] /\ runs' = runs
      /\ phase' = phase /\ stopDelivered' = stopDelivered /\ look' = look /\ jobNews' = jobNews
      /\ bodyHeld' = bodyHeld /\ outcome' = outcome /\ await' = await /\ awaitReady' = awaitReady
      /\ subscriber' = subscriber /\ holder' = holder
      /\ hasConsumer' = hasConsumer /\ observed' = observed /\ reported' = reported
      /\ reports' = reports /\ dropping' = dropping /\ jobList' = jobList
      /\ jobsStopping' = jobsStopping /\ scopeExit' = scopeExit
  BY DEF ResumeThrows, Go, jobVars, handleVars, scopeVars
<1>2. at[Dispatcher].step = "selected" /\ at[Dispatcher].job = j
  BY <1>1 DEF At
<1>. QED
  BY <1>1, <1>2, DispatcherMoves DEF JobsInv, JobsTyped, JobsTypeOK

LEMMA DispatchStopKeepsJobs ==
  ASSUME JobsInv, NEW j \in Job, DispatchStop(j)
  PROVE  JobsInv'
<1>1. /\ at[Dispatcher] = At("selected", j)
      /\ at' = [at EXCEPT ![Dispatcher] = At("read", NoJob)] /\ runs' = runs
      /\ phase' = phase /\ look' = look /\ jobNews' = jobNews
      /\ stopDelivered' = [stopDelivered EXCEPT
                             ![j] = stopDelivered[j] \/ phase[j] = "STOP_RUNNING"]
      /\ bodyHeld' = bodyHeld /\ outcome' = outcome /\ await' = await /\ awaitReady' = awaitReady
      /\ subscriber' = subscriber /\ holder' = holder
      /\ hasConsumer' = hasConsumer /\ observed' = observed /\ reported' = reported
      /\ reports' = reports /\ dropping' = dropping /\ jobList' = jobList
      /\ jobsStopping' = jobsStopping /\ scopeExit' = scopeExit
  BY DEF DispatchStop, Go, handleVars, scopeVars
<1>2. at[Dispatcher].step = "selected" /\ at[Dispatcher].job = j
  BY <1>1 DEF At
<1>3. stopDelivered' \in [Job -> BOOLEAN]
  BY <1>1 DEF JobsInv, JobsTyped, JobsTypeOK
<1>. QED
  BY <1>1, <1>2, <1>3, DispatcherMoves DEF JobsInv, JobsTyped, JobsTypeOK

(* What a turn of the scan finds. *)
LEMMA FoundIs ==
  ASSUME JobsTyped, Looking
  PROVE  /\ Look \in Job /\ look \in 1 .. Len(jobList) /\ at[Dispatcher].step = "scan"
         /\ Found \in JobPhase
         /\ \/ Found = phase[Look]
            \/ /\ jobsStopping /\ phase[Look] \in CancellableJob
               /\ Found = CancelTarget(phase[Look])
<1>1. look \in 1 .. Len(jobList) /\ at[Dispatcher].step = "scan" /\ Look \in Job
  BY DEF Looking, Look, ScanLocked, Stands, JobsTyped, JobsTypeOK
<1>2. Found = IF (jobsStopping /\ phase[Look] \in CancellableJob)
              THEN CancelTarget(phase[Look]) ELSE phase[Look]
  BY <1>1 DEF Found, Cancelled
<1>3. phase[Look] \in JobPhase /\ CancelTarget(phase[Look]) \in JobPhase
  BY <1>1 DEF JobsTyped, JobsTypeOK, CancelTarget, JobPhase
<1>. QED
  BY <1>1, <1>2, <1>3

LEMMA SelectCancelKeepsJobs ==
  ASSUME JobsInv, SelectCancel
  PROVE  JobsInv'
<1>0. Look \in Job /\ Found \in JobPhase
  BY FoundIs DEF JobsInv, SelectCancel
<1> PICK j \in Job, p \in JobPhase : j = Look /\ p = Found
  BY <1>0
<1>1. /\ Looking /\ MustCancel(j) /\ phase' = [phase EXCEPT ![j] = p]
      /\ look' = 1 /\ at' = [at EXCEPT ![Dispatcher] = At("selected", j)] /\ runs' = runs
      /\ stopDelivered' = stopDelivered /\ jobNews' = (jobNews \/ phase[Look] # Found)
      /\ bodyHeld' = bodyHeld /\ outcome' = outcome /\ await' = await /\ awaitReady' = awaitReady
      /\ subscriber' = subscriber /\ holder' = holder
      /\ hasConsumer' = hasConsumer /\ observed' = observed /\ reported' = reported
      /\ reports' = reports /\ dropping' = dropping /\ jobList' = jobList
      /\ jobsStopping' = jobsStopping /\ scopeExit' = scopeExit
  BY DEF SelectCancel, Select, Unlock, Go, handleVars
<1>2. JobsTyped /\ ScopeIsTrue
      /\ \A i \in Job : PhaseIsTrue(i) /\ HandlesAreKept(i) /\ ReportsAreMade(i)
  BY DEF JobsInv
<1>3. /\ j \in Job /\ at[Dispatcher].step = "scan" /\ p \in JobPhase
      /\ \/ p = phase[j]
         \/ jobsStopping /\ phase[j] \in CancellableJob /\ p = CancelTarget(phase[j])
  BY <1>1, <1>2, FoundIs
<1>4. p \in {"CANCEL_QUEUED", "STOP_RUNNING"}
  BY <1>1 DEF MustCancel
<1>5. p = phase[j] \/ (phase[j] \notin {"NONE", "READY"} /\ p \notin {"NONE", "READY"})
  BY <1>3, <1>4 DEF CancellableJob
<1>6. "selected" \in QuietSteps /\ "selected" \in JobSteps /\ "selected" \notin PhaseSteps
  BY DEF QuietSteps, PhaseSteps, JobSteps
<1>7. PhaseIsTrue(j)'
  <2>1. /\ at'[Dispatcher].step = "selected"
        /\ \A t \in JobThread : t # Dispatcher => at'[t] = at[t]
    BY <1>1, <1>2, <1>3, <1>6, JobNames, Goes
  <2>2. \A t \in JobThread : at'[t] = at[t] \/ at'[t].step \notin PhaseSteps
    BY <1>6, <2>1
  <2>3. phase'[j] = p
    BY <1>1, <1>2, <1>3 DEF JobsTyped, JobsTypeOK
  <2>4. CASE p = phase[j]
    BY <1>1, <1>2, <1>3, <2>2, <2>3, <2>4, PhaseStays
  <2>5. CASE jobsStopping /\ phase[j] = "RUNNING" /\ p = "STOP_RUNNING"
    BY <1>1, <1>2, <1>3, <2>2, <2>3, <2>5 DEF PhaseIsTrue, Owns, PhaseSteps
  <2>6. CASE /\ jobsStopping /\ phase[j] \in {"QUEUED", "WAITING", "RESUME_QUEUED"}
             /\ p = "CANCEL_QUEUED"
    <3>1. \A t \in JobThread : at[t].job = j => at[t].step \notin PhaseSteps
      BY <1>2, <1>3, <2>6 DEF PhaseIsTrue, Owns, PhaseSteps, ScopeIsTrue
    <3>2. \A t \in JobThread : at'[t].job = j => at'[t].step \notin PhaseSteps
      BY <2>2, <3>1
    <3>3. bodyHeld[j]
      BY <1>2, <1>3, <2>6 DEF PhaseIsTrue
    <3>. QED
      BY <1>1, <2>3, <2>6, <3>2, <3>3 DEF PhaseIsTrue, Owns, PhaseSteps
  <2>. QED
    BY <1>3, <2>4, <2>5, <2>6 DEF CancellableJob, CancelTarget
<1>8. jobNews' \in BOOLEAN /\ look' \in Nat /\ runs' \subseteq Job /\ stopDelivered' \in [Job -> BOOLEAN]
  BY <1>1, <1>2 DEF JobsTyped, JobsTypeOK
<1>. QED
  BY <1>1, <1>3, <1>5, <1>6, <1>7, <1>8, JobNames, PhaseChanges

LEMMA SelectResumeKeepsJobs ==
  ASSUME JobsInv, SelectResume
  PROVE  JobsInv'
<1>0. Look \in Job
  BY FoundIs DEF JobsInv, SelectResume
<1> PICK j \in Job : j = Look
  BY <1>0
<1>1. /\ Looking /\ MayResume(j) /\ phase' = [phase EXCEPT ![j] = "RESUME_QUEUED"]
      /\ look' = 1 /\ at' = [at EXCEPT ![Dispatcher] = At("selected", j)] /\ runs' = runs
      /\ stopDelivered' = stopDelivered /\ jobNews' = jobNews
      /\ bodyHeld' = bodyHeld /\ outcome' = outcome /\ await' = await /\ awaitReady' = awaitReady
      /\ subscriber' = subscriber /\ holder' = holder
      /\ hasConsumer' = hasConsumer /\ observed' = observed /\ reported' = reported
      /\ reports' = reports /\ dropping' = dropping /\ jobList' = jobList
      /\ jobsStopping' = jobsStopping /\ scopeExit' = scopeExit
  BY DEF SelectResume, Select, Unlock, Go, handleVars
<1>2. JobsTyped /\ ScopeIsTrue
      /\ \A i \in Job : PhaseIsTrue(i) /\ HandlesAreKept(i) /\ ReportsAreMade(i)
  BY DEF JobsInv
<1>3. /\ j \in Job /\ at[Dispatcher].step = "scan" /\ phase[j] = "WAITING"
  <2>1. Found = "WAITING"
    BY <1>1 DEF MayResume
  <2>. QED
    BY <1>1, <1>2, <2>1, FoundIs DEF CancelTarget
<1>4. /\ "selected" \in QuietSteps /\ "selected" \in JobSteps /\ "selected" \notin PhaseSteps
      /\ "RESUME_QUEUED" \in JobPhase
  BY DEF QuietSteps, PhaseSteps, JobSteps, JobPhase
<1>5. PhaseIsTrue(j)'
  <2>1. /\ at'[Dispatcher].step = "selected"
        /\ \A t \in JobThread : t # Dispatcher => at'[t] = at[t]
    BY <1>1, <1>2, <1>3, <1>4, JobNames, Goes
  <2>2. \A t \in JobThread : at'[t].job = j => at'[t].step \notin PhaseSteps
    BY <1>2, <1>3, <1>4, <2>1, NobodyAt
  <2>3. bodyHeld[j] /\ phase'[j] = "RESUME_QUEUED"
    BY <1>1, <1>2, <1>3 DEF PhaseIsTrue, JobsTyped, JobsTypeOK
  <2>. QED
    BY <1>1, <2>2, <2>3 DEF PhaseIsTrue, Owns, PhaseSteps
<1>6. jobNews' \in BOOLEAN /\ look' \in Nat /\ runs' \subseteq Job /\ stopDelivered' \in [Job -> BOOLEAN]
  BY <1>1, <1>2 DEF JobsTyped, JobsTypeOK
<1>. QED
  BY <1>1, <1>3, <1>4, <1>5, <1>6, JobNames, PhaseChanges

(***************************************************************************)
(* Steps that move a thread and touch no job.                               *)
(***************************************************************************)

JobsUntouched ==
  /\ phase' = phase /\ bodyHeld' = bodyHeld /\ outcome' = outcome /\ await' = await
  /\ awaitReady' = awaitReady /\ subscriber' = subscriber /\ stopDelivered' = stopDelivered
  /\ holder' = holder /\ hasConsumer' = hasConsumer /\ observed' = observed
  /\ reported' = reported /\ reports' = reports /\ dropping' = dropping /\ runs' = runs

LEMMA PlacesChange ==
  ASSUME JobsInv, JobsUntouched, ScopeIsTrue',
         at' \in [JobThread -> [step : JobSteps, job : Job \cup {NoJob}]],
         \A t \in JobThread : at'[t] = at[t] \/ (/\ at'[t].step \notin PhaseSteps
                                              /\ at[t].step \notin {"notify", "report"}),
         jobList' \in Seq(Job), look' \in Nat, jobNews' \in BOOLEAN,
         jobsStopping' \in BOOLEAN, scopeExit' \in BOOLEAN
  PROVE  JobsInv'
<1> USE DEF JobsUntouched
<1>1. JobsTyped /\ ScopeIsTrue
      /\ \A i \in Job : PhaseIsTrue(i) /\ HandlesAreKept(i) /\ ReportsAreMade(i)
  BY DEF JobsInv
<1>2. JobsTyped'
  BY <1>1 DEF JobsTyped, JobsTypeOK
<1>3. ASSUME NEW i \in Job PROVE PhaseIsTrue(i)'
  BY <1>1, PhaseStays
<1>4. ASSUME NEW i \in Job PROVE HandlesAreKept(i)'
  <2>1. at'[Player] = at[Player] \/ at'[Player].step # "submit"
    BY JobNames DEF PhaseSteps
  <2>. QED
    BY <1>1, <2>1, HandlesStay DEF HandlesAreKept
<1>5. ASSUME NEW i \in Job PROVE ReportsAreMade(i)'
  <2>1. \A t \in JobThread : at[t].job = i /\ at[t].step \in {"notify", "report"} => at'[t] = at[t]
    OBVIOUS
  <2>. QED
    BY <1>1, <2>1, ReportsStay
<1>. QED
  BY <1>2, <1>3, <1>4, <1>5 DEF JobsInv

(* One thread goes, the scope stays as it is told. *)
LEMMA ThreadMoves ==
  ASSUME JobsInv, JobsUntouched, ScopeIsTrue', NEW th \in JobThread,
         NEW s \in JobSteps \ PhaseSteps, at' = [at EXCEPT ![th] = At(s, NoJob)],
         at[th].step \notin {"notify", "report"},
         jobList' \in Seq(Job), look' \in Nat, jobNews' \in BOOLEAN,
         jobsStopping' \in BOOLEAN, scopeExit' \in BOOLEAN
  PROVE  JobsInv'
<1>1. /\ at' \in [JobThread -> [step : JobSteps, job : Job \cup {NoJob}]]
      /\ at'[th].step = s /\ at'[th].job = NoJob
      /\ \A t \in JobThread : t # th => at'[t] = at[t]
  BY Goes DEF JobsInv
<1>2. \A t \in JobThread : at'[t] = at[t] \/ (/\ at'[t].step \notin PhaseSteps
                                            /\ at[t].step \notin {"notify", "report"})
  BY <1>1
<1>. QED
  BY <1>1, <1>2, PlacesChange

LEMMA RemoveAtIs ==
  ASSUME NEW S, NEW q \in Seq(S), NEW k \in 1 .. Len(q)
  PROVE  /\ RemoveAt(q, k) \in Seq(S)
         /\ \A i \in DOMAIN q : i # k => \E m \in DOMAIN RemoveAt(q, k) : RemoveAt(q, k)[m] = q[i]
<1> DEFINE a == SubSeq(q, 1, k - 1)
           b == SubSeq(q, k + 1, Len(q))
<1>1. /\ a \in Seq(S) /\ Len(a) = k - 1 /\ \A i \in 1 .. k - 1 : a[i] = q[i]
  BY SubSeqProperties
<1>2. /\ b \in Seq(S) /\ Len(b) = Len(q) - k /\ \A i \in 1 .. Len(q) - k : b[i] = q[i + k]
  BY SubSeqProperties
<1>3. RemoveAt(q, k) = a \o b
  BY DEF RemoveAt
<1> HIDE DEF a, b
<1>4. /\ a \o b \in Seq(S) /\ Len(a \o b) = Len(q) - 1
      /\ \A i \in 1 .. k - 1 : (a \o b)[i] = a[i]
      /\ \A i \in k .. Len(q) - 1 : (a \o b)[i] = b[i - (k - 1)]
  <2>1. /\ a \o b \in Seq(S) /\ Len(a \o b) = Len(a) + Len(b)
        /\ \A i \in 1 .. Len(a) : (a \o b)[i] = a[i]
        /\ \A i \in Len(a) + 1 .. Len(a) + Len(b) : (a \o b)[i] = b[i - Len(a)]
    <3>1. a \in Seq(S) /\ b \in Seq(S)
      BY <1>1, <1>2
    <3>. QED
      BY <3>1, ConcatProperties
  <2>2. Len(a) + 1 = k /\ Len(a) + Len(b) = Len(q) - 1
    BY <1>1, <1>2
  <2>. QED
    BY <1>1, <2>1, <2>2
<1>5. ASSUME NEW i \in DOMAIN q, i # k
      PROVE  \E m \in DOMAIN (a \o b) : (a \o b)[m] = q[i]
  <2>1. i \in 1 .. Len(q) /\ DOMAIN (a \o b) = 1 .. Len(q) - 1
    BY <1>4
  <2>2. CASE i < k
    BY <1>1, <1>4, <2>1, <2>2
  <2>3. CASE i > k
    <3>1. i - 1 \in k .. Len(q) - 1 /\ i - k \in 1 .. Len(q) - k /\ (i - 1) - (k - 1) = i - k
      BY <2>1, <2>3
    <3>2. (a \o b)[i - 1] = b[i - k] /\ b[i - k] = q[i]
      BY <1>2, <1>4, <2>1, <3>1
    <3>. QED
      BY <2>1, <3>1, <3>2
  <2>. QED
    BY <1>5, <2>1, <2>2, <2>3
<1>. QED
  BY <1>3, <1>4, <1>5

(* Who is ready leaves the scope. *)
LEMMA RetireKeepsJobs ==
  ASSUME JobsInv, RetireJob
  PROVE  JobsInv'
<1>1. /\ Looking /\ Found = "READY" /\ jobList' = RemoveAt(jobList, look) /\ look' = 1
      /\ at' = [at EXCEPT ![Dispatcher] = At("read", NoJob)]
      /\ JobsUntouched /\ jobsStopping' = jobsStopping /\ scopeExit' = scopeExit
      /\ jobNews' = jobNews
  BY DEF RetireJob, Unlock, Go, jobVars, handleVars, JobsUntouched
<1>2. JobsTyped /\ ScopeIsTrue
      /\ \A i \in Job : PhaseIsTrue(i) /\ HandlesAreKept(i) /\ ReportsAreMade(i)
  BY DEF JobsInv
<1>3. /\ Look \in Job /\ phase[Look] = "READY" /\ look \in 1 .. Len(jobList)
      /\ at[Dispatcher].step = "scan"
  BY <1>1, <1>2, FoundIs DEF CancelTarget
<1>4. /\ jobList' \in Seq(Job)
      /\ \A i \in DOMAIN jobList : i # look => \E m \in DOMAIN jobList' : jobList'[m] = jobList[i]
  <2>1. jobList \in Seq(Job)
    BY <1>2 DEF JobsTyped, JobsTypeOK
  <2>. QED
    BY <1>1, <1>3, <2>1, RemoveAtIs
<1>5. "read" \in JobSteps \ PhaseSteps /\ NoJob \in Job \cup {NoJob} /\ "read" \in JobSteps
  BY DEF JobSteps, PhaseSteps
<1>6. /\ at'[Dispatcher].step = "read" /\ at'[Player] = at[Player]
  BY <1>1, <1>2, <1>5, JobNames, Goes
<1>7. ScopeIsTrue'
  <2>1. ASSUME NEW j \in Job, phase'[j] \notin {"NONE", "READY"}
        PROVE  \E k \in DOMAIN jobList' : jobList'[k] = j
    <3>1. PICK k \in DOMAIN jobList : jobList[k] = j
      BY <1>1, <1>2, <2>1 DEF ScopeIsTrue, JobsUntouched
    <3>2. k # look
      BY <1>1, <1>3, <2>1, <3>1 DEF Look, JobsUntouched
    <3>. QED
      BY <1>4, <3>1, <3>2
  <2>. QED
    BY <1>1, <1>2, <1>6, <2>1 DEF ScopeIsTrue, Stands
<1>8. look' \in Nat /\ jobNews' \in BOOLEAN /\ jobsStopping' \in BOOLEAN /\ scopeExit' \in BOOLEAN
  BY <1>1, <1>2 DEF JobsTyped, JobsTypeOK
<1>. QED
  BY <1>1, <1>3, <1>4, <1>5, <1>7, <1>8, JobNames, ThreadMoves

LEMMA CloseKeepsJobs ==
  ASSUME JobsInv, CloseAdmission
  PROVE  JobsInv'
<1>1. /\ jobsStopping' = TRUE /\ jobNews' = TRUE /\ at[Player].step = "idle"
      /\ at' = [at EXCEPT ![Player] = At("cancelAll", NoJob)]
      /\ JobsUntouched /\ jobList' = jobList /\ look' = look /\ scopeExit' = scopeExit
  BY DEF CloseAdmission, Go, Stands, jobVars, handleVars, JobsUntouched
<1>2. JobsTyped /\ ScopeIsTrue
      /\ \A i \in Job : PhaseIsTrue(i) /\ HandlesAreKept(i) /\ ReportsAreMade(i)
  BY DEF JobsInv
<1>3. "cancelAll" \in JobSteps \ PhaseSteps /\ NoJob \in Job \cup {NoJob}
      /\ "cancelAll" \in JobSteps
  BY DEF JobSteps, PhaseSteps
<1>4. at'[Player].step = "cancelAll" /\ at'[Dispatcher] = at[Dispatcher]
  BY <1>1, <1>2, <1>3, JobNames, Goes
<1>5. ScopeIsTrue'
  BY <1>1, <1>2, <1>4 DEF ScopeIsTrue, Stands, JobsUntouched
<1>6. jobList' \in Seq(Job) /\ look' \in Nat /\ scopeExit' \in BOOLEAN
  BY <1>1, <1>2 DEF JobsTyped, JobsTypeOK
<1>. QED
  BY <1>1, <1>3, <1>5, <1>6, JobNames, ThreadMoves

LEMMA PlayerMovesKeepJobs ==
  ASSUME JobsInv, Join \/ JobsJoined
  PROVE  JobsInv'
<1>1. JobsTyped /\ ScopeIsTrue
      /\ \A i \in Job : PhaseIsTrue(i) /\ HandlesAreKept(i) /\ ReportsAreMade(i)
  BY DEF JobsInv
<1>2. JobsUntouched /\ jobList' = jobList /\ look' = look /\ jobsStopping' = jobsStopping
      /\ at[Player].step \in {"exit", "join"}
  BY DEF Join, JobsJoined, Stands, jobVars, handleVars, scopeVars, JobsUntouched
<1>3. /\ scopeExit' = scopeExit \/ scopeExit' = TRUE
      /\ jobNews' = jobNews \/ jobNews' = TRUE
  BY DEF Join, JobsJoined, scopeVars
<1>4. PICK s \in {"join", "idle"} : at' = [at EXCEPT ![Player] = At(s, NoJob)]
  BY DEF Join, JobsJoined, Go, JobIdle, At
<1>5. s \in JobSteps \ PhaseSteps /\ s \in JobSteps /\ NoJob \in Job \cup {NoJob}
  BY DEF JobSteps, PhaseSteps
<1>6. at'[Player].step = s /\ at'[Dispatcher] = at[Dispatcher]
  BY <1>1, <1>4, <1>5, JobNames, Goes
<1>7. jobsStopping
  BY <1>1, <1>2 DEF ScopeIsTrue
<1>8. ScopeIsTrue'
  BY <1>1, <1>2, <1>3, <1>6, <1>7 DEF ScopeIsTrue, Stands, JobsUntouched
<1>9. /\ jobList' \in Seq(Job) /\ look' \in Nat /\ scopeExit' \in BOOLEAN
      /\ jobNews' \in BOOLEAN /\ jobsStopping' \in BOOLEAN
  BY <1>1, <1>2, <1>3 DEF JobsTyped, JobsTypeOK
<1>. QED
  BY <1>2, <1>4, <1>5, <1>8, <1>9, JobNames, ThreadMoves

LEMMA OtherMovesKeepJobs ==
  ASSUME JobsInv, ReadVersion \/ ScanEnds \/ \E w \in JobWorker : Wake(w)
  PROVE  JobsInv'
<1>1. JobsTyped /\ ScopeIsTrue
      /\ \A i \in Job : PhaseIsTrue(i) /\ HandlesAreKept(i) /\ ReportsAreMade(i)
  BY DEF JobsInv
<1>2. JobsUntouched /\ jobList' = jobList /\ scopeExit' = scopeExit
      /\ jobsStopping' = jobsStopping
  BY DEF ReadVersion, ScanEnds, Wake, jobVars, handleVars, scopeVars, JobsUntouched
<1>3. PICK th \in JobThread, s \in {"scan", "wait", "exited", "idle"} :
        /\ at' = [at EXCEPT ![th] = At(s, NoJob)] /\ at[th].step \notin {"notify", "report"}
        /\ th # Player /\ (s = "exited" => jobList = <<>> /\ scopeExit)
  <2>1. CASE ReadVersion
    BY <2>1, JobNames DEF ReadVersion, Go, Stands
  <2>2. CASE ScanEnds
    BY <2>2, JobNames DEF ScanEnds, Unlock, Go, ScanLocked, Stands
  <2>3. CASE \E w \in JobWorker : Wake(w)
    BY <2>3, JobNames DEF Wake, JobIdle, At, Stands
  <2>. QED
    BY <2>1, <2>2, <2>3
<1>4. s \in JobSteps \ PhaseSteps /\ s \in JobSteps /\ NoJob \in Job \cup {NoJob}
  BY DEF JobSteps, PhaseSteps
<1>5. /\ at'[Player] = at[Player]
      /\ at'[Dispatcher] = at[Dispatcher] \/ at'[Dispatcher].step = s
  <2>1. at'[th].step = s /\ \A t \in JobThread : t # th => at'[t] = at[t]
    BY <1>1, <1>3, <1>4, Goes
  <2>. QED
    BY <1>3, <2>1, JobNames
<1>6. ScopeIsTrue'
  <2>1. jobList = <<>> => \A j \in Job : phase[j] \in {"NONE", "READY"}
    BY <1>1 DEF ScopeIsTrue
  <2>. QED
    BY <1>1, <1>2, <1>3, <1>5, <2>1 DEF ScopeIsTrue, Stands, JobsUntouched
<1>7. jobNews' \in BOOLEAN /\ look' \in Nat
  <2>1. jobNews \in BOOLEAN /\ look \in Nat
    BY <1>1 DEF JobsTyped, JobsTypeOK
  <2>2. (jobNews' \in BOOLEAN \/ jobNews' = jobNews) /\ (look' = look \/ look' = 1)
    BY DEF ReadVersion, ScanEnds, Wake, Unlock, scopeVars
  <2>. QED
    BY <2>1, <2>2
<1>8. jobList' \in Seq(Job) /\ scopeExit' \in BOOLEAN /\ jobsStopping' \in BOOLEAN
  BY <1>1, <1>2 DEF JobsTyped, JobsTypeOK
<1>. QED
  BY <1>2, <1>3, <1>4, <1>6, <1>7, <1>8, ThreadMoves

LEMMA LookNextKeepsJobs ==
  ASSUME JobsInv, LookNext
  PROVE  JobsInv'
<1>1. JobsTyped /\ ScopeIsTrue
      /\ \A i \in Job : PhaseIsTrue(i) /\ HandlesAreKept(i) /\ ReportsAreMade(i)
  BY DEF JobsInv
<1>2. /\ JobsUntouched /\ at' = at /\ jobList' = jobList /\ jobsStopping' = jobsStopping
      /\ scopeExit' = scopeExit /\ jobNews' = jobNews /\ look' = look + 1
  BY DEF LookNext, jobVars, handleVars, JobsUntouched
<1>3. ScopeIsTrue'
  BY <1>1, <1>2, ScopeStays DEF JobsUntouched
<1>4. /\ jobList' \in Seq(Job) /\ look' \in Nat /\ jobNews' \in BOOLEAN
      /\ jobsStopping' \in BOOLEAN /\ scopeExit' \in BOOLEAN
      /\ at' \in [JobThread -> [step : JobSteps, job : Job \cup {NoJob}]]
  BY <1>1, <1>2 DEF JobsTyped, JobsTypeOK
<1>. QED
  BY <1>2, <1>3, <1>4, PlacesChange

(***************************************************************************)
(* The steps of the player, who has the handles.                            *)
(***************************************************************************)

LEMMA TakeKeepsJobs ==
  ASSUME JobsInv, NEW k \in Job, TryTake(k)
  PROVE  JobsInv'
<1>1. JobsTyped /\ ScopeIsTrue
      /\ \A i \in Job : PhaseIsTrue(i) /\ HandlesAreKept(i) /\ ReportsAreMade(i)
  BY DEF JobsInv
<1>2. /\ holder[k] = Player /\ observed' = [observed EXCEPT ![k] = TRUE]
      /\ holder' = [holder EXCEPT ![k] = "gone"]
      /\ phase' = phase /\ bodyHeld' = bodyHeld /\ outcome' = outcome /\ await' = await
      /\ awaitReady' = awaitReady /\ subscriber' = subscriber /\ stopDelivered' = stopDelivered
      /\ hasConsumer' = hasConsumer /\ reported' = reported /\ reports' = reports
      /\ dropping' = dropping /\ runs' = runs /\ at' = at /\ jobList' = jobList /\ look' = look
      /\ jobsStopping' = jobsStopping /\ scopeExit' = scopeExit /\ jobNews' = jobNews
  BY DEF TryTake, jobVars, scopeVars
<1>3. /\ observed' \in [Job -> BOOLEAN] /\ holder' \in [Job -> Job \cup {Player, "gone"}]
      /\ holder'[k] = "gone" /\ observed'[k]
      /\ \A i \in Job : i # k => holder'[i] = holder[i] /\ observed'[i] = observed[i]
  BY <1>1, <1>2 DEF JobsTyped, JobsTypeOK
<1>4. hasConsumer[k] /\ ~ Unsubmitted(k)
  BY <1>1, <1>2, JobNames DEF HandlesAreKept, Unmade
<1>5. JobsTyped'
  BY <1>1, <1>2, <1>3 DEF JobsTyped, JobsTypeOK
<1>6. ScopeIsTrue'
  BY <1>1, <1>2, ScopeStays
<1>7. ASSUME NEW i \in Job PROVE PhaseIsTrue(i)' /\ ReportsAreMade(i)'
  <2>1. PhaseIsTrue(i)'
    BY <1>1, <1>2, PhaseStays
  <2>2. ReportsAreMade(i)'
    BY <1>1, <1>2, ReportsStay
  <2>. QED
    BY <2>1, <2>2
<1>8. ASSUME NEW i \in Job PROVE HandlesAreKept(i)'
  <2>1. Unsubmitted(i)' <=> Unsubmitted(i)
    BY <1>2 DEF Unsubmitted
  <2>2. Unsubmitted(i)' => Unmade(i)'
    BY <1>1, <1>2, <1>3, <1>4, <2>1 DEF HandlesAreKept, Unmade
  <2>3. bodyHeld'[i] /\ await'[i] # NoJob => holder'[await'[i]] = i
    <3>1. await[i] \in Job \cup {NoJob}
      BY <1>1 DEF JobsTyped, JobsTypeOK
    <3>. QED
      BY <1>1, <1>2, <1>3, <3>1, JobNames DEF HandlesAreKept
  <2>4. /\ holder'[i] # "gone" => hasConsumer'[i]
        /\ observed'[i] => hasConsumer'[i] /\ holder'[i] = "gone"
    BY <1>1, <1>2, <1>3, <1>4 DEF HandlesAreKept
  <2>. QED
    BY <2>2, <2>3, <2>4 DEF HandlesAreKept
<1>. QED
  BY <1>5, <1>6, <1>7, <1>8 DEF JobsInv

LEMMA DropKeepsJobs ==
  ASSUME JobsInv, NEW k \in Job, DropHandle(k)
  PROVE  JobsInv'
<1>1. JobsTyped /\ ScopeIsTrue
      /\ \A i \in Job : PhaseIsTrue(i) /\ HandlesAreKept(i) /\ ReportsAreMade(i)
  BY DEF JobsInv
<1>2. /\ holder[k] = Player /\ AbandonAll(Player, {k}) /\ observed' = observed
      /\ phase' = phase /\ bodyHeld' = bodyHeld /\ outcome' = outcome /\ await' = await
      /\ awaitReady' = awaitReady /\ subscriber' = subscriber /\ stopDelivered' = stopDelivered
      /\ reported' = reported /\ reports' = reports
      /\ runs' = runs /\ at' = at /\ jobList' = jobList /\ look' = look
      /\ jobsStopping' = jobsStopping /\ scopeExit' = scopeExit /\ jobNews' = jobNews
  BY DEF DropHandle, jobVars, scopeVars
<1>3. /\ holder' \in [Job -> Job \cup {Player, "gone"}]
      /\ hasConsumer' \in [Job -> BOOLEAN] /\ dropping' \in [Job -> JobThread \cup {NoJob}]
      /\ holder'[k] = "gone" /\ ~ hasConsumer'[k] /\ dropping'[k] = Player
      /\ \A i \in Job : i # k => /\ holder'[i] = holder[i] /\ hasConsumer'[i] = hasConsumer[i]
                             /\ dropping'[i] = dropping[i]
  <2>1. {k} \in SUBSET Job
    OBVIOUS
  <2>. QED
    BY <1>1, <1>2, <2>1, JobNames, Abandons
<1>4. ~ Unsubmitted(k) /\ ~ observed[k]
  BY <1>1, <1>2, JobNames DEF HandlesAreKept, Unmade
<1>5. JobsTyped'
  BY <1>1, <1>2, <1>3 DEF JobsTyped, JobsTypeOK
<1>6. ScopeIsTrue'
  BY <1>1, <1>2, ScopeStays
<1>7. ASSUME NEW i \in Job PROVE PhaseIsTrue(i)' /\ ReportsAreMade(i)'
  <2>1. PhaseIsTrue(i)'
    BY <1>1, <1>2, PhaseStays
  <2>2. \/ hasConsumer'[i] = hasConsumer[i] /\ dropping'[i] = dropping[i]
        \/ dropping'[i] # NoJob
    BY <1>3, JobNames
  <2>3. ReportsAreMade(i)'
    BY <1>1, <1>2, <2>2, ReportsStay
  <2>. QED
    BY <2>1, <2>3
<1>8. ASSUME NEW i \in Job PROVE HandlesAreKept(i)'
  <2>1. Unsubmitted(i)' <=> Unsubmitted(i)
    BY <1>2 DEF Unsubmitted
  <2>2. Unsubmitted(i)' => Unmade(i)'
    BY <1>1, <1>2, <1>3, <1>4, <2>1 DEF HandlesAreKept, Unmade
  <2>3. bodyHeld'[i] /\ await'[i] # NoJob => holder'[await'[i]] = i
    <3>1. await[i] \in Job \cup {NoJob}
      BY <1>1 DEF JobsTyped, JobsTypeOK
    <3>. QED
      BY <1>1, <1>2, <1>3, <3>1, JobNames DEF HandlesAreKept
  <2>4. /\ holder'[i] # "gone" => hasConsumer'[i]
        /\ observed'[i] => hasConsumer'[i] /\ holder'[i] = "gone"
    BY <1>1, <1>2, <1>3, <1>4 DEF HandlesAreKept
  <2>. QED
    BY <2>2, <2>3, <2>4 DEF HandlesAreKept
<1>. QED
  BY <1>5, <1>6, <1>7, <1>8 DEF JobsInv

(* The phases a request to cancel leaves. *)
LEMMA CancelKeepsJobs ==
  ASSUME JobsInv, NEW S \in SUBSET Job, phase' = Cancelled(S),
         at[Player].step \in {"idle", "cancelAll"},
         at' = at \/ (at' = [at EXCEPT ![Player] = At("exit", NoJob)] /\ jobsStopping),
         bodyHeld' = bodyHeld, outcome' = outcome, await' = await, awaitReady' = awaitReady,
         subscriber' = subscriber, stopDelivered' = stopDelivered, holder' = holder,
         hasConsumer' = hasConsumer, observed' = observed, reported' = reported,
         reports' = reports, dropping' = dropping, runs' = runs, jobList' = jobList,
         look' = look, jobsStopping' = jobsStopping, scopeExit' = scopeExit, jobNews' = TRUE
  PROVE  JobsInv'
<1>1. JobsTyped /\ ScopeIsTrue
      /\ \A i \in Job : PhaseIsTrue(i) /\ HandlesAreKept(i) /\ ReportsAreMade(i)
  BY DEF JobsInv
<1>2. /\ at' \in [JobThread -> [step : JobSteps, job : Job \cup {NoJob}]]
      /\ \A t \in JobThread : t # Player => at'[t] = at[t]
      /\ at'[Player] = at[Player] \/ (at'[Player].step = "exit" /\ jobsStopping)
  <2>1. CASE at' = at
    BY <1>1, <2>1 DEF JobsTyped
  <2>2. CASE at' = [at EXCEPT ![Player] = At("exit", NoJob)] /\ jobsStopping
    <3>1. "exit" \in JobSteps /\ NoJob \in Job \cup {NoJob}
      BY DEF JobSteps
    <3>. QED
      BY <1>1, <2>2, <3>1, JobNames, Goes
  <2>. QED
    BY <2>1, <2>2
<1>3. phase' \in [Job -> JobPhase]
      /\ \A i \in Job :
           \/ phase'[i] = phase[i]
           \/ phase[i] = "RUNNING" /\ phase'[i] = "STOP_RUNNING"
           \/ /\ phase[i] \in {"QUEUED", "WAITING", "RESUME_QUEUED"}
              /\ phase'[i] = "CANCEL_QUEUED"
  <2>1. \A i \in Job : phase[i] \in JobPhase /\ CancelTarget(phase[i]) \in JobPhase
    BY <1>1 DEF JobsTyped, JobsTypeOK, CancelTarget, JobPhase
  <2>2. phase' = [i \in Job |-> IF i \in S /\ phase[i] \in CancellableJob
                                THEN CancelTarget(phase[i]) ELSE phase[i]]
    BY DEF Cancelled
  <2>3. phase' \in [Job -> JobPhase]
    BY <2>1, <2>2
  <2>4. \A i \in Job : phase'[i] = phase[i] \/ (/\ phase[i] \in CancellableJob
                                              /\ phase'[i] = CancelTarget(phase[i]))
    BY <2>2
  <2>. QED
    BY <2>3, <2>4 DEF CancellableJob, CancelTarget
<1>4. JobsTyped'
  BY <1>1, <1>2, <1>3 DEF JobsTyped, JobsTypeOK
<1>5. ScopeIsTrue'
  <2>1. \A i \in Job : phase[i] \in {"NONE", "READY"} <=> phase'[i] \in {"NONE", "READY"}
    BY <1>3
  <2>2. at'[Dispatcher] = at[Dispatcher]
    BY <1>2, JobNames
  <2>. QED
    BY <1>1, <1>2, <2>1, <2>2 DEF ScopeIsTrue, Stands
<1>6. ASSUME NEW i \in Job PROVE PhaseIsTrue(i)'
  <2>1. \A t \in JobThread : at'[t] = at[t] \/ at'[t].step \notin PhaseSteps
    BY <1>2 DEF PhaseSteps
  <2>2. CASE phase'[i] = phase[i]
    BY <1>1, <2>1, <2>2, PhaseStays
  <2>3. CASE phase[i] = "RUNNING" /\ phase'[i] = "STOP_RUNNING"
    BY <1>1, <2>1, <2>3 DEF PhaseIsTrue, Owns, PhaseSteps
  <2>4. CASE phase[i] \in {"QUEUED", "WAITING", "RESUME_QUEUED"} /\ phase'[i] = "CANCEL_QUEUED"
    <3>1. \A t \in JobThread : at[t].job = i => at[t].step \notin PhaseSteps
      BY <1>1, <2>4 DEF PhaseIsTrue, Owns, PhaseSteps
    <3>2. \A t \in JobThread : at'[t].job = i => at'[t].step \notin PhaseSteps
      BY <2>1, <3>1
    <3>3. bodyHeld[i]
      BY <1>1, <2>4 DEF PhaseIsTrue
    <3>. QED
      BY <2>4, <3>2, <3>3 DEF PhaseIsTrue, Owns, PhaseSteps
  <2>. QED
    BY <1>3, <2>2, <2>3, <2>4
<1>7. ASSUME NEW i \in Job PROVE HandlesAreKept(i)'
  <2>1. phase'[i] = "NONE" => phase[i] = "NONE"
    BY <1>3
  <2>2. at'[Player] = at[Player] \/ at'[Player].step # "submit"
    BY <1>2
  <2>. QED
    BY <1>1, <2>1, <2>2, HandlesStay DEF HandlesAreKept
<1>8. ASSUME NEW i \in Job PROVE ReportsAreMade(i)'
  <2>1. \A t \in JobThread : at[t].job = i /\ at[t].step \in {"notify", "report"} => at'[t] = at[t]
    BY <1>2
  <2>2. phase'[i] = phase[i] \/ (phase[i] # "READY" /\ phase'[i] # "READY")
    BY <1>3
  <2>. QED
    BY <1>1, <2>1, <2>2, ReportsStay
<1>. QED
  BY <1>4, <1>5, <1>6, <1>7, <1>8 DEF JobsInv

LEMMA RequestsKeepJobs ==
  ASSUME JobsInv, RequestStop \/ \E j \in Job : RequestCancel(j)
  PROVE  JobsInv'
<1>1. JobsTyped /\ ScopeIsTrue
  BY DEF JobsInv
<1>2. CASE RequestStop
  <2>1. Range(jobList) \in SUBSET Job
    BY <1>1 DEF JobsTyped, JobsTypeOK, Range
  <2>2. at[Player].step = "cancelAll" /\ jobsStopping
    BY <1>1, <1>2 DEF RequestStop, Stands, ScopeIsTrue
  <2>3. /\ phase' = Cancelled(Range(jobList)) /\ at' = [at EXCEPT ![Player] = At("exit", NoJob)]
        /\ bodyHeld' = bodyHeld /\ outcome' = outcome /\ await' = await
        /\ awaitReady' = awaitReady /\ subscriber' = subscriber
        /\ stopDelivered' = stopDelivered /\ holder' = holder /\ hasConsumer' = hasConsumer
        /\ observed' = observed /\ reported' = reported /\ reports' = reports
        /\ dropping' = dropping /\ runs' = runs /\ jobList' = jobList /\ look' = look
        /\ jobsStopping' = jobsStopping /\ scopeExit' = scopeExit /\ jobNews' = TRUE
    BY <1>2 DEF RequestStop, Go, handleVars, scopeVars
  <2>. QED
    BY <2>1, <2>2, <2>3, CancelKeepsJobs
<1>3. ASSUME NEW j \in Job, RequestCancel(j) PROVE JobsInv'
  <2> DEFINE S == {j}
  <2>1. /\ S \in SUBSET Job /\ at[Player].step = "idle"
        /\ phase' = Cancelled(S) /\ at' = at
        /\ bodyHeld' = bodyHeld /\ outcome' = outcome /\ await' = await
        /\ awaitReady' = awaitReady /\ subscriber' = subscriber
        /\ stopDelivered' = stopDelivered /\ holder' = holder /\ hasConsumer' = hasConsumer
        /\ observed' = observed /\ reported' = reported /\ reports' = reports
        /\ dropping' = dropping /\ runs' = runs /\ jobList' = jobList /\ look' = look
        /\ jobsStopping' = jobsStopping /\ scopeExit' = scopeExit /\ jobNews' = TRUE
    BY <1>3 DEF RequestCancel, Stands, handleVars, scopeVars
  <2> HIDE DEF S
  <2>. QED
    BY <2>1, CancelKeepsJobs
<1>. QED
  BY <1>2, <1>3

LEMMA AppendIs ==
  ASSUME NEW S, NEW q \in Seq(S), NEW x \in S
  PROVE  /\ Append(q, x) \in Seq(S) /\ DOMAIN Append(q, x) = 1 .. Len(q) + 1
         /\ Append(q, x)[Len(q) + 1] = x /\ Len(q) + 1 \in DOMAIN Append(q, x)
         /\ \A i \in DOMAIN q : i \in DOMAIN Append(q, x) /\ Append(q, x)[i] = q[i]
BY AppendProperties

LEMMA SubmitKeepsJobs ==
  ASSUME JobsInv, NEW j \in Job, NEW S \in SUBSET Job, \A k \in S : holder[k] = Player,
         SubmitJob(j, S)
  PROVE  JobsInv'
<1>1. JobsTyped /\ ScopeIsTrue
      /\ \A i \in Job : PhaseIsTrue(i) /\ HandlesAreKept(i) /\ ReportsAreMade(i)
  BY DEF JobsInv
<1>2. /\ at[Player].step = "idle" /\ phase[j] = "NONE" /\ ~ jobsStopping
      /\ phase' = [phase EXCEPT ![j] = "QUEUED"]
      /\ holder' = [k \in Job |-> IF k \in S THEN j ELSE holder[k]]
      /\ jobList' = Append(jobList, j) /\ at' = [at EXCEPT ![Player] = At("submit", j)]
      /\ bodyHeld' = bodyHeld /\ outcome' = outcome /\ await' = await
      /\ awaitReady' = awaitReady /\ subscriber' = subscriber /\ stopDelivered' = stopDelivered
      /\ hasConsumer' = hasConsumer /\ observed' = observed /\ reported' = reported
      /\ reports' = reports /\ dropping' = dropping /\ runs' = runs /\ look' = look
      /\ jobsStopping' = jobsStopping /\ scopeExit' = scopeExit /\ jobNews' = jobNews
  BY DEF SubmitJob, Stands, Go
<1>3. /\ at' \in [JobThread -> [step : JobSteps, job : Job \cup {NoJob}]]
      /\ at'[Player].step = "submit" /\ at'[Player].job = j
      /\ \A t \in JobThread : t # Player => at'[t] = at[t]
  <2>1. "submit" \in JobSteps /\ j \in Job \cup {NoJob}
    BY DEF JobSteps
  <2>. QED
    BY <1>1, <1>2, <2>1, JobNames, Goes
<1>4. /\ phase' \in [Job -> JobPhase] /\ phase'[j] = "QUEUED"
      /\ \A i \in Job : i # j => phase'[i] = phase[i]
  BY <1>1, <1>2 DEF JobsTyped, JobsTypeOK, JobPhase
<1>5. /\ holder' \in [Job -> Job \cup {Player, "gone"}]
      /\ \A i \in S : holder[i] = Player /\ holder'[i] = j
      /\ \A i \in Job \ S : holder'[i] = holder[i]
  BY <1>1, <1>2 DEF JobsTyped, JobsTypeOK
<1>6. /\ jobList' \in Seq(Job)
      /\ \A i \in Job : i = j \/ (\E k \in DOMAIN jobList : jobList[k] = i)
                       => \E k \in DOMAIN jobList' : jobList'[k] = i
  <2>1. jobList \in Seq(Job)
    BY <1>1 DEF JobsTyped, JobsTypeOK
  <2>2. /\ jobList' \in Seq(Job) /\ Len(jobList) + 1 \in DOMAIN jobList'
        /\ jobList'[Len(jobList) + 1] = j
        /\ \A k \in DOMAIN jobList : k \in DOMAIN jobList' /\ jobList'[k] = jobList[k]
    BY <1>2, <2>1, AppendIs
  <2>. QED
    BY <2>2
<1>7. JobsTyped'
  BY <1>1, <1>2, <1>3, <1>4, <1>5, <1>6 DEF JobsTyped, JobsTypeOK
<1>8. ScopeIsTrue'
  <2>1. \A i \in Job : phase'[i] \notin {"NONE", "READY"} =>
          \E k \in DOMAIN jobList' : jobList'[k] = i
    BY <1>1, <1>4, <1>6 DEF ScopeIsTrue
  <2>2. at[Dispatcher].step # "exited" /\ at'[Dispatcher] = at[Dispatcher]
    BY <1>1, <1>2, <1>3, JobNames DEF ScopeIsTrue, Stands
  <2>. QED
    BY <1>1, <1>2, <1>3, <2>1, <2>2 DEF ScopeIsTrue, Stands
<1>9. Unmade(j) /\ j \notin S
  BY <1>1, <1>2, JobNames DEF HandlesAreKept, Unsubmitted, Unmade
<1>10. ASSUME NEW i \in Job PROVE PhaseIsTrue(i)'
  <2>1. CASE i = j
    <3>1. j \notin runs /\ bodyHeld[j] /\ \A t \in JobThread : at[t].job = j => at[t].step \notin PhaseSteps
      BY <1>1, <1>2 DEF PhaseIsTrue, PhaseSteps
    <3>2. \A t \in JobThread : t # Player /\ at'[t].job = j => at'[t].step \notin PhaseSteps
      BY <1>3, <3>1
    <3>. QED
      BY <1>2, <1>3, <1>4, <2>1, <3>1, <3>2 DEF PhaseIsTrue, Owns, PhaseSteps
  <2>2. CASE i # j
    <3>1. \A t \in JobThread : at'[t] = at[t] \/ at'[t].job # i
      BY <1>3, <2>2
    <3>. QED
      BY <1>1, <1>2, <1>4, <2>2, <3>1, PhaseStays
  <2>. QED
    BY <2>1, <2>2
<1>11. ASSUME NEW i \in Job PROVE HandlesAreKept(i)'
  <2>1. Unsubmitted(i)' => Unsubmitted(i)
    <3>1. CASE i = j
      BY <1>2, <3>1 DEF Unsubmitted
    <3>2. CASE i # j
      BY <1>3, <1>4, <3>2 DEF Unsubmitted
    <3>. QED
      BY <3>1, <3>2
  <2>2. Unsubmitted(i)' => Unmade(i)'
    <3>1. Unsubmitted(i)' => Unmade(i) /\ i \notin S
      BY <1>1, <2>1, JobNames DEF HandlesAreKept, Unmade
    <3>. QED
      BY <1>2, <1>5, <3>1 DEF Unmade
  <2>3. bodyHeld'[i] /\ await'[i] # NoJob => holder'[await'[i]] = i
    <3>1. await[i] \in Job \cup {NoJob}
      BY <1>1 DEF JobsTyped, JobsTypeOK
    <3>. QED
      BY <1>1, <1>2, <1>5, <3>1, JobNames DEF HandlesAreKept
  <2>4. /\ holder'[i] # "gone" => hasConsumer'[i]
        /\ observed'[i] => hasConsumer'[i] /\ holder'[i] = "gone"
    BY <1>1, <1>2, <1>5, JobNames DEF HandlesAreKept
  <2>. QED
    BY <2>2, <2>3, <2>4 DEF HandlesAreKept
<1>12. ASSUME NEW i \in Job PROVE ReportsAreMade(i)'
  <2>1. \A t \in JobThread : at[t].job = i /\ at[t].step \in {"notify", "report"} => at'[t] = at[t]
    BY <1>2, <1>3
  <2>2. phase'[i] = phase[i] \/ (phase[i] # "READY" /\ phase'[i] # "READY")
    BY <1>2, <1>4
  <2>. QED
    BY <1>1, <1>2, <2>1, <2>2, ReportsStay
<1>. QED
  BY <1>7, <1>8, <1>10, <1>11, <1>12 DEF JobsInv

LEMMA SubmittedKeepsJobs ==
  ASSUME JobsInv, NEW j \in Job, Submitted(j)
  PROVE  JobsInv'
<1>1. JobsTyped /\ ScopeIsTrue
      /\ \A i \in Job : PhaseIsTrue(i) /\ HandlesAreKept(i) /\ ReportsAreMade(i)
  BY DEF JobsInv
<1>2. /\ at[Player] = At("submit", j) /\ runs' = runs \cup {j}
      /\ holder' = [holder EXCEPT ![j] = Player]
      /\ at' = [at EXCEPT ![Player] = At("idle", NoJob)]
      /\ phase' = phase /\ bodyHeld' = bodyHeld /\ outcome' = outcome /\ await' = await
      /\ awaitReady' = awaitReady /\ subscriber' = subscriber /\ stopDelivered' = stopDelivered
      /\ hasConsumer' = hasConsumer /\ observed' = observed /\ reported' = reported
      /\ reports' = reports /\ dropping' = dropping /\ jobList' = jobList /\ look' = look
      /\ jobsStopping' = jobsStopping /\ scopeExit' = scopeExit /\ jobNews' = jobNews
  BY DEF Submitted, JobIdle, At, jobVars
<1>3. at[Player].step = "submit" /\ at[Player].job = j
  BY <1>2 DEF At
<1>4. /\ at' \in [JobThread -> [step : JobSteps, job : Job \cup {NoJob}]]
      /\ at'[Player].step = "idle" /\ at'[Player].job = NoJob
      /\ \A t \in JobThread : t # Player => at'[t] = at[t]
  <2>1. "idle" \in JobSteps /\ NoJob \in Job \cup {NoJob}
    BY DEF JobSteps
  <2>. QED
    BY <1>1, <1>2, <2>1, JobNames, Goes
<1>5. phase[j] = "QUEUED" /\ bodyHeld[j] /\ Unmade(j)
  BY <1>1, <1>3, JobNames DEF PhaseIsTrue, HandlesAreKept, Unsubmitted
<1>6. /\ holder' \in [Job -> Job \cup {Player, "gone"}] /\ holder'[j] = Player
      /\ \A i \in Job : i # j => holder'[i] = holder[i]
  BY <1>1, <1>2 DEF JobsTyped, JobsTypeOK
<1>7. JobsTyped'
  BY <1>1, <1>2, <1>4, <1>6 DEF JobsTyped, JobsTypeOK
<1>8. ScopeIsTrue'
  <2>1. \A t \in JobThread :
          at'[t] = at[t] \/ at'[t].step \notin {"submit", "cancelAll", "exit", "join", "exited"}
    BY <1>4
  <2>. QED
    BY <1>1, <1>2, <2>1, ScopeStays
<1>9. ASSUME NEW i \in Job PROVE PhaseIsTrue(i)'
  <2>1. \A t \in JobThread : at'[t] = at[t] \/ at'[t].step \notin PhaseSteps
    BY <1>4 DEF PhaseSteps
  <2>2. CASE i = j
    <3>1. \A t \in JobThread : t # Player /\ at[t].job = j => at[t].step \notin PhaseSteps
      BY <1>1, <1>5 DEF PhaseIsTrue, PhaseSteps
    <3>2. \A t \in JobThread : at'[t].job = j => at'[t].step \notin PhaseSteps
      BY <1>4, <3>1 DEF PhaseSteps
    <3>. QED
      BY <1>2, <1>5, <2>2, <3>2 DEF PhaseIsTrue, Owns, PhaseSteps
  <2>3. CASE i # j
    BY <1>1, <1>2, <2>1, <2>3, PhaseStays
  <2>. QED
    BY <2>2, <2>3
<1>10. ASSUME NEW i \in Job PROVE HandlesAreKept(i)'
  <2>1. Unsubmitted(i)' => Unsubmitted(i) /\ i # j
    BY <1>2, <1>4, <1>5 DEF Unsubmitted
  <2>2. Unsubmitted(i)' => Unmade(i)'
    BY <1>1, <1>2, <1>6, <2>1 DEF HandlesAreKept, Unmade
  <2>3. bodyHeld'[i] /\ await'[i] # NoJob => holder'[await'[i]] = i
    <3>1. await[i] \in Job \cup {NoJob} /\ holder[j] # i
      BY <1>1, <1>5, JobNames DEF JobsTyped, JobsTypeOK, Unmade
    <3>. QED
      BY <1>1, <1>2, <1>6, <3>1 DEF HandlesAreKept
  <2>4. /\ holder'[i] # "gone" => hasConsumer'[i]
        /\ observed'[i] => hasConsumer'[i] /\ holder'[i] = "gone"
    BY <1>1, <1>2, <1>5, <1>6 DEF HandlesAreKept, Unmade
  <2>. QED
    BY <2>2, <2>3, <2>4 DEF HandlesAreKept
<1>11. ASSUME NEW i \in Job PROVE ReportsAreMade(i)'
  <2>1. \A t \in JobThread : at[t].job = i /\ at[t].step \in {"notify", "report"} => at'[t] = at[t]
    BY <1>3, <1>4
  <2>. QED
    BY <1>1, <1>2, <2>1, ReportsStay
<1>. QED
  BY <1>7, <1>8, <1>9, <1>10, <1>11 DEF JobsInv

(* A submission that throws leaves the job as if it had not been tried. *)
LEMMA ThrowKeepsJobs ==
  ASSUME JobsInv, NEW j \in Job, SubmitThrows(j)
  PROVE  JobsInv'
<1>1. JobsTyped /\ ScopeIsTrue
      /\ \A i \in Job : PhaseIsTrue(i) /\ HandlesAreKept(i) /\ ReportsAreMade(i)
  BY DEF JobsInv
<1>2. /\ at[Player] = At("submit", j) /\ phase' = [phase EXCEPT ![j] = "NONE"]
      /\ AbandonAll(Player, Owned(j)) /\ at' = [at EXCEPT ![Player] = At("idle", NoJob)]
      /\ bodyHeld' = bodyHeld /\ outcome' = outcome /\ await' = await
      /\ awaitReady' = awaitReady /\ subscriber' = subscriber /\ stopDelivered' = stopDelivered
      /\ observed' = observed /\ reported' = reported /\ reports' = reports
      /\ runs' = runs /\ look' = look
      /\ jobsStopping' = jobsStopping /\ scopeExit' = scopeExit /\ jobNews' = jobNews
  BY DEF SubmitThrows, JobIdle, At
<1>3. PICK k \in DOMAIN jobList : jobList[k] = j /\ jobList' = RemoveAt(jobList, k)
  BY DEF SubmitThrows
<1>4. /\ jobList' \in Seq(Job)
      /\ \A i \in DOMAIN jobList : i # k => \E m \in DOMAIN jobList' : jobList'[m] = jobList[i]
  <2>1. jobList \in Seq(Job) /\ k \in 1 .. Len(jobList)
    BY <1>1 DEF JobsTyped, JobsTypeOK
  <2>. QED
    BY <1>3, <2>1, RemoveAtIs
<1>5. at[Player].step = "submit" /\ at[Player].job = j
  BY <1>2 DEF At
<1>6. /\ at' \in [JobThread -> [step : JobSteps, job : Job \cup {NoJob}]]
      /\ at'[Player].step = "idle" /\ at'[Player].job = NoJob
      /\ \A t \in JobThread : t # Player => at'[t] = at[t]
  <2>1. "idle" \in JobSteps /\ NoJob \in Job \cup {NoJob}
    BY DEF JobSteps
  <2>. QED
    BY <1>1, <1>2, <2>1, JobNames, Goes
<1>7. phase[j] = "QUEUED" /\ bodyHeld[j] /\ Unmade(j) /\ j \notin runs
  BY <1>1, <1>5, JobNames DEF PhaseIsTrue, HandlesAreKept, Unsubmitted
<1>8. /\ phase' \in [Job -> JobPhase] /\ phase'[j] = "NONE"
      /\ \A i \in Job : i # j => phase'[i] = phase[i]
  BY <1>1, <1>2 DEF JobsTyped, JobsTypeOK, JobPhase
<1>9. /\ holder' \in [Job -> Job \cup {Player, "gone"}]
      /\ hasConsumer' \in [Job -> BOOLEAN] /\ dropping' \in [Job -> JobThread \cup {NoJob}]
      /\ \A i \in Job : holder[i] = j =>
           holder'[i] = "gone" /\ ~ hasConsumer'[i] /\ dropping'[i] = Player
      /\ \A i \in Job : holder[i] # j =>
           /\ holder'[i] = holder[i] /\ hasConsumer'[i] = hasConsumer[i]
           /\ dropping'[i] = dropping[i]
  <2>1. Owned(j) \in SUBSET Job /\ \A i \in Job : i \in Owned(j) <=> holder[i] = j
    BY DEF Owned
  <2>. QED
    BY <1>1, <1>2, <2>1, JobNames, Abandons
<1>10. JobsTyped'
  BY <1>1, <1>2, <1>4, <1>6, <1>8, <1>9 DEF JobsTyped, JobsTypeOK
<1>11. ScopeIsTrue'
  <2>1. ASSUME NEW i \in Job, phase'[i] \notin {"NONE", "READY"}
        PROVE  \E m \in DOMAIN jobList' : jobList'[m] = i
    <3>1. i # j /\ phase[i] \notin {"NONE", "READY"}
      BY <1>8, <2>1
    <3>2. PICK m \in DOMAIN jobList : jobList[m] = i
      BY <1>1, <3>1 DEF ScopeIsTrue
    <3>3. m # k
      BY <1>3, <3>1, <3>2
    <3>. QED
      BY <1>4, <3>2, <3>3
  <2>2. at[Dispatcher].step = "exited" => \A i \in Job : phase'[i] \in {"NONE", "READY"}
    BY <1>1, <1>8 DEF ScopeIsTrue, Stands
  <2>3. at'[Dispatcher] = at[Dispatcher]
    BY <1>6, JobNames
  <2>. QED
    BY <1>1, <1>2, <1>6, <2>1, <2>2, <2>3 DEF ScopeIsTrue, Stands
<1>12. ASSUME NEW i \in Job PROVE PhaseIsTrue(i)'
  <2>1. \A t \in JobThread : at'[t] = at[t] \/ at'[t].step \notin PhaseSteps
    BY <1>6 DEF PhaseSteps
  <2>2. CASE i = j
    <3>1. \A t \in JobThread : t # Player /\ at[t].job = j => at[t].step \notin PhaseSteps
      BY <1>1, <1>7 DEF PhaseIsTrue, PhaseSteps
    <3>2. \A t \in JobThread : at'[t].job = j => at'[t].step \notin PhaseSteps
      BY <1>6, <3>1 DEF PhaseSteps
    <3>. QED
      BY <1>2, <1>7, <1>8, <2>2, <3>2 DEF PhaseIsTrue, Owns, PhaseSteps
  <2>3. CASE i # j
    BY <1>1, <1>2, <1>8, <2>1, <2>3, PhaseStays
  <2>. QED
    BY <2>2, <2>3
<1>13. ASSUME NEW i \in Job PROVE HandlesAreKept(i)'
  <2>1. Unsubmitted(i)' => Unmade(i) /\ holder[i] # j
    <3>1. CASE i = j
      BY <1>7, <3>1, JobNames DEF Unmade
    <3>2. CASE i # j
      <4>1. Unsubmitted(i)' => Unsubmitted(i)
        BY <1>6, <1>8, <3>2, JobNames DEF Unsubmitted
      <4>. QED
        BY <1>1, <4>1, JobNames DEF HandlesAreKept, Unmade
    <3>. QED
      BY <3>1, <3>2
  <2>2. Unsubmitted(i)' => Unmade(i)'
    BY <1>2, <1>9, <2>1 DEF Unmade
  <2>3. bodyHeld'[i] /\ await'[i] # NoJob => holder'[await'[i]] = i
    <3>1. await[i] \in Job \cup {NoJob} /\ await[j] = NoJob
      BY <1>1, <1>7 DEF JobsTyped, JobsTypeOK, Unmade
    <3>. QED
      BY <1>1, <1>2, <1>9, <3>1 DEF HandlesAreKept
  <2>4. /\ holder'[i] # "gone" => hasConsumer'[i]
        /\ observed'[i] => hasConsumer'[i] /\ holder'[i] = "gone"
    BY <1>1, <1>2, <1>9, JobNames DEF HandlesAreKept
  <2>. QED
    BY <2>2, <2>3, <2>4 DEF HandlesAreKept
<1>14. ASSUME NEW i \in Job PROVE ReportsAreMade(i)'
  <2>1. \A t \in JobThread : at[t].job = i /\ at[t].step \in {"notify", "report"} => at'[t] = at[t]
    BY <1>5, <1>6
  <2>2. phase'[i] = phase[i] \/ (phase[i] # "READY" /\ phase'[i] # "READY")
    BY <1>7, <1>8
  <2>3. \/ hasConsumer'[i] = hasConsumer[i] /\ dropping'[i] = dropping[i]
        \/ dropping'[i] # NoJob
    BY <1>9, JobNames
  <2>. QED
    BY <1>1, <1>2, <2>1, <2>2, <2>3, ReportsStay
<1>. QED
  BY <1>10, <1>11, <1>12, <1>13, <1>14 DEF JobsInv

LEMMA NotifyKeepsJobs ==
  ASSUME JobsInv, NEW th \in JobThread, NEW j \in Job, Notify(th, j)
  PROVE  JobsInv'
<1>1. JobsTyped /\ ScopeIsTrue
      /\ \A i \in Job : PhaseIsTrue(i) /\ HandlesAreKept(i) /\ ReportsAreMade(i)
  BY DEF JobsInv
<1>2. /\ at[th] = At("notify", j) /\ at' = [at EXCEPT ![th] = At("report", j)]
      /\ jobNews' = TRUE /\ subscriber' = [subscriber EXCEPT ![j] = NoJob]
      /\ awaitReady' = [awaitReady EXCEPT ![subscriber[j]] = awaitReady[subscriber[j]]
                                                             \/ await[subscriber[j]] = j]
      /\ phase' = phase /\ bodyHeld' = bodyHeld /\ outcome' = outcome /\ await' = await
      /\ stopDelivered' = stopDelivered /\ holder' = holder /\ hasConsumer' = hasConsumer
      /\ observed' = observed /\ reported' = reported /\ reports' = reports
      /\ dropping' = dropping /\ runs' = runs /\ jobList' = jobList /\ look' = look
      /\ jobsStopping' = jobsStopping /\ scopeExit' = scopeExit
  BY DEF Notify, Go, handleVars, scopeVars
<1>3. at[th].step = "notify" /\ at[th].job = j
  BY <1>2 DEF At
<1>4. /\ at' \in [JobThread -> [step : JobSteps, job : Job \cup {NoJob}]]
      /\ at'[th].step = "report" /\ at'[th].job = j
      /\ \A t \in JobThread : t # th => at'[t] = at[t]
  <2>1. "report" \in JobSteps /\ j \in Job \cup {NoJob}
    BY DEF JobSteps
  <2>. QED
    BY <1>1, <1>2, <2>1, Goes
<1>5. phase[j] = "READY"
  BY <1>1, <1>3 DEF PhaseIsTrue
<1>6. awaitReady' \in [Job -> BOOLEAN] /\ subscriber' \in [Job -> Job \cup {NoJob}]
  BY <1>1, <1>2 DEF JobsTyped, JobsTypeOK
<1>7. JobsTyped'
  BY <1>1, <1>2, <1>4, <1>6 DEF JobsTyped, JobsTypeOK
<1>8. ScopeIsTrue'
  <2>1. \A t \in JobThread :
          at'[t] = at[t] \/ at'[t].step \notin {"submit", "cancelAll", "exit", "join", "exited"}
    BY <1>4
  <2>. QED
    BY <1>1, <1>2, <2>1, ScopeStays
<1>9. ASSUME NEW i \in Job PROVE PhaseIsTrue(i)'
  <2>1. CASE i = j
    BY <1>1, <1>2, <1>4, <1>5, <2>1 DEF PhaseIsTrue, Owns
  <2>2. CASE i # j
    <3>1. \A t \in JobThread : at'[t] = at[t] \/ at'[t].job # i
      BY <1>4, <2>2
    <3>. QED
      BY <1>1, <1>2, <3>1, PhaseStays
  <2>. QED
    BY <2>1, <2>2
<1>10. ASSUME NEW i \in Job PROVE HandlesAreKept(i)'
  <2>1. at'[Player] = at[Player] \/ at'[Player].step # "submit"
    BY <1>4, JobNames
  <2>. QED
    BY <1>1, <1>2, <2>1, HandlesStay DEF HandlesAreKept
<1>11. ASSUME NEW i \in Job PROVE ReportsAreMade(i)'
  <2>1. Settled(i)' => Settled(i)
    BY <1>2, <1>3, <1>4 DEF Settled
  <2>. QED
    BY <1>1, <1>2, <2>1 DEF ReportsAreMade
<1>. QED
  BY <1>7, <1>8, <1>9, <1>10, <1>11 DEF JobsInv

LEMMA JobsStep == JobsInv /\ [JobsNext]_userJobVars => JobsInv'
<1> SUFFICES ASSUME JobsInv, [JobsNext]_userJobVars PROVE JobsInv'
  OBVIOUS
<1>1. ASSUME NEW k \in Job, DropHandle(k) \/ TryTake(k) \/ RequestCancel(k) PROVE JobsInv'
  BY <1>1, DropKeepsJobs, TakeKeepsJobs, RequestsKeepJobs
<1>2. ASSUME NEW j \in Job,
             SubmitJob(j, {k \in Job : holder[k] = Player /\ <<j, k>> \in Awaits})
      PROVE  JobsInv'
  <2> DEFINE S == {k \in Job : holder[k] = Player /\ <<j, k>> \in Awaits}
  <2>1. S \in SUBSET Job /\ \A k \in S : holder[k] = Player
    OBVIOUS
  <2>2. SubmitJob(j, S)
    BY <1>2
  <2> HIDE DEF S
  <2>. QED
    BY <2>1, <2>2, SubmitKeepsJobs
<1>3. CASE CloseAdmission
  BY <1>3, CloseKeepsJobs
<1>4. ASSUME NEW j \in Job, Submitted(j) \/ SubmitThrows(j) PROVE JobsInv'
  BY <1>4, SubmittedKeepsJobs, ThrowKeepsJobs
<1>5. CASE RequestStop
  BY <1>5, RequestsKeepJobs
<1>6. CASE Join \/ JobsJoined
  BY <1>6, PlayerMovesKeepJobs
<1>7. ASSUME NEW w \in JobWorker, WorkerStep(w) PROVE JobsInv'
  <2>1. PICK j \in Job :
          \/ ClaimJob(w, j) \/ CheckStopping(w, j) \/ Resumed(w, j)
          \/ \E o \in {"value", "failure"} : BodyEnds(w, j, o)
          \/ \E k \in Job : Await(w, j, k)
          \/ Subscribe(w, j) \/ Suspend(w, j) \/ FinalizeJob(w, j)
          \/ Wake(w)
    BY <1>7 DEF WorkerStep
  <2>2. CASE ClaimJob(w, j)
    BY <2>2, ClaimKeepsJobs
  <2>3. CASE CheckStopping(w, j)
    BY <2>3, CheckKeepsJobs
  <2>4. CASE Resumed(w, j)
    BY <2>4, ResumedKeepsJobs
  <2>5. CASE \E o \in {"value", "failure"} : BodyEnds(w, j, o)
    BY <2>5, EndKeepsJobs
  <2>6. CASE \E k \in Job : Await(w, j, k)
    BY <2>6, AwaitKeepsJobs
  <2>7. CASE Subscribe(w, j)
    BY <2>7, SubscribeKeepsJobs
  <2>8. CASE Suspend(w, j)
    BY <2>8, SuspendKeepsJobs
  <2>9. CASE FinalizeJob(w, j)
    BY <2>9, FinalizeKeepsJobs
  <2>10. CASE Wake(w)
    BY <2>10, OtherMovesKeepJobs
  <2>. QED
    BY <2>1, <2>2, <2>3, <2>4, <2>5, <2>6, <2>7, <2>8, <2>9, <2>10
<1>8. ASSUME NEW th \in JobWorker \cup {Dispatcher}, PublishStep(th) PROVE JobsInv'
  <2>1. th \in JobThread
    BY DEF JobThread
  <2>. QED
    BY <1>8, <2>1, PublishKeepsJobs, NotifyKeepsJobs, ReportKeepsJobs DEF PublishStep
<1>9. CASE DispatchStep
  <2>1. CASE ReadVersion \/ ScanEnds
    BY <2>1, OtherMovesKeepJobs
  <2>2. CASE RetireJob
    BY <2>2, RetireKeepsJobs
  <2>3. CASE SelectCancel
    BY <2>3, SelectCancelKeepsJobs
  <2>4. CASE SelectResume
    BY <2>4, SelectResumeKeepsJobs
  <2>5. CASE LookNext
    BY <2>5, LookNextKeepsJobs
  <2>6. ASSUME NEW j \in Job, SubmitResume(j) \/ ResumeThrows(j) \/ FailResume(j)
        PROVE  JobsInv'
    BY <2>6, SubmitResumeKeepsJobs, ResumeThrowsKeepsJobs, FailResumeKeepsJobs
  <2>7. ASSUME NEW j \in Job, DispatchCancel(j) \/ DispatchStop(j) PROVE JobsInv'
    BY <2>7, DispatchCancelKeepsJobs, DispatchStopKeepsJobs
  <2>. QED
    BY <1>9, <2>1, <2>2, <2>3, <2>4, <2>5, <2>6, <2>7 DEF DispatchStep
<1>10. CASE AbandonStep
  BY <1>10, AbandonKeepsJobs DEF AbandonStep
<1>11. CASE UNCHANGED userJobVars
  <2>1. JobsUntouched /\ at' = at /\ jobList' = jobList /\ look' = look /\ jobNews' = jobNews
        /\ jobsStopping' = jobsStopping /\ scopeExit' = scopeExit
    BY <1>11 DEF userJobVars, jobVars, handleVars, scopeVars, JobsUntouched
  <2>2. ScopeIsTrue'
    BY <2>1, ScopeStays DEF JobsInv, JobsUntouched
  <2>3. /\ jobList \in Seq(Job) /\ look \in Nat /\ jobNews \in BOOLEAN
        /\ jobsStopping \in BOOLEAN /\ scopeExit \in BOOLEAN
        /\ at \in [JobThread -> [step : JobSteps, job : Job \cup {NoJob}]]
    BY DEF JobsInv, JobsTyped, JobsTypeOK
  <2>. QED
    BY <2>1, <2>2, <2>3, PlacesChange
<1>12. CASE PlayerStep \/ PlayerEnds
  BY <1>1, <1>2, <1>3, <1>4, <1>5, <1>6, <1>12 DEF PlayerStep, PlayerEnds
<1>13. CASE JobThreadsStep
  BY <1>7, <1>8, <1>9, <1>10, <1>13 DEF JobThreadsStep
<1>. QED
  BY <1>11, <1>12, <1>13 DEF JobsNext

LEMMA JobsFollow == JobsInv => JobsAreSafe
<1> SUFFICES ASSUME JobsInv PROVE JobsAreSafe
  OBVIOUS
<1>1. JobsTypeOK /\ ScopeIsTrue
      /\ \A j \in Job : PhaseIsTrue(j) /\ HandlesAreKept(j) /\ ReportsAreMade(j)
  BY DEF JobsInv, JobsTyped
<1>2. OneOwner
  BY <1>1 DEF OneOwner, PhaseIsTrue, Inside
<1>3. FailuresSurface
  BY <1>1 DEF FailuresSurface, ReportsAreMade
<1>4. NothingOutlivesJoin
  BY <1>1 DEF NothingOutlivesJoin, ScopeIsTrue, PhaseIsTrue
<1>. QED
  BY <1>1, <1>2, <1>3, <1>4 DEF JobsAreSafe

(* Whatever jobs there are and whoever cancels, resumes or abandons them, a  *)
(* body has one owner, a failure reaches somebody once, and Join means that  *)
(* no job of the run is left (lib/thread/job_control.h, user_job_scope.cpp). *)
THEOREM JobsSafe == JobsSpec => []JobsAreSafe
<1>. QED
  BY JobsStart, JobsStep, JobsFollow, PTL DEF JobsSpec

=============================================================================
