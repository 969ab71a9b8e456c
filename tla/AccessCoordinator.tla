------------------------- MODULE AccessCoordinator -------------------------
(***************************************************************************)
(* The access coordinator of the ECS (ecs/internal/access_coordinator.cpp):*)
(* operations declare the data they touch, an operation waits for every    *)
(* earlier one it conflicts with, and a ready operation is handed to the   *)
(* task executor.  Each action is one critical section of State::Mutex     *)
(* with the calls that surround it; user code (bodies, destructors of      *)
(* captures) runs between the actions.  The executor is external: a        *)
(* submitted wrapper is run once, by some worker, in any order.            *)
(* The definitions named Mutant... are no part of the specification: each  *)
(* is a bug one of the properties has to notice.                           *)
(***************************************************************************)
EXTENDS Integers, Sequences, FiniteSets, FiniteSetsExt

CONSTANTS
  Workers,          \* threads of the task executor
  Producers,        \* threads that call RegisterDomain and Schedule
  Cancellers,       \* threads that call Cancel
  Sealers,          \* threads that call Seal
  Hosts,            \* threads that call Stop
  Types,            \* data domains, without their generation
  Footprints,       \* the sets of accesses an operation may declare
  MaxOperations,    \* bound on Schedule
  MaxGeneration     \* bound on RegisterDomain

Threads == Workers \cup Producers \cup Cancellers \cup Sealers \cup Hosts
Indexed == {"ENTITY", "ENTITY_SET", "CHUNK"}
Requirements == {"READ", "WRITE", "EXCLUSIVE"}

(* What Normalize accepts; it throws on everything else before any change. *)
Normal(scope) ==
  /\ scope.kind \in Indexed \cup {"WHOLE_STORAGE", "RESOURCE", "UNKNOWN"}
  /\ scope.kind \in {"WHOLE_STORAGE", "UNKNOWN", "ENTITY_SET"} => scope.begin = 0
  /\ IF scope.kind = "CHUNK" THEN scope.count > 0 ELSE scope.count = 0
  /\ (scope.kind = "ENTITY_SET") <=> (scope.elements # {})

ASSUME RolesAssumption == Hosts \cap Workers = {}
ASSUME BoundsAssumption == MaxOperations \in Nat \ {0} /\ MaxGeneration \in Nat \ {0}
ASSUME FootprintsAssumption ==
  \A footprint \in Footprints : \A access \in footprint :
     /\ access.type \in Types
     /\ access.requirement \in Requirements
     /\ access.scope.begin \in Nat /\ access.scope.count \in Nat
     /\ access.scope.elements \in SUBSET Nat
     /\ Normal(access.scope)

VARIABLES
  operations,   \* State::Operations
  domain,       \* domain[d]: the generation whose token is held, 0 for none
  closed, sealed, sealCompleted, hasFailure,    \* the flags of State
  running, retiring,                            \* the counters of State
  submitted,    \* wrappers the task executor has yet to run
  thread        \* where each thread is: [at, call, op, key, target]

flags == <<closed, sealed, sealCompleted, hasFailure>>
vars == <<operations, domain, flags, running, retiring, submitted, thread>>

Keys == 1..Len(operations)
Terminal == {"COMPLETED", "FAILED", "CANCELLED"}
Statuses == {"WAITING", "QUEUED", "RUNNING"} \cup Terminal

(***************************************************************************)
(* Conflicts.                                                              *)
(***************************************************************************)

Contains(scope, element) ==
  CASE scope.kind = "ENTITY" -> scope.begin = element
    [] scope.kind = "ENTITY_SET" -> element \in scope.elements
    [] scope.kind = "CHUNK" -> element >= scope.begin /\ element - scope.begin < scope.count
    [] OTHER -> TRUE

Listed(scope) == IF scope.kind = "ENTITY" THEN {scope.begin} ELSE scope.elements

Overlaps(left, right) ==
  LET kinds == {left.kind, right.kind} IN
  \/ kinds \cap {"WHOLE_STORAGE", "UNKNOWN"} # {}
  \/ /\ "RESOURCE" \in kinds
     /\ left.kind # right.kind \/ left.begin = right.begin
  \/ /\ kinds = {"CHUNK"}
     /\ left.begin < right.begin + right.count
     /\ right.begin < left.begin + left.count
  \/ /\ kinds \subseteq Indexed
     /\ \/ \E element \in Listed(left) : Contains(right, element)
        \/ \E element \in Listed(right) : Contains(left, element)

Clash(left, right) ==
  /\ left.type = right.type /\ left.generation = right.generation
  /\ left.requirement # "READ" \/ right.requirement # "READ"
  /\ Overlaps(left.scope, right.scope)

(* A cancelled operation gives its access up at once.                      *)
MutantHoldsAccess(operation) == operation.status \notin Terminal

(* A terminal operation keeps its access until its captures are destroyed. *)
HoldsAccess(operation) ==
  operation.status \notin Terminal \/ operation.function \/ operation.isRetiring

Predecessors(footprints) ==
  {k \in Keys : /\ HoldsAccess(operations[k])
                /\ \E l \in operations[k].footprints, r \in footprints : Clash(l, r)}

(***************************************************************************)
(* Threads.  A worker calls in only from the body it runs.                 *)
(***************************************************************************)

Home(t) == IF thread[t].op # 0 THEN "body" ELSE "idle"
CanCall(t) == thread[t].at = IF t \in Workers THEN "body" ELSE "idle"
Goto(t, at) == thread' = [thread EXCEPT ![t].at = at, ![t].target = 0]
Return(t) ==
  thread' = [thread EXCEPT ![t].at = Home(t), ![t].call = "none", ![t].key = 0, ![t].target = 0]
Enter(t, call, at) == thread' = [thread EXCEPT ![t].at = at, ![t].call = call]
Hold(t, at, k) == thread' = [thread EXCEPT ![t].at = at, ![t].target = k]

(* The keys callers have: those Schedule returned, and the ones that       *)
(* GetDependencies of a returned key tells.                                *)
Known ==
  LET returned == {k \in Keys : \A t \in Threads : thread[t].key # k}
  IN returned \cup UNION {operations[k].dependencies : k \in returned}

Init ==
  /\ operations = <<>> /\ domain = [d \in Types |-> 0]
  /\ closed = FALSE /\ sealed = FALSE /\ sealCompleted = FALSE /\ hasFailure = FALSE
  /\ running = 0 /\ retiring = 0 /\ submitted = {}
  /\ thread = [t \in Threads |-> [at |-> "idle", call |-> "none",
                             op |-> 0, key |-> 0, target |-> 0]]

(***************************************************************************)
(* The calls.                                                              *)
(***************************************************************************)

(* A new generation replaces a domain only when nothing holds the old one. *)
RegisterDomain(t, d, generation) ==
  /\ t \in Producers /\ CanCall(t)
  /\ ~closed /\ ~hasFailure
  /\ generation > domain[d]
  /\ \A k \in Keys : HoldsAccess(operations[k]) =>
        \A a \in operations[k].footprints : a.type # d \/ a.generation # domain[d]
  /\ domain' = [domain EXCEPT ![d] = generation]
  /\ UNCHANGED <<operations, flags, running, retiring, submitted, thread>>

Schedule(t, footprint, dependencies) ==
  LET footprints == {[type |-> a.type, generation |-> domain[a.type],
                      scope |-> a.scope, requirement |-> a.requirement] : a \in footprint}
  IN
  /\ t \in Producers /\ CanCall(t)
  /\ Len(operations) < MaxOperations
  /\ ~closed /\ ~hasFailure
  /\ \A a \in footprints : a.generation # 0
  /\ operations' = Append(operations,
        [footprints |-> footprints, function |-> TRUE, status |-> "WAITING",
         dependencies |-> dependencies \cup Predecessors(footprints),
         isRetiring |-> FALSE])
  /\ thread' = [thread EXCEPT ![t].at = "progress", ![t].call = "Schedule",
                              ![t].key = Len(operations) + 1]
  /\ UNCHANGED <<domain, flags, running, retiring, submitted>>

Cancel(t, k) ==
  /\ t \in Cancellers /\ CanCall(t)
  /\ operations[k].status \in {"WAITING", "QUEUED"}
  /\ operations' = [operations EXCEPT ![k].status = "CANCELLED"]
  /\ Enter(t, "Cancel", "progress")
  /\ UNCHANGED <<domain, flags, running, retiring, submitted>>

Seal(t) ==
  /\ t \in Sealers /\ CanCall(t)
  /\ ~closed
  /\ closed' = TRUE /\ sealed' = TRUE
  /\ Enter(t, "Seal", "progress")
  /\ UNCHANGED <<operations, domain, sealCompleted, hasFailure, running, retiring, submitted>>

(* Stop cancels what has not started; it does not publish anything more.   *)
Stop(t) ==
  /\ t \in Hosts /\ CanCall(t)
  /\ closed' = TRUE
  /\ operations' = [k \in Keys |->
        IF operations[k].status \in {"WAITING", "QUEUED"}
        THEN [operations[k] EXCEPT !.status = "CANCELLED"] ELSE operations[k]]
  /\ Enter(t, "Stop", "release")
  /\ UNCHANGED <<domain, sealed, sealCompleted, hasFailure, running, retiring, submitted>>

(***************************************************************************)
(* Progress: one look at the operations in admission order.  It cancels    *)
(* the ones behind a failure up to the first ready one, which it reserves. *)
(***************************************************************************)

Doomed ==
  LET doomed[k \in Keys] ==
        \/ operations[k].status \in {"FAILED", "CANCELLED"}
        \/ /\ operations[k].status = "WAITING"
           /\ \E d \in operations[k].dependencies : doomed[d]
  IN {k \in Keys : doomed[k]}

Ready ==
  {k \in Keys : /\ operations[k].status = "WAITING"
                /\ \A d \in operations[k].dependencies : operations[d].status = "COMPLETED"}

Progress(t) ==
  LET first == IF Ready = {} THEN Len(operations) + 1 ELSE Min(Ready) IN
  /\ thread[t].at = "progress"
  /\ operations' = [k \in Keys |->
        CASE k = first -> [operations[k] EXCEPT !.status = "QUEUED"]
          [] k < first /\ k \in Doomed /\ operations[k].status = "WAITING" ->
               [operations[k] EXCEPT !.status = "CANCELLED"]
          [] OTHER -> operations[k]]
  /\ IF Ready = {} THEN Goto(t, "release") ELSE Hold(t, "submit", first)
  /\ UNCHANGED <<domain, flags, running, retiring, submitted>>

(* Tasks.Submit, outside the mutex; the operation may be cancelled by now. *)
Submit(t) ==
  /\ thread[t].at = "submit"
  /\ submitted' = submitted \cup {thread[t].target}
  /\ Goto(t, "progress")
  /\ UNCHANGED <<operations, domain, flags, running, retiring>>

(* A failed submission only closes admission.                              *)
MutantSubmitThrows(t) ==
  /\ thread[t].at = "submit"
  /\ hasFailure' = (hasFailure \/ operations[thread[t].target].status = "QUEUED")
  /\ Goto(t, "progress")
  /\ UNCHANGED <<operations, domain, closed, sealed, sealCompleted, running, retiring, submitted>>

SubmitThrows(t) ==
  LET k == thread[t].target IN
  /\ thread[t].at = "submit"
  /\ IF operations[k].status = "QUEUED"
     THEN /\ operations' = [operations EXCEPT ![k].status = "FAILED"]
          /\ hasFailure' = TRUE
     ELSE UNCHANGED <<operations, hasFailure>>
  /\ Goto(t, "progress")
  /\ UNCHANGED <<domain, closed, sealed, sealCompleted, running, retiring, submitted>>

(***************************************************************************)
(* ReleaseTerminalFunctions: captures are destroyed outside the mutex.     *)
(***************************************************************************)

Releasable == {k \in Keys : operations[k].status \in Terminal /\ operations[k].function}

Release(t) ==
  /\ thread[t].at = "release" /\ Releasable # {}
  /\ LET k == Min(Releasable) IN
       /\ operations' = [operations EXCEPT ![k].function = FALSE, ![k].isRetiring = TRUE]
       /\ Hold(t, "retire", k)
  /\ retiring' = retiring + 1
  /\ UNCHANGED <<domain, flags, running, submitted>>

(* The count of captures being destroyed is not brought down.              *)
MutantRetired(t) ==
  /\ thread[t].at = "retire"
  /\ operations' = [operations EXCEPT ![thread[t].target].isRetiring = FALSE]
  /\ Goto(t, "release")
  /\ UNCHANGED <<domain, flags, running, retiring, submitted>>

Retired(t) ==
  /\ thread[t].at = "retire"
  /\ operations' = [operations EXCEPT ![thread[t].target].isRetiring = FALSE]
  /\ retiring' = retiring - 1
  /\ Goto(t, "release")
  /\ UNCHANGED <<domain, flags, running, submitted>>

(* Cancel returns without a look at the seal, as Schedule does.            *)
MutantReleased(t) ==
  /\ thread[t].at = "release" /\ Releasable = {}
  /\ CASE thread[t].call \in {"Schedule", "Cancel"} -> Return(t)
       [] thread[t].call = "Stop" -> Goto(t, "wait")
       [] OTHER -> Goto(t, "seal")
  /\ UNCHANGED <<operations, domain, flags, running, retiring, submitted>>

(* Nothing left to release: Schedule returns here, Stop waits, the others  *)
(* go on to CompleteSeal.                                                  *)
Released(t) ==
  /\ thread[t].at = "release" /\ Releasable = {}
  /\ CASE thread[t].call = "Schedule" -> Return(t)
       [] thread[t].call = "Stop" -> Goto(t, "wait")
       [] OTHER -> Goto(t, "seal")
  /\ UNCHANGED <<operations, domain, flags, running, retiring, submitted>>

StopWait(t) ==
  /\ thread[t].at = "wait"
  /\ running = 0 /\ retiring = 0
  /\ Goto(t, "seal")
  /\ UNCHANGED <<operations, domain, flags, running, retiring, submitted>>

(* The owner tokens go first, then OnDrained is called.                    *)
SealDrained ==
  /\ sealed /\ ~sealCompleted
  /\ running = 0 /\ retiring = 0
  /\ \A k \in Keys : ~HoldsAccess(operations[k])

CompleteSeal(t) ==
  /\ thread[t].at = "seal"
  /\ sealCompleted' = (sealCompleted \/ SealDrained)
  /\ domain' = IF SealDrained THEN [d \in Types |-> 0] ELSE domain
  /\ IF thread[t].call = "Stop" THEN Goto(t, "drop") ELSE Return(t)
  /\ UNCHANGED <<operations, closed, sealed, hasFailure, running, retiring, submitted>>

StopDrops(t) ==
  /\ thread[t].at = "drop"
  /\ domain' = [d \in Types |-> 0]
  /\ Return(t)
  /\ UNCHANGED <<operations, flags, running, retiring, submitted>>

(***************************************************************************)
(* Run, on a worker of the executor.                                       *)
(***************************************************************************)

Begin(w, k) ==
  /\ thread[w].at = "idle" /\ k \in submitted
  /\ submitted' = submitted \ {k}
  /\ IF operations[k].status = "QUEUED"
     THEN /\ operations' = [operations EXCEPT ![k].status = "RUNNING", ![k].function = FALSE]
          /\ running' = running + 1
          /\ thread' = [thread EXCEPT ![w].at = "body", ![w].op = k]
     ELSE UNCHANGED <<operations, running, thread>>
  /\ UNCHANGED <<domain, flags, retiring>>

(* The body returned or threw, its captures are gone.                      *)
End(w, failed) ==
  LET k == thread[w].op IN
  /\ thread[w].at = "body"
  /\ operations' = [operations EXCEPT ![k].status = IF failed THEN "FAILED" ELSE "COMPLETED"]
  /\ hasFailure' = (hasFailure \/ failed)
  /\ running' = running - 1
  /\ thread' = [thread EXCEPT ![w] = [at |-> "progress", call |-> "Run",
                                        op |-> 0, key |-> 0, target |-> 0]]
  /\ UNCHANGED <<domain, closed, sealed, sealCompleted, retiring, submitted>>

-----------------------------------------------------------------------------

Call(t) ==
  \/ \E d \in Types, generation \in 1..MaxGeneration : RegisterDomain(t, d, generation)
  \/ \E footprint \in Footprints, dependencies \in SUBSET Known :
        Schedule(t, footprint, dependencies)
  \/ \E k \in Known : Cancel(t, k)
  \/ Seal(t)
  \/ Stop(t)

Step(t) ==
  \/ Progress(t) \/ Submit(t) \/ SubmitThrows(t)
  \/ Release(t) \/ Retired(t) \/ Released(t)
  \/ StopWait(t) \/ CompleteSeal(t) \/ StopDrops(t)

Work(w) ==
  \/ \E k \in Keys : Begin(w, k)
  \/ \E failed \in BOOLEAN : End(w, failed)

Next == (\E t \in Threads : Call(t) \/ Step(t)) \/ (\E w \in Workers : Work(w))

Spec == Init /\ [][Next]_vars

(* The threads keep running, bodies return and the executor runs what it   *)
(* accepted (TaskSystem!EverythingEnds); nobody has to call anything.       *)
Fairness ==
  /\ \A t \in Threads : WF_vars(Step(t))
  /\ \A w \in Workers : WF_vars(Work(w))

FairSpec == Spec /\ Fairness

(***************************************************************************)
(* Properties.                                                             *)
(***************************************************************************)

(* What the variables hold, with the two counters against what they count. *)
TypeOK ==
  /\ Len(operations) <= MaxOperations
  /\ \A k \in Keys :
        /\ operations[k].status \in Statuses
        /\ operations[k].dependencies \subseteq 1..(k - 1)
        /\ operations[k].function \in BOOLEAN /\ operations[k].isRetiring \in BOOLEAN
  /\ domain \in [Types -> 0..MaxGeneration]
  /\ flags \in BOOLEAN \X BOOLEAN \X BOOLEAN \X BOOLEAN
  /\ running = Cardinality({k \in Keys : operations[k].status = "RUNNING"})
  /\ retiring = Cardinality({k \in Keys : operations[k].isRetiring})
  /\ submitted \subseteq Keys
  /\ thread \in [Threads ->
        [at : {"idle", "body", "progress", "submit", "release", "retire", "wait", "seal", "drop"},
         call : {"none", "Schedule", "Cancel", "Seal", "Stop", "Run"},
         op : 0..MaxOperations, key : 0..MaxOperations, target : 0..MaxOperations]]

(* The data a scope stands for, against which Overlaps is judged.          *)
Denotes(scope, element) ==
  CASE scope.kind \in {"WHOLE_STORAGE", "UNKNOWN"} -> TRUE
    [] scope.kind = "RESOURCE" -> element = <<"resource", scope.begin>>
    [] scope.kind = "ENTITY" -> element = <<"index", scope.begin>>
    [] scope.kind = "ENTITY_SET" -> \E e \in scope.elements : element = <<"index", e>>
    [] scope.kind = "CHUNK" ->
         \E e \in scope.begin..(scope.begin + scope.count - 1) : element = <<"index", e>>

Touch(footprints) ==
  UNION {a.scope.elements \cup (a.scope.begin..(a.scope.begin + a.scope.count)) : a \in footprints}

SharesWrittenData(left, right) ==
  \E l \in left, r \in right :
     /\ l.type = r.type
     /\ l.requirement # "READ" \/ r.requirement # "READ"
     /\ \E space \in {"index", "resource"}, e \in Touch(left \cup right) :
           Denotes(l.scope, <<space, e>>) /\ Denotes(r.scope, <<space, e>>)

(* Whether operation k or what it captured may still touch its data.       *)
InUse(k) ==
  \/ operations[k].status \notin Terminal \/ operations[k].function
  \/ \E t \in Threads : thread[t].at = "retire" /\ thread[t].target = k

ConflictsExclude ==
  \A later \in Keys : operations[later].status \in {"QUEUED", "RUNNING"} =>
     \A earlier \in 1..(later - 1) :
        SharesWrittenData(operations[earlier].footprints, operations[later].footprints)
           => ~InUse(earlier)

HeldDomainsAreCurrent ==
  \A k \in Keys : InUse(k) =>
     \A a \in operations[k].footprints : domain[a.type] = a.generation

DrainedIsQuiet ==
  sealCompleted => closed /\ \A k \in Keys : ~InUse(k)

(* While an operation is queued or runs, no earlier operation that shares  *)
(* data with it, one of them writing, holds its access: not even one       *)
(* cancelled whose captures are still being destroyed.  The owner's token  *)
(* of the very generation stays held until then, through replacement of a  *)
(* domain, the end of a seal and Stop; and OnDrained is not called before. *)
AccessIsExclusive == ConflictsExclude /\ HeldDomainsAreCurrent /\ DrainedIsQuiet

(* Every admitted operation gives its access up: it runs or is cancelled   *)
(* and its captures are destroyed, whoever publishes it; and Stop returns. *)
EveryAccessEnds ==
  /\ \A k \in 1..MaxOperations :
        (k \in Keys) ~> (k \in Keys /\ ~InUse(k))
  /\ \A t \in Hosts : (thread[t].call = "Stop") ~> (thread[t].call = "none")

(* "Completion runs once, outside locks, after access and capture          *)
(* retirement" (access_coordinator.h): a sealed coordinator calls          *)
(* OnDrained.                                                              *)
SealDrains == sealed ~> sealCompleted

(* The coordinator's bookkeeping has the shape it should, and keeps        *)
(* conflicting accesses apart.                                             *)
AccessIsSafe == TypeOK /\ AccessIsExclusive

(* No access and no seal hangs.                                            *)
AccessesEnd == EveryAccessEnds /\ SealDrains
=============================================================================
