----------------------- MODULE AccessCoordinatorProofs -----------------------
(***************************************************************************)
(* Proofs about the access coordinator, for every number of threads,        *)
(* operations and generations and every way of declaring accesses: its      *)
(* bookkeeping is right, and conflicting accesses exclude each other.       *)
(***************************************************************************)
EXTENDS AccessCoordinator, FiniteSetTheorems, SequenceTheorems, WellFoundedInduction, TLAPS

Scopes == {a.scope : a \in UNION Footprints}
Accesses == [type : Types, generation : 1 .. MaxGeneration, scope : Scopes,
             requirement : Requirements]
OperationRecord == [footprints : SUBSET Accesses, function : BOOLEAN, status : Statuses,
                    dependencies : SUBSET Nat, isRetiring : BOOLEAN]
Places == {"idle", "body", "progress", "submit", "release", "retire", "wait", "seal", "drop"}
CallNames == {"none", "Schedule", "Cancel", "Seal", "Stop", "Run"}
ThreadRecord == [at : Places, call : CallNames, op : 0 .. MaxOperations,
                 key : 0 .. MaxOperations, target : 0 .. MaxOperations]

OperationsType ==
  /\ operations \in Seq(OperationRecord)
  /\ Len(operations) <= MaxOperations
  /\ \A k \in Keys : operations[k].dependencies \subseteq 1 .. (k - 1)

StateType ==
  /\ domain \in [Types -> 0 .. MaxGeneration]
  /\ closed \in BOOLEAN /\ sealed \in BOOLEAN /\ sealCompleted \in BOOLEAN
  /\ hasFailure \in BOOLEAN
  /\ submitted \subseteq Keys
  /\ thread \in [Threads -> ThreadRecord]

(* A function is kept until the body is entered or the captures are destroyed,
   and an operation that completed keeps nothing. *)
FunctionsFollowStatus ==
  \A k \in Keys :
     /\ operations[k].status \in {"WAITING", "QUEUED"} =>
           operations[k].function /\ ~operations[k].isRetiring
     /\ operations[k].status \in {"RUNNING", "COMPLETED"} =>
           ~operations[k].function /\ ~operations[k].isRetiring
     /\ operations[k].isRetiring => ~operations[k].function

CountersAreExact ==
  /\ running = Cardinality({k \in Keys : operations[k].status = "RUNNING"})
  /\ retiring = Cardinality({k \in Keys : operations[k].isRetiring})

(* The running operation of a thread is its own, and so is the one whose
   captures it destroys. *)
BodiesAreOwned ==
  /\ \A t \in Threads :
        /\ thread[t].op # 0 => thread[t].op \in Keys /\ operations[thread[t].op].status = "RUNNING"
        /\ thread[t].at = "body" => thread[t].op # 0
        /\ thread[t].at \in {"submit", "retire"} => thread[t].target \in Keys
  /\ \A t, u \in Threads : thread[t].op # 0 /\ thread[t].op = thread[u].op => t = u

Retires(t, k) == thread[t].at = "retire" /\ thread[t].target = k

CapturesAreOwned ==
  /\ \A t \in Threads, k \in Keys : Retires(t, k) => operations[k].isRetiring
  /\ \A k \in Keys : operations[k].isRetiring => \E t \in Threads : Retires(t, k)
  /\ \A t, u \in Threads : \A k \in Keys : Retires(t, k) /\ Retires(u, k) => t = u

(* An operation that still holds its access is a dependency of every later
   operation it shares written data with, and nothing is queued before all its
   dependencies have completed. *)
ConflictsAreDependencies ==
  \A later \in Keys : \A earlier \in 1 .. (later - 1) :
     /\ HoldsAccess(operations[earlier])
     /\ SharesWrittenData(operations[earlier].footprints, operations[later].footprints)
     => earlier \in operations[later].dependencies

QueuedIsReady ==
  \A k \in Keys : operations[k].status \in {"QUEUED", "RUNNING"} =>
     \A d \in operations[k].dependencies : operations[d].status = "COMPLETED"

AccessesAreOfDomain ==
  \A k \in Keys : HoldsAccess(operations[k]) =>
     \A a \in operations[k].footprints : domain[a.type] = a.generation

(* Closing is for good: a thread that stops the coordinator leaves nothing to be
   started, and when it has seen the counters at zero nothing holds access. *)
NothingHeld == \A k \in Keys : ~HoldsAccess(operations[k])

StopIsFinal ==
  \A t \in Threads :
     /\ thread[t].call = "Stop" =>
           closed /\ \A k \in Keys : operations[k].status \notin {"WAITING", "QUEUED"}
     /\ thread[t].at \in {"wait", "drop"} => thread[t].call = "Stop"
     /\ thread[t].at = "wait" => \A k \in Keys : ~operations[k].function
     /\ thread[t].at = "drop" => NothingHeld
     /\ thread[t].at = "seal" /\ thread[t].call = "Stop" => NothingHeld

SealIsFinal ==
  /\ sealed => closed
  /\ sealCompleted => closed /\ NothingHeld

AccessInv ==
  /\ OperationsType
  /\ StateType
  /\ FunctionsFollowStatus
  /\ CountersAreExact
  /\ BodiesAreOwned
  /\ CapturesAreOwned
  /\ ConflictsAreDependencies
  /\ QueuedIsReady
  /\ AccessesAreOfDomain
  /\ StopIsFinal
  /\ SealIsFinal

-----------------------------------------------------------------------------
(* Scopes: what Overlaps misses, no two accesses can touch. *)

LEMMA ScopesAreNormal ==
  ASSUME NEW scope \in Scopes
  PROVE  /\ scope.begin \in Nat /\ scope.count \in Nat /\ scope.elements \in SUBSET Nat
         /\ scope.kind \in Indexed \cup {"WHOLE_STORAGE", "RESOURCE", "UNKNOWN"}
         /\ scope.kind = "CHUNK" => scope.count > 0
BY FootprintsAssumption DEF Scopes, Normal

(* An index that a scope of indices denotes. *)
LEMMA DenotedIndex ==
  ASSUME NEW scope \in Scopes, NEW e, scope.kind \in Indexed,
         NEW space \in {"index", "resource"}, Denotes(scope, <<space, e>>)
  PROVE  /\ Contains(scope, e)
         /\ scope.kind # "CHUNK" => e \in Listed(scope)
         /\ scope.kind = "CHUNK" => e \in Nat /\ scope.begin <= e /\ e < scope.begin + scope.count
<1>1. CASE scope.kind = "ENTITY"
  BY <1>1 DEF Denotes, Contains, Listed
<1>2. CASE scope.kind = "ENTITY_SET"
  BY <1>2 DEF Denotes, Contains, Listed
<1>3. CASE scope.kind = "CHUNK"
  <2>1. PICK i \in scope.begin .. (scope.begin + scope.count - 1) : <<space, e>> = <<"index", i>>
    BY <1>3 DEF Denotes
  <2>2. e \in Nat /\ scope.begin <= e /\ e < scope.begin + scope.count
    BY <2>1, ScopesAreNormal
  <2>3. Contains(scope, e)
    BY <1>3, <2>2, ScopesAreNormal DEF Contains
  <2>. QED
    BY <1>3, <2>2, <2>3
<1>. QED
  BY <1>1, <1>2, <1>3 DEF Indexed

LEMMA DenotedBothOverlap ==
  ASSUME NEW left \in Scopes, NEW right \in Scopes, NEW e,
         NEW space \in {"index", "resource"},
         Denotes(left, <<space, e>>), Denotes(right, <<space, e>>)
  PROVE  Overlaps(left, right)
<1>1. CASE {left.kind, right.kind} \cap {"WHOLE_STORAGE", "UNKNOWN"} # {}
  BY <1>1 DEF Overlaps
<1>2. CASE left.kind = "RESOURCE" /\ right.kind = "RESOURCE"
  <2>1. <<space, e>> = <<"resource", left.begin>> /\ <<space, e>> = <<"resource", right.begin>>
    BY <1>2 DEF Denotes
  <2>2. left.begin = right.begin
    BY <2>1
  <2>. QED
    BY <1>2, <2>2 DEF Overlaps
<1>3. CASE {left.kind, right.kind} \subseteq Indexed \cup {"RESOURCE"} /\ left.kind # right.kind
           /\ "RESOURCE" \in {left.kind, right.kind}
  BY <1>3 DEF Overlaps
<1>4. CASE left.kind \in Indexed /\ right.kind \in Indexed
  <2>1. /\ Contains(left, e) /\ Contains(right, e)
        /\ left.kind # "CHUNK" => e \in Listed(left)
        /\ right.kind # "CHUNK" => e \in Listed(right)
        /\ left.kind = "CHUNK" =>
              e \in Nat /\ left.begin <= e /\ e < left.begin + left.count
        /\ right.kind = "CHUNK" =>
              e \in Nat /\ right.begin <= e /\ e < right.begin + right.count
    BY <1>4, DenotedIndex
  <2>2. CASE left.kind # "CHUNK" \/ right.kind # "CHUNK"
    BY <1>4, <2>1, <2>2 DEF Overlaps
  <2>3. CASE left.kind = "CHUNK" /\ right.kind = "CHUNK"
    <3>1. left.begin < right.begin + right.count /\ right.begin < left.begin + left.count
      BY <2>1, <2>3, ScopesAreNormal
    <3>. QED
      BY <2>3, <3>1 DEF Overlaps
  <2>. QED
    BY <2>2, <2>3
<1>. QED
  BY <1>1, <1>2, <1>3, <1>4, ScopesAreNormal

(* Two accesses of the current generations that share written data clash. *)
LEMMA SharedDataClashes ==
  ASSUME StateType, NEW left \in SUBSET Accesses, NEW right \in SUBSET Accesses,
         \A a \in left : domain[a.type] = a.generation,
         \A a \in right : domain[a.type] = a.generation,
         SharesWrittenData(left, right)
  PROVE  \E l \in left, r \in right : Clash(l, r)
<1>1. PICK l \in left, r \in right :
        /\ l.type = r.type
        /\ l.requirement # "READ" \/ r.requirement # "READ"
        /\ \E space \in {"index", "resource"}, e \in Touch(left \cup right) :
              Denotes(l.scope, <<space, e>>) /\ Denotes(r.scope, <<space, e>>)
  BY DEF SharesWrittenData
<1>2. l.scope \in Scopes /\ r.scope \in Scopes
  BY DEF Accesses
<1>3. Overlaps(l.scope, r.scope)
  BY <1>1, <1>2, DenotedBothOverlap
<1>4. Clash(l, r)
  BY <1>1, <1>3 DEF Clash
<1>. QED
  BY <1>4

-----------------------------------------------------------------------------
(* What a step may do to an operation. *)

(* Its declaration stays, and its status and its captures go one way. *)
Moves(old, new) ==
  /\ new.footprints = old.footprints /\ new.dependencies = old.dependencies
  /\ \/ new = old
     \/ /\ old.status = "WAITING" /\ new.status = "QUEUED"
        /\ new.function = old.function /\ new.isRetiring = old.isRetiring
     \/ /\ old.status \in {"WAITING", "QUEUED"} /\ new.status \in {"CANCELLED", "FAILED"}
        /\ new.function = old.function /\ new.isRetiring = old.isRetiring
     \/ /\ old.status = "QUEUED" /\ new.status = "RUNNING"
        /\ new.function = FALSE /\ new.isRetiring = old.isRetiring
     \/ /\ old.status = "RUNNING" /\ new.status \in {"COMPLETED", "FAILED"}
        /\ new.function = old.function /\ new.isRetiring = old.isRetiring
     \/ /\ old.status \in Terminal /\ new.status = old.status
        /\ old.function /\ new.function = FALSE /\ new.isRetiring = TRUE
     \/ /\ old.status \in Terminal /\ new.status = old.status
        /\ new.function = old.function /\ old.isRetiring /\ new.isRetiring = FALSE

Advances ==
  /\ operations' \in Seq(OperationRecord)
  /\ Len(operations') = Len(operations)
  /\ \A k \in Keys :
        /\ Moves(operations[k], operations'[k])
        /\ operations[k].status = "WAITING" /\ operations'[k].status = "QUEUED" =>
              \A d \in operations[k].dependencies : operations[d].status = "COMPLETED"

LEMMA KeysAreNumbers ==
  ASSUME OperationsType
  PROVE  /\ Len(operations) \in Nat
         /\ DOMAIN operations = Keys /\ Keys \subseteq Nat \ {0}
         /\ \A k \in Keys : operations[k] \in OperationRecord
         /\ \A k \in Keys : k \in 1 .. MaxOperations
         /\ \A k \in Keys : \A d \in operations[k].dependencies : d \in Keys /\ d < k
<1>1. Len(operations) \in Nat /\ DOMAIN operations = Keys
  BY LenProperties DEF OperationsType, Keys
<1>2. Len(operations) <= MaxOperations
  BY DEF OperationsType
<1>3. \A k \in Keys : operations[k] \in OperationRecord
  BY <1>1, ElementOfSeq DEF OperationsType, Keys
<1>4. \A k \in Keys : \A d \in operations[k].dependencies : d \in Keys /\ d < k
  BY <1>1 DEF OperationsType, Keys
<1>. QED
  BY <1>1, <1>2, <1>3, <1>4, BoundsAssumption DEF Keys

(* What becomes of one operation. *)
LEMMA MovesKeep ==
  ASSUME NEW old \in OperationRecord, NEW new \in OperationRecord, Moves(old, new),
         old.status \in {"WAITING", "QUEUED"} => old.function /\ ~old.isRetiring,
         old.status \in {"RUNNING", "COMPLETED"} => ~old.function /\ ~old.isRetiring,
         old.isRetiring => ~old.function
  PROVE  /\ new.footprints = old.footprints /\ new.dependencies = old.dependencies
         /\ new.status \in {"WAITING", "QUEUED"} => new.function /\ ~new.isRetiring
         /\ new.status \in {"RUNNING", "COMPLETED"} => ~new.function /\ ~new.isRetiring
         /\ new.isRetiring => ~new.function
         /\ new.function => old.function
         /\ HoldsAccess(new) => HoldsAccess(old)
         /\ old.status = "COMPLETED" => new.status = "COMPLETED"
         /\ new.status = "WAITING" => old.status = "WAITING"
         /\ new.status = "QUEUED" => old.status \in {"WAITING", "QUEUED"}
         /\ new.status = "RUNNING" => old.status \in {"QUEUED", "RUNNING"}
         /\ old.status \in Terminal => new.status = old.status
BY DEF Moves, HoldsAccess, Terminal, OperationRecord, Statuses

LEMMA AdvancesKeep ==
  ASSUME OperationsType, FunctionsFollowStatus, Advances
  PROVE  /\ OperationsType' /\ FunctionsFollowStatus'
         /\ Keys' = Keys
         /\ ConflictsAreDependencies => ConflictsAreDependencies'
         /\ QueuedIsReady => QueuedIsReady'
         /\ NothingHeld => NothingHeld'
         /\ \A k \in Keys :
               /\ operations'[k] \in OperationRecord
               /\ operations'[k].footprints = operations[k].footprints
               /\ operations'[k].dependencies = operations[k].dependencies
               /\ HoldsAccess(operations'[k]) => HoldsAccess(operations[k])
               /\ operations'[k].function => operations[k].function
               /\ operations[k].status = "COMPLETED" => operations'[k].status = "COMPLETED"
               /\ operations'[k].status = "WAITING" => operations[k].status = "WAITING"
               /\ operations'[k].status = "QUEUED" => operations[k].status \in {"WAITING", "QUEUED"}
<1>1. Keys' = Keys
  BY DEF Advances, Keys
<1>2. \A k \in Keys : operations'[k] \in OperationRecord
  BY KeysAreNumbers, ElementOfSeq DEF Advances, Keys
<1>3. \A k \in Keys :
        /\ operations'[k].footprints = operations[k].footprints
        /\ operations'[k].dependencies = operations[k].dependencies
        /\ operations'[k].status \in {"WAITING", "QUEUED"} =>
              operations'[k].function /\ ~operations'[k].isRetiring
        /\ operations'[k].status \in {"RUNNING", "COMPLETED"} =>
              ~operations'[k].function /\ ~operations'[k].isRetiring
        /\ operations'[k].isRetiring => ~operations'[k].function
        /\ operations'[k].function => operations[k].function
        /\ HoldsAccess(operations'[k]) => HoldsAccess(operations[k])
        /\ operations[k].status = "COMPLETED" => operations'[k].status = "COMPLETED"
        /\ operations'[k].status = "WAITING" => operations[k].status = "WAITING"
        /\ operations'[k].status = "QUEUED" => operations[k].status \in {"WAITING", "QUEUED"}
        /\ operations'[k].status = "RUNNING" => operations[k].status \in {"QUEUED", "RUNNING"}
  <2>. TAKE k \in Keys
  <2>1. Moves(operations[k], operations'[k])
    BY DEF Advances
  <2>2. /\ operations[k].status \in {"WAITING", "QUEUED"} =>
              operations[k].function /\ ~operations[k].isRetiring
        /\ operations[k].status \in {"RUNNING", "COMPLETED"} =>
              ~operations[k].function /\ ~operations[k].isRetiring
        /\ operations[k].isRetiring => ~operations[k].function
    BY DEF FunctionsFollowStatus
  <2>3. operations[k] \in OperationRecord /\ operations'[k] \in OperationRecord
    BY <1>2, KeysAreNumbers
  <2>4. PICK old, new : old = operations[k] /\ new = operations'[k]
    OBVIOUS
  <2>. QED
    BY <2>1, <2>2, <2>3, <2>4, MovesKeep
<1>4. OperationsType'
  <2>1. \A k \in Keys' : operations'[k].dependencies \subseteq 1 .. (k - 1)
    BY <1>1, <1>3 DEF OperationsType
  <2>. QED
    BY <2>1 DEF OperationsType, Advances
<1>5. FunctionsFollowStatus'
  BY <1>1, <1>3 DEF FunctionsFollowStatus
<1>6. ASSUME ConflictsAreDependencies
      PROVE  ConflictsAreDependencies'
  <2>1. ASSUME NEW later \in Keys, NEW earlier \in 1 .. (later - 1),
               HoldsAccess(operations'[earlier]),
               SharesWrittenData(operations'[earlier].footprints, operations'[later].footprints)
        PROVE  earlier \in operations'[later].dependencies
    <3>1. earlier \in Keys
      BY KeysAreNumbers DEF Keys
    <3>2. operations'[earlier].footprints = operations[earlier].footprints
      BY <1>3, <3>1
    <3>3. operations'[later].footprints = operations[later].footprints
      BY <1>3
    <3>4. HoldsAccess(operations[earlier])
      BY <2>1, <3>1, <1>3
    <3>5. earlier \in operations[later].dependencies
      BY <1>6, <2>1, <3>2, <3>3, <3>4 DEF ConflictsAreDependencies
    <3>. QED
      BY <3>5, <1>3
  <2>2. \A later \in Keys : \A earlier \in 1 .. (later - 1) :
           (/\ HoldsAccess(operations'[earlier])
            /\ SharesWrittenData(operations'[earlier].footprints, operations'[later].footprints))
           => earlier \in operations'[later].dependencies
    BY <2>1
  <2>3. \A later \in Keys' : \A earlier \in 1 .. (later - 1) :
           (/\ HoldsAccess(operations'[earlier])
            /\ SharesWrittenData(operations'[earlier].footprints, operations'[later].footprints))
           => earlier \in operations'[later].dependencies
    BY <2>2, <1>1
  <2>. QED
    BY <2>3 DEF ConflictsAreDependencies
<1>7. ASSUME QueuedIsReady
      PROVE  QueuedIsReady'
  <2>1. ASSUME NEW k \in Keys, operations'[k].status \in {"QUEUED", "RUNNING"},
               NEW d \in operations'[k].dependencies
        PROVE  operations'[d].status = "COMPLETED"
    <3>1. d \in operations[k].dependencies /\ d \in Keys
      BY <1>3, KeysAreNumbers
    <3>2. operations[d].status = "COMPLETED"
      BY <1>3, <1>7, <2>1, <3>1 DEF QueuedIsReady, Advances
    <3>. QED
      BY <1>3, <3>1, <3>2
  <2>. QED
    BY <1>1, <2>1 DEF QueuedIsReady
<1>8. NothingHeld => NothingHeld'
  BY <1>1, <1>3 DEF NothingHeld
<1>. QED
  BY <1>1, <1>2, <1>3, <1>4, <1>5, <1>6, <1>7, <1>8

(* A step that changes one operation. *)
LEMMA OneMoves ==
  ASSUME OperationsType, NEW k \in Keys, NEW new \in OperationRecord,
         operations' = [operations EXCEPT ![k] = new],
         Moves(operations[k], new),
         ~(operations[k].status = "WAITING" /\ new.status = "QUEUED")
  PROVE  /\ Advances
         /\ operations'[k] = new
         /\ \A j \in Keys \ {k} : operations'[j] = operations[j]
<1>1. DOMAIN operations = Keys /\ Len(operations) \in Nat /\ Keys = 1 .. Len(operations)
  BY KeysAreNumbers DEF Keys
<1>2. operations' \in Seq(OperationRecord) /\ Len(operations') = Len(operations)
  BY <1>1, ExceptSeq DEF OperationsType
<1>3. operations'[k] = new /\ \A j \in Keys \ {k} : operations'[j] = operations[j]
  BY <1>1
<1>4. \A j \in Keys :
        /\ Moves(operations[j], operations'[j])
        /\ ~(operations[j].status = "WAITING" /\ operations'[j].status = "QUEUED")
  BY <1>3 DEF Moves
<1>. QED
  BY <1>2, <1>3, <1>4 DEF Advances

LEMMA NoneMoves ==
  ASSUME OperationsType, operations' = operations
  PROVE  Advances /\ Keys' = Keys
BY DEF Advances, OperationsType, Moves, Keys

(* A step that changes the record of one thread. *)
ThreadSteps(t) ==
  /\ thread'[t] \in ThreadRecord
  /\ thread' = [thread EXCEPT ![t] = thread'[t]]

LEMMA ThreadsStay ==
  ASSUME StateType, NEW t \in Threads, ThreadSteps(t)
  PROVE  /\ thread' \in [Threads -> ThreadRecord]
         /\ \A u \in Threads \ {t} : thread'[u] = thread[u]
BY DEF StateType, ThreadSteps

LEMMA GotoSteps ==
  ASSUME StateType, NEW t \in Threads, NEW at \in Places, Goto(t, at)
  PROVE  /\ ThreadSteps(t)
         /\ thread'[t].at = at /\ thread'[t].target = 0
         /\ thread'[t].call = thread[t].call /\ thread'[t].op = thread[t].op
<1>1. thread[t] \in ThreadRecord
  BY DEF StateType
<1>2. thread'[t] = [at |-> at, call |-> thread[t].call, op |-> thread[t].op,
                    key |-> thread[t].key, target |-> 0]
  BY <1>1 DEF StateType, Goto, ThreadRecord
<1>3. thread'[t] \in ThreadRecord
  BY <1>1, <1>2, BoundsAssumption DEF ThreadRecord
<1>4. thread' = [thread EXCEPT ![t] = thread'[t]]
  BY <1>1 DEF StateType, Goto
<1>. QED
  BY <1>2, <1>3, <1>4 DEF ThreadSteps

LEMMA ReturnSteps ==
  ASSUME StateType, NEW t \in Threads, Return(t)
  PROVE  /\ ThreadSteps(t)
         /\ thread'[t].at \in {"idle", "body"}
         /\ thread'[t].at = "body" => thread'[t].op # 0
         /\ thread'[t].call = "none" /\ thread'[t].op = thread[t].op
<1>1. thread[t] \in ThreadRecord
  BY DEF StateType
<1>2. thread'[t] = [at |-> Home(t), call |-> "none", op |-> thread[t].op,
                    key |-> 0, target |-> 0]
  BY <1>1 DEF StateType, Return, ThreadRecord
<1>3. Home(t) \in {"idle", "body"} /\ (Home(t) = "body" => thread[t].op # 0)
  BY DEF Home
<1>4. thread'[t] \in ThreadRecord
  BY <1>1, <1>2, <1>3, BoundsAssumption DEF ThreadRecord, Places, CallNames
<1>5. thread' = [thread EXCEPT ![t] = thread'[t]]
  BY <1>1 DEF StateType, Return
<1>. QED
  BY <1>2, <1>3, <1>4, <1>5 DEF ThreadSteps

LEMMA EnterSteps ==
  ASSUME StateType, NEW t \in Threads, NEW call \in CallNames, NEW at \in Places,
         Enter(t, call, at)
  PROVE  /\ ThreadSteps(t)
         /\ thread'[t].at = at /\ thread'[t].call = call /\ thread'[t].op = thread[t].op
<1>1. thread[t] \in ThreadRecord
  BY DEF StateType
<1>2. thread'[t] = [at |-> at, call |-> call, op |-> thread[t].op,
                    key |-> thread[t].key, target |-> thread[t].target]
  BY <1>1 DEF StateType, Enter, ThreadRecord
<1>3. thread'[t] \in ThreadRecord
  BY <1>1, <1>2 DEF ThreadRecord
<1>4. thread' = [thread EXCEPT ![t] = thread'[t]]
  BY <1>1 DEF StateType, Enter
<1>. QED
  BY <1>2, <1>3, <1>4 DEF ThreadSteps

LEMMA HoldSteps ==
  ASSUME StateType, NEW t \in Threads, NEW at \in Places, NEW k \in 1 .. MaxOperations,
         Hold(t, at, k)
  PROVE  /\ ThreadSteps(t)
         /\ thread'[t].at = at /\ thread'[t].target = k
         /\ thread'[t].call = thread[t].call /\ thread'[t].op = thread[t].op
<1>1. thread[t] \in ThreadRecord
  BY DEF StateType
<1>2. thread'[t] = [at |-> at, call |-> thread[t].call, op |-> thread[t].op,
                    key |-> thread[t].key, target |-> k]
  BY <1>1 DEF StateType, Hold, ThreadRecord
<1>3. thread'[t] \in ThreadRecord
  BY <1>1, <1>2, BoundsAssumption DEF ThreadRecord
<1>4. thread' = [thread EXCEPT ![t] = thread'[t]]
  BY <1>1 DEF StateType, Hold
<1>. QED
  BY <1>2, <1>3, <1>4 DEF ThreadSteps

LEMMA NoThreadSteps ==
  ASSUME StateType, NEW t \in Threads, thread' = thread
  PROVE  ThreadSteps(t)
BY DEF StateType, ThreadSteps

-----------------------------------------------------------------------------
(* What most steps keep: they neither begin nor end a body or a destruction. *)

Plain(t) ==
  /\ Advances
  /\ \A k \in Keys :
        /\ operations[k].status = "RUNNING" <=> operations'[k].status = "RUNNING"
        /\ operations[k].isRetiring <=> operations'[k].isRetiring
  /\ running' = running /\ retiring' = retiring
  /\ ThreadSteps(t)
  /\ thread'[t].op = thread[t].op
  /\ thread[t].at # "retire" /\ thread'[t].at # "retire"
  /\ thread'[t].at = "body" => thread'[t].op # 0
  /\ thread'[t].at = "submit" => thread'[t].target \in Keys

LEMMA PlainKeeps ==
  ASSUME AccessInv, NEW t \in Threads, Plain(t)
  PROVE  /\ OperationsType' /\ FunctionsFollowStatus'
         /\ ConflictsAreDependencies' /\ QueuedIsReady'
         /\ CountersAreExact' /\ BodiesAreOwned' /\ CapturesAreOwned'
<1>. USE DEF AccessInv
<1>1. /\ OperationsType' /\ FunctionsFollowStatus' /\ Keys' = Keys
      /\ ConflictsAreDependencies' /\ QueuedIsReady'
  BY AdvancesKeep DEF Plain
<1>2. CountersAreExact'
  <2>1. {k \in Keys : operations'[k].status = "RUNNING"} =
           {k \in Keys : operations[k].status = "RUNNING"}
    BY DEF Plain
  <2>2. {k \in Keys : operations'[k].isRetiring} = {k \in Keys : operations[k].isRetiring}
    BY DEF Plain
  <2>3. /\ running' = Cardinality({k \in Keys : operations'[k].status = "RUNNING"})
        /\ retiring' = Cardinality({k \in Keys : operations'[k].isRetiring})
    BY <2>1, <2>2 DEF CountersAreExact, Plain
  <2>. QED
    BY <1>1, <2>3 DEF CountersAreExact
<1>3. /\ \A u \in Threads \ {t} : thread'[u] = thread[u]
      /\ \A u \in Threads : thread'[u].op = thread[u].op
  BY ThreadsStay DEF Plain
<1>4. BodiesAreOwned'
  <2>1. \A u \in Threads :
          /\ thread'[u].op # 0 =>
                thread'[u].op \in Keys /\ operations'[thread'[u].op].status = "RUNNING"
          /\ thread'[u].at = "body" => thread'[u].op # 0
          /\ thread'[u].at \in {"submit", "retire"} => thread'[u].target \in Keys
    BY <1>3 DEF BodiesAreOwned, Plain
  <2>2. \A u, v \in Threads : thread'[u].op # 0 /\ thread'[u].op = thread'[v].op => u = v
    BY <1>3 DEF BodiesAreOwned
  <2>. QED
    BY <1>1, <2>1, <2>2 DEF BodiesAreOwned
<1>5. CapturesAreOwned'
  <2>1. \A u \in Threads, k \in Keys :
           (thread'[u].at = "retire" /\ thread'[u].target = k) <=> Retires(u, k)
    BY <1>3 DEF Retires, Plain
  <2>2. \A k \in Keys : operations[k].isRetiring <=> operations'[k].isRetiring
    BY DEF Plain
  <2>3. /\ \A u \in Threads, k \in Keys :
              (thread'[u].at = "retire" /\ thread'[u].target = k) => operations'[k].isRetiring
        /\ \A k \in Keys : operations'[k].isRetiring =>
              \E u \in Threads : thread'[u].at = "retire" /\ thread'[u].target = k
        /\ \A u, v \in Threads : \A k \in Keys :
              /\ thread'[u].at = "retire" /\ thread'[u].target = k
              /\ thread'[v].at = "retire" /\ thread'[v].target = k
              => u = v
    BY <2>1, <2>2 DEF CapturesAreOwned
  <2>. QED
    BY <1>1, <2>3 DEF CapturesAreOwned, Retires
<1>. QED
  BY <1>1, <1>2, <1>4, <1>5

LEMMA DomainStays ==
  ASSUME AccessInv, Advances, domain' = domain
  PROVE  AccessesAreOfDomain'
<1>1. /\ Keys' = Keys
      /\ \A k \in Keys : /\ operations'[k].footprints = operations[k].footprints
                         /\ HoldsAccess(operations'[k]) => HoldsAccess(operations[k])
  BY AdvancesKeep DEF AccessInv
<1>. QED
  BY <1>1 DEF AccessInv, AccessesAreOfDomain

(* The promises of Stop and of Seal, seen from the other threads. *)
Stopped ==
  closed' /\ \A k \in Keys : operations'[k].status \notin {"WAITING", "QUEUED"}

LEMMA StopStays ==
  ASSUME AccessInv, Advances, NEW t \in Threads, ThreadSteps(t), closed => closed',
         thread'[t].call = "Stop" => Stopped,
         thread'[t].at \in {"wait", "drop"} => thread'[t].call = "Stop",
         thread'[t].at = "wait" => \A k \in Keys : ~operations[k].function,
         thread'[t].at = "drop" => NothingHeld,
         thread'[t].at = "seal" /\ thread'[t].call = "Stop" => NothingHeld
  PROVE  StopIsFinal'
<1>1. /\ Keys' = Keys
      /\ NothingHeld => NothingHeld'
      /\ \A k \in Keys :
           /\ operations'[k].function => operations[k].function
           /\ operations'[k].status = "WAITING" => operations[k].status = "WAITING"
           /\ operations'[k].status = "QUEUED" => operations[k].status \in {"WAITING", "QUEUED"}
  BY AdvancesKeep DEF AccessInv
<1>2. \A u \in Threads \ {t} : thread'[u] = thread[u]
  BY ThreadsStay DEF AccessInv
<1>3. ASSUME NEW u \in Threads
      PROVE  /\ thread'[u].call = "Stop" => Stopped
             /\ thread'[u].at \in {"wait", "drop"} => thread'[u].call = "Stop"
             /\ thread'[u].at = "wait" => \A k \in Keys : ~operations'[k].function
             /\ thread'[u].at = "drop" => NothingHeld'
             /\ thread'[u].at = "seal" /\ thread'[u].call = "Stop" => NothingHeld'
  <2>1. CASE u = t
    BY <1>1, <2>1
  <2>2. CASE u # t
    <3>1. /\ thread[u].call = "Stop" =>
                closed /\ \A k \in Keys : operations[k].status \notin {"WAITING", "QUEUED"}
          /\ thread[u].at \in {"wait", "drop"} => thread[u].call = "Stop"
          /\ thread[u].at = "wait" => \A k \in Keys : ~operations[k].function
          /\ thread[u].at = "drop" => NothingHeld
          /\ thread[u].at = "seal" /\ thread[u].call = "Stop" => NothingHeld
      BY DEF AccessInv, StopIsFinal
    <3>2. thread'[u] = thread[u]
      BY <1>2, <2>2
    <3>3. thread'[u].call = "Stop" => Stopped
      BY <1>1, <3>1, <3>2 DEF Stopped
    <3>. QED
      BY <1>1, <3>1, <3>2, <3>3
  <2>. QED
    BY <2>1, <2>2
<1>. QED
  BY <1>1, <1>3 DEF StopIsFinal, Stopped

LEMMA StopFollows ==
  ASSUME AccessInv, Advances, NEW t \in Threads, closed' = closed,
         thread'[t].call = thread[t].call, thread'[t].call = "Stop"
  PROVE  Stopped
<1>1. closed /\ \A k \in Keys : operations[k].status \notin {"WAITING", "QUEUED"}
  BY DEF AccessInv, StopIsFinal
<1>2. \A k \in Keys :
        /\ operations'[k].status = "WAITING" => operations[k].status = "WAITING"
        /\ operations'[k].status = "QUEUED" => operations[k].status \in {"WAITING", "QUEUED"}
  BY AdvancesKeep DEF AccessInv
<1>. QED
  BY <1>1, <1>2 DEF Stopped

LEMMA SealStays ==
  ASSUME AccessInv, Advances, closed => closed', sealed' => closed',
         sealCompleted' => sealCompleted \/ (closed' /\ NothingHeld)
  PROVE  SealIsFinal'
<1>1. NothingHeld => NothingHeld'
  BY AdvancesKeep DEF AccessInv
<1>. QED
  BY <1>1 DEF AccessInv, SealIsFinal

-----------------------------------------------------------------------------
(* Numbers and sequences. *)

(* A set of numbers has a smallest one, the one that Min denotes. *)
LEMMA SmallestIsMin ==
  ASSUME NEW T \in SUBSET Nat, T # {}
  PROVE  Min(T) \in T /\ \A y \in T : Min(T) <= y
<1>. DEFINE R == {ss \in Nat \X Nat : ss[1] < ss[2]}
<1>1. IsWellFoundedOn(R, Nat)
  BY NatLessThanWellFounded, Zenon DEF OpToRel
<1>2. \E x \in T : \A y \in T : ~ (<<y, x>> \in R)
  <2>. HIDE DEF R
  <2>. QED BY <1>1, WFMin
<1>3. PICK x \in T : \A y \in T : ~ (<<y, x>> \in R)
  BY <1>2
<1>4. ASSUME NEW y \in T, y < x
      PROVE  <<y, x>> \in R
  BY <1>4
<1>. HIDE DEF R
<1>5. \A y \in T : ~ (y < x)
  BY <1>3, <1>4
<1>6. \E w \in T : \A y \in T : w <= y
  BY <1>5
<1>. QED
  BY <1>6 DEF Min

(* A function on an initial segment of the numbers is a sequence. *)
LEMMA SegmentIsSeq ==
  ASSUME NEW S, NEW n \in Nat, NEW f \in [1 .. n -> S]
  PROVE  f \in Seq(S) /\ Len(f) = n /\ DOMAIN f = 1 .. n
<1>1. f \in Seq(S)
  BY SeqDef
<1>. QED
  BY <1>1, LenProperties

-----------------------------------------------------------------------------
(* Each step of the coordinator keeps the invariant. *)

LEMMA AccessInitially ==
  ASSUME Init
  PROVE  AccessInv
<1>1. Len(operations) = 0 /\ Keys = {} /\ operations \in Seq(OperationRecord)
  BY EmptySeq DEF Init, Keys
<1>2. OperationsType
  BY <1>1, BoundsAssumption DEF OperationsType
<1>3. StateType
  <2>1. thread \in [Threads -> ThreadRecord]
    BY BoundsAssumption DEF Init, ThreadRecord, Places, CallNames
  <2>2. domain \in [Types -> 0 .. MaxGeneration]
    BY BoundsAssumption DEF Init
  <2>. QED
    BY <2>1, <2>2 DEF Init, StateType
<1>4. CountersAreExact
  BY <1>1, FS_EmptySet DEF Init, CountersAreExact
<1>5. /\ FunctionsFollowStatus /\ ConflictsAreDependencies /\ QueuedIsReady
      /\ AccessesAreOfDomain
  BY <1>1 DEF FunctionsFollowStatus, ConflictsAreDependencies, QueuedIsReady, AccessesAreOfDomain
<1>6. BodiesAreOwned /\ CapturesAreOwned /\ StopIsFinal
  BY <1>1 DEF Init, BodiesAreOwned, CapturesAreOwned, Retires, StopIsFinal
<1>7. SealIsFinal
  BY DEF Init, SealIsFinal
<1>. QED
  BY <1>2, <1>3, <1>4, <1>5, <1>6, <1>7 DEF AccessInv

LEMMA FlagsAre ==
  ASSUME flags' = flags
  PROVE  /\ closed' = closed /\ sealed' = sealed
         /\ sealCompleted' = sealCompleted /\ hasFailure' = hasFailure
BY DEF flags

LEMMA RegisterDomainKeeps ==
  ASSUME AccessInv, NEW t \in Threads, NEW d \in Types, NEW generation \in 1 .. MaxGeneration,
         RegisterDomain(t, d, generation)
  PROVE  AccessInv'
<1>1. Advances /\ Keys' = Keys
  BY NoneMoves DEF AccessInv, RegisterDomain
<1>2. ThreadSteps(t)
  BY NoThreadSteps DEF AccessInv, RegisterDomain
<1>3. thread[t].at \in {"idle", "body"} /\ thread' = thread /\ operations' = operations
  BY DEF RegisterDomain, CanCall
<1>4. Plain(t)
  BY <1>1, <1>2, <1>3 DEF Plain, RegisterDomain, AccessInv, BodiesAreOwned
<1>5. StateType'
  BY <1>1, BoundsAssumption, FlagsAre DEF AccessInv, StateType, RegisterDomain
<1>6. AccessesAreOfDomain'
  <2>1. ASSUME NEW k \in Keys, HoldsAccess(operations[k]), NEW a \in operations[k].footprints
        PROVE  domain'[a.type] = a.generation
    <3>1. domain[a.type] = a.generation
      BY <2>1 DEF AccessInv, AccessesAreOfDomain
    <3>2. a.type # d
      BY <2>1, <3>1 DEF RegisterDomain
    <3>. QED
      BY <3>1, <3>2 DEF RegisterDomain, AccessInv, StateType
  <2>. QED
    BY <1>1, <1>3, <2>1 DEF AccessesAreOfDomain
<1>7. StopIsFinal'
  BY <1>1, <1>3, FlagsAre DEF AccessInv, StopIsFinal, NothingHeld, RegisterDomain
<1>8. SealIsFinal'
  BY <1>1, FlagsAre, SealStays DEF RegisterDomain, AccessInv, SealIsFinal
<1>. QED
  BY <1>4, <1>5, <1>6, <1>7, <1>8, PlainKeeps DEF AccessInv

LEMMA CancelKeeps ==
  ASSUME AccessInv, NEW t \in Threads, NEW k \in Keys, Cancel(t, k)
  PROVE  AccessInv'
<1>. DEFINE new == [operations[k] EXCEPT !.status = "CANCELLED"]
<1>1. operations[k] \in OperationRecord
  BY KeysAreNumbers DEF AccessInv
<1>2. new \in OperationRecord /\ Moves(operations[k], new)
  BY <1>1 DEF OperationRecord, Moves, Cancel, Statuses, Terminal
<1>3. new.status = "CANCELLED" /\ new.isRetiring = operations[k].isRetiring
  BY <1>1 DEF OperationRecord
<1>4. operations' = [operations EXCEPT ![k] = new]
  BY DEF Cancel
<1>. HIDE DEF new
<1>5. /\ Advances
      /\ operations'[k] = new
      /\ \A j \in Keys \ {k} : operations'[j] = operations[j]
  BY <1>2, <1>3, <1>4, OneMoves DEF AccessInv
<1>6. /\ ThreadSteps(t) /\ thread'[t].at = "progress" /\ thread'[t].call = "Cancel"
      /\ thread'[t].op = thread[t].op /\ thread[t].at \in {"idle", "body"}
  BY EnterSteps DEF AccessInv, Cancel, Places, CallNames, CanCall
<1>7. \A j \in Keys : /\ operations[j].status = "RUNNING" <=> operations'[j].status = "RUNNING"
                      /\ operations[j].isRetiring <=> operations'[j].isRetiring
  BY <1>3, <1>5 DEF Cancel
<1>8. Plain(t)
  BY <1>5, <1>6, <1>7 DEF Plain, Cancel
<1>9. StateType'
  BY <1>5, <1>6, ThreadsStay, AdvancesKeep, FlagsAre DEF AccessInv, StateType, Cancel
<1>10. AccessesAreOfDomain' /\ StopIsFinal' /\ SealIsFinal'
  BY <1>5, <1>6, DomainStays, StopStays, SealStays, FlagsAre DEF Cancel, AccessInv, SealIsFinal
<1>. QED
  BY <1>8, <1>9, <1>10, PlainKeeps DEF AccessInv

LEMMA SealKeeps ==
  ASSUME AccessInv, NEW t \in Threads, Seal(t)
  PROVE  AccessInv'
<1>1. Advances /\ Keys' = Keys
  BY NoneMoves DEF AccessInv, Seal
<1>2. /\ ThreadSteps(t) /\ thread'[t].at = "progress" /\ thread'[t].call = "Seal"
      /\ thread'[t].op = thread[t].op /\ thread[t].at \in {"idle", "body"}
  BY EnterSteps DEF AccessInv, Seal, Places, CallNames, CanCall
<1>3. Plain(t)
  BY <1>1, <1>2 DEF Plain, Seal
<1>4. StateType'
  BY <1>1, <1>2, ThreadsStay DEF AccessInv, StateType, Seal
<1>5. AccessesAreOfDomain' /\ StopIsFinal'
  BY <1>1, <1>2, DomainStays, StopStays DEF Seal
<1>6. SealIsFinal'
  BY <1>1, SealStays DEF Seal
<1>. QED
  BY <1>3, <1>4, <1>5, <1>6, PlainKeeps DEF AccessInv

LEMMA StopKeeps ==
  ASSUME AccessInv, NEW t \in Threads, Stop(t)
  PROVE  AccessInv'
<1>1. \A k \in Keys : operations[k] \in OperationRecord
  BY KeysAreNumbers DEF AccessInv
<1>. DEFINE new(k) == IF operations[k].status \in {"WAITING", "QUEUED"}
                      THEN [operations[k] EXCEPT !.status = "CANCELLED"] ELSE operations[k]
<1>2. \A k \in Keys : /\ new(k) \in OperationRecord
                      /\ Moves(operations[k], new(k))
                      /\ new(k).status \notin {"WAITING", "QUEUED"}
                      /\ operations[k].status = "RUNNING" <=> new(k).status = "RUNNING"
                      /\ operations[k].isRetiring <=> new(k).isRetiring
  BY <1>1 DEF OperationRecord, Moves, Statuses, Terminal
<1>3. operations' = [k \in Keys |-> new(k)]
  BY DEF Stop
<1>. HIDE DEF new
<1>4. Len(operations) \in Nat /\ Keys = 1 .. Len(operations)
  BY KeysAreNumbers DEF AccessInv, Keys
<1>5. operations' \in Seq(OperationRecord) /\ Len(operations') = Len(operations)
  BY <1>2, <1>3, <1>4, SegmentIsSeq
<1>6. \A k \in Keys : operations'[k] = new(k)
  BY <1>3
<1>7. Advances
  BY <1>2, <1>5, <1>6 DEF Advances
<1>8. /\ ThreadSteps(t) /\ thread'[t].at = "release" /\ thread'[t].call = "Stop"
      /\ thread'[t].op = thread[t].op /\ thread[t].at \in {"idle", "body"}
  BY EnterSteps DEF AccessInv, Stop, Places, CallNames, CanCall
<1>9. Plain(t)
  BY <1>2, <1>6, <1>7, <1>8 DEF Plain, Stop
<1>10. StateType'
  BY <1>7, <1>8, ThreadsStay, AdvancesKeep DEF AccessInv, StateType, Stop
<1>11. Stopped
  BY <1>2, <1>6 DEF Stopped, Stop
<1>12. AccessesAreOfDomain' /\ StopIsFinal' /\ SealIsFinal'
  BY <1>7, <1>8, <1>11, DomainStays, StopStays, SealStays DEF Stop
<1>. QED
  BY <1>9, <1>10, <1>12, PlainKeeps DEF AccessInv

(* The footprints Schedule gives an operation. *)
LEMMA FootprintsAreAccesses ==
  ASSUME StateType, NEW footprint \in Footprints, NEW footprints,
         footprints = {[type |-> a.type, generation |-> domain[a.type],
                        scope |-> a.scope, requirement |-> a.requirement] : a \in footprint},
         \A a \in footprints : a.generation # 0
  PROVE  /\ footprints \in SUBSET Accesses
         /\ \A a \in footprints : domain[a.type] = a.generation
<1>1. ASSUME NEW a \in footprint
      PROVE  /\ [type |-> a.type, generation |-> domain[a.type],
                 scope |-> a.scope, requirement |-> a.requirement] \in footprints
             /\ a.type \in Types /\ a.requirement \in Requirements /\ a.scope \in Scopes
             /\ domain[a.type] \in 1 .. MaxGeneration
  <2>1. [type |-> a.type, generation |-> domain[a.type],
         scope |-> a.scope, requirement |-> a.requirement] \in footprints
    OBVIOUS
  <2>2. domain[a.type] # 0
    BY <2>1
  <2>3. a.type \in Types /\ a.requirement \in Requirements
    BY FootprintsAssumption
  <2>4. domain[a.type] \in 0 .. MaxGeneration
    BY <2>3 DEF StateType
  <2>5. a.scope \in Scopes
    BY DEF Scopes
  <2>. QED
    BY <2>1, <2>2, <2>3, <2>4, <2>5, BoundsAssumption
<1>2. ASSUME NEW b \in footprints
      PROVE  b \in Accesses /\ domain[b.type] = b.generation
  <2>1. PICK a \in footprint : b = [type |-> a.type, generation |-> domain[a.type],
                                    scope |-> a.scope, requirement |-> a.requirement]
    OBVIOUS
  <2>. QED
    BY <1>1, <2>1 DEF Accesses
<1>. QED
  BY <1>2

LEMMA KnownIsKey ==
  ASSUME OperationsType, NEW k \in Known
  PROVE  k \in Keys
BY KeysAreNumbers DEF Known

(* A new operation comes last. *)
LEMMA ScheduleAppends ==
  ASSUME AccessInv, NEW new \in OperationRecord, Len(operations) < MaxOperations,
         new.dependencies \subseteq Keys, operations' = Append(operations, new)
  PROVE  /\ OperationsType'
         /\ Len(operations') = Len(operations) + 1
         /\ Keys' = Keys \cup {Len(operations) + 1}
         /\ Len(operations) + 1 \notin Keys
         /\ operations'[Len(operations) + 1] = new
         /\ \A k \in Keys : operations'[k] = operations[k]
<1>1. /\ Len(operations) \in Nat /\ Keys = 1 .. Len(operations)
      /\ operations \in Seq(OperationRecord)
  BY KeysAreNumbers DEF AccessInv, OperationsType, Keys
<1>2. /\ operations' \in Seq(OperationRecord)
      /\ Len(operations') = Len(operations) + 1
      /\ operations'[Len(operations) + 1] = new
      /\ \A k \in Keys : operations'[k] = operations[k]
  BY <1>1, AppendProperties
<1>3. Keys' = 1 .. Len(operations) + 1
  BY <1>2 DEF Keys
<1>4. /\ Keys' = Keys \cup {Len(operations) + 1}
      /\ Len(operations) + 1 \notin Keys
  BY <1>1, <1>3
<1>5. \A k \in Keys' : operations'[k].dependencies \subseteq 1 .. (k - 1)
  <2>1. \A k \in Keys : operations'[k].dependencies \subseteq 1 .. (k - 1)
    BY <1>2 DEF AccessInv, OperationsType
  <2>2. operations'[Len(operations) + 1].dependencies \subseteq 1 .. (Len(operations) + 1 - 1)
    BY <1>1, <1>2
  <2>3. \A k \in Keys \cup {Len(operations) + 1} :
           operations'[k].dependencies \subseteq 1 .. (k - 1)
    <3>. TAKE k \in Keys \cup {Len(operations) + 1}
    <3>1. CASE k \in Keys
      BY <1>2, <2>1, <3>1
    <3>2. CASE k = Len(operations) + 1
      <4>1. operations'[k] = new /\ k - 1 = Len(operations)
        BY <1>1, <1>2, <3>2
      <4>. QED
        BY <1>1, <4>1
    <3>. QED
      BY <3>1, <3>2
  <2>. QED
    BY <1>4, <2>3
<1>6. Len(operations') <= MaxOperations
  BY <1>1, <1>2, BoundsAssumption
<1>. QED
  BY <1>2, <1>4, <1>5, <1>6 DEF OperationsType

LEMMA ScheduleKeeps ==
  ASSUME AccessInv, NEW t \in Threads, NEW footprint \in Footprints,
         NEW dependencies \in SUBSET Known, Schedule(t, footprint, dependencies)
  PROVE  AccessInv'
<1>1. PICK footprints :
        footprints = {[type |-> a.type, generation |-> domain[a.type],
                       scope |-> a.scope, requirement |-> a.requirement] : a \in footprint}
  OBVIOUS
<1>2. PICK new :
        new = [footprints |-> footprints, function |-> TRUE, status |-> "WAITING",
               dependencies |-> dependencies \cup Predecessors(footprints),
               isRetiring |-> FALSE]
  OBVIOUS
<1>3. /\ \A a \in footprints : a.generation # 0
      /\ operations' = Append(operations, new)
      /\ Len(operations) < MaxOperations
      /\ ~closed /\ flags' = flags /\ domain' = domain
      /\ running' = running /\ retiring' = retiring /\ submitted' = submitted
      /\ thread[t].at \in {"idle", "body"}
      /\ thread' = [thread EXCEPT ![t].at = "progress", ![t].call = "Schedule",
                                  ![t].key = Len(operations) + 1]
  BY <1>1, <1>2 DEF Schedule, CanCall
<1>4. footprints \in SUBSET Accesses /\ \A a \in footprints : domain[a.type] = a.generation
  BY <1>1, <1>3, FootprintsAreAccesses DEF AccessInv
<1>5. new.dependencies \subseteq Keys /\ Keys \subseteq Nat
  <2>1. dependencies \subseteq Keys /\ Keys \subseteq Nat
    BY KnownIsKey, KeysAreNumbers DEF AccessInv
  <2>. QED
    BY <1>2, <2>1 DEF Predecessors
<1>6. new \in OperationRecord
  BY <1>2, <1>4, <1>5 DEF OperationRecord, Statuses
<1>7. PICK last : last = Len(operations) + 1
  OBVIOUS
<1>8. /\ OperationsType'
      /\ Len(operations') = last /\ last \in 1 .. MaxOperations
      /\ Keys' = Keys \cup {last} /\ last \notin Keys /\ Keys = 1 .. (last - 1)
      /\ operations'[last] = new
      /\ \A k \in Keys : operations'[k] = operations[k]
  <2>1. Len(operations) \in Nat
    BY KeysAreNumbers DEF AccessInv
  <2>. QED
    BY <1>3, <1>5, <1>6, <1>7, <2>1, ScheduleAppends, BoundsAssumption DEF Keys
<1>9. /\ thread' \in [Threads -> ThreadRecord]
      /\ thread'[t].at = "progress" /\ thread'[t].call = "Schedule"
      /\ \A u \in Threads : thread'[u].op = thread[u].op /\ thread'[u].target = thread[u].target
      /\ \A u \in Threads \ {t} : thread'[u] = thread[u]
  <2>1. thread[t] \in ThreadRecord
    BY DEF AccessInv, StateType
  <2>2. thread'[t] = [at |-> "progress", call |-> "Schedule", op |-> thread[t].op,
                      key |-> last, target |-> thread[t].target]
    BY <1>3, <1>7, <2>1 DEF AccessInv, StateType, ThreadRecord
  <2>3. thread'[t] \in ThreadRecord
    BY <1>8, <2>1, <2>2 DEF ThreadRecord, Places, CallNames
  <2>. QED
    BY <1>3, <2>2, <2>3 DEF AccessInv, StateType
<1>10. StateType'
  BY <1>3, <1>8, <1>9, FlagsAre DEF AccessInv, StateType
<1>11. FunctionsFollowStatus'
  BY <1>2, <1>8 DEF AccessInv, FunctionsFollowStatus
<1>12. CountersAreExact'
  <2>1. {k \in Keys' : operations'[k].status = "RUNNING"} =
           {k \in Keys : operations[k].status = "RUNNING"}
    BY <1>2, <1>8
  <2>2. {k \in Keys' : operations'[k].isRetiring} = {k \in Keys : operations[k].isRetiring}
    BY <1>2, <1>8
  <2>. QED
    BY <1>3, <2>1, <2>2 DEF AccessInv, CountersAreExact
<1>13. BodiesAreOwned'
  <2>1. ASSUME NEW u \in Threads
        PROVE  /\ thread'[u].op # 0 =>
                    thread'[u].op \in Keys' /\ operations'[thread'[u].op].status = "RUNNING"
               /\ thread'[u].at = "body" => thread'[u].op # 0
               /\ thread'[u].at \in {"submit", "retire"} => thread'[u].target \in Keys'
    BY <1>8, <1>9 DEF AccessInv, BodiesAreOwned
  <2>2. \A u, v \in Threads : thread'[u].op # 0 /\ thread'[u].op = thread'[v].op => u = v
    BY <1>9 DEF AccessInv, BodiesAreOwned
  <2>. QED
    BY <2>1, <2>2 DEF BodiesAreOwned
<1>14. CapturesAreOwned'
  <2>1. \A u \in Threads, k \in Keys :
           (thread'[u].at = "retire" /\ thread'[u].target = k) <=> Retires(u, k)
    BY <1>3, <1>9 DEF Retires
  <2>2. \A u \in Threads : ~(thread'[u].at = "retire" /\ thread'[u].target = last)
    BY <1>8, <1>9 DEF AccessInv, BodiesAreOwned
  <2>3. /\ \A u \in Threads, k \in Keys' :
              (thread'[u].at = "retire" /\ thread'[u].target = k) => operations'[k].isRetiring
        /\ \A k \in Keys' : operations'[k].isRetiring =>
              \E u \in Threads : thread'[u].at = "retire" /\ thread'[u].target = k
        /\ \A u, v \in Threads : \A k \in Keys' :
              /\ thread'[u].at = "retire" /\ thread'[u].target = k
              /\ thread'[v].at = "retire" /\ thread'[v].target = k
              => u = v
    BY <1>2, <1>8, <2>1, <2>2 DEF AccessInv, CapturesAreOwned
  <2>. QED
    BY <2>3 DEF CapturesAreOwned, Retires
<1>15. AccessesAreOfDomain'
  <2>1. \A k \in Keys' : HoldsAccess(operations'[k]) =>
           \A a \in operations'[k].footprints : domain[a.type] = a.generation
    BY <1>2, <1>4, <1>8 DEF AccessInv, AccessesAreOfDomain
  <2>. QED
    BY <1>3, <2>1 DEF AccessesAreOfDomain
<1>16. ConflictsAreDependencies'
  <2>1. ASSUME NEW earlier \in Keys, HoldsAccess(operations[earlier]),
               SharesWrittenData(operations[earlier].footprints, footprints)
        PROVE  earlier \in Predecessors(footprints)
    <3>1. operations[earlier].footprints \in SUBSET Accesses
      BY KeysAreNumbers DEF AccessInv, OperationRecord
    <3>2. \A a \in operations[earlier].footprints : domain[a.type] = a.generation
      BY <2>1 DEF AccessInv, AccessesAreOfDomain
    <3>3. PICK held : held = operations[earlier].footprints
      OBVIOUS
    <3>4. \E l \in held, r \in footprints : Clash(l, r)
      BY <1>4, <2>1, <3>1, <3>2, <3>3, SharedDataClashes DEF AccessInv
    <3>. QED
      BY <2>1, <3>3, <3>4 DEF Predecessors
  <2>2. ASSUME NEW later \in Keys', NEW earlier \in 1 .. (later - 1),
               HoldsAccess(operations'[earlier]),
               SharesWrittenData(operations'[earlier].footprints, operations'[later].footprints)
        PROVE  earlier \in operations'[later].dependencies
    <3>1. CASE later \in Keys
      <4>1. earlier \in Keys
        BY <1>8, <3>1
      <4>. QED
        BY <1>8, <2>2, <3>1, <4>1 DEF AccessInv, ConflictsAreDependencies
    <3>2. CASE later = last
      <4>1. earlier \in Keys
        BY <1>8, <3>2
      <4>2. operations'[later].footprints = footprints /\ operations'[earlier] = operations[earlier]
        BY <1>2, <1>8, <3>2, <4>1
      <4>3. earlier \in Predecessors(footprints)
        BY <2>1, <2>2, <4>1, <4>2
      <4>. QED
        BY <1>2, <1>8, <3>2, <4>3
    <3>. QED
      BY <1>8, <3>1, <3>2
  <2>. QED
    BY <2>2 DEF ConflictsAreDependencies
<1>17. QueuedIsReady'
  <2>1. ASSUME NEW k \in Keys', operations'[k].status \in {"QUEUED", "RUNNING"},
               NEW d \in operations'[k].dependencies
        PROVE  operations'[d].status = "COMPLETED"
    <3>1. k \in Keys
      BY <1>2, <1>8, <2>1
    <3>2. d \in operations[k].dependencies /\ d \in Keys
      BY <1>8, <2>1, <3>1, KeysAreNumbers DEF AccessInv
    <3>. QED
      BY <1>8, <2>1, <3>1, <3>2 DEF AccessInv, QueuedIsReady
  <2>. QED
    BY <2>1 DEF QueuedIsReady
<1>18. StopIsFinal'
  <2>1. ASSUME NEW u \in Threads
        PROVE  thread'[u].call # "Stop" /\ thread'[u].at \notin {"wait", "drop"}
    BY <1>3, <1>9 DEF AccessInv, StopIsFinal
  <2>. QED
    BY <2>1 DEF StopIsFinal
<1>19. SealIsFinal'
  BY <1>3, FlagsAre DEF AccessInv, SealIsFinal
<1>. QED
  BY <1>8, <1>10, <1>11, <1>12, <1>13, <1>14, <1>15, <1>16, <1>17, <1>18, <1>19 DEF AccessInv

LEMMA ProgressKeeps ==
  ASSUME AccessInv, NEW t \in Threads, Progress(t)
  PROVE  AccessInv'
<1>. DEFINE first == IF Ready = {} THEN Len(operations) + 1 ELSE Min(Ready)
            new(k) == CASE k = first -> [operations[k] EXCEPT !.status = "QUEUED"]
                        [] k < first /\ k \in Doomed /\ operations[k].status = "WAITING" ->
                             [operations[k] EXCEPT !.status = "CANCELLED"]
                        [] OTHER -> operations[k]
<1>1. /\ Len(operations) \in Nat /\ Keys = 1 .. Len(operations)
      /\ \A k \in Keys : operations[k] \in OperationRecord
  BY KeysAreNumbers DEF AccessInv, Keys
<1>2. /\ Ready # {} => first \in Ready
      /\ Ready = {} => first \notin Keys
  <2>1. CASE Ready = {}
    BY <1>1, <2>1
  <2>2. CASE Ready # {}
    <3>1. Ready \in SUBSET Nat
      BY <1>1 DEF Ready
    <3>2. Min(Ready) \in Ready
      BY <2>2, <3>1, SmallestIsMin
    <3>. QED
      BY <2>2, <3>2
  <2>. QED
    BY <2>1, <2>2
<1>3. operations' = [k \in Keys |-> new(k)]
  BY DEF Progress
<1>4. /\ thread[t].at = "progress"
      /\ IF Ready = {} THEN Goto(t, "release") ELSE Hold(t, "submit", first)
      /\ flags' = flags /\ domain' = domain
      /\ running' = running /\ retiring' = retiring /\ submitted' = submitted
  BY DEF Progress
<1>5. ASSUME NEW k \in Keys
      PROVE  /\ new(k) \in OperationRecord
             /\ Moves(operations[k], new(k))
             /\ operations[k].status = "WAITING" /\ new(k).status = "QUEUED" => k \in Ready
             /\ operations[k].status = "RUNNING" <=> new(k).status = "RUNNING"
             /\ operations[k].isRetiring <=> new(k).isRetiring
  <2>. HIDE DEF first
  <2>1. CASE k = first
    <3>1. k \in Ready /\ operations[k].status = "WAITING"
      BY <1>2, <2>1 DEF Ready
    <3>2. ~(k < first)
      BY <1>1, <2>1
    <3>3. new(k) = [operations[k] EXCEPT !.status = "QUEUED"]
      BY <2>1, <3>2
    <3>. HIDE DEF new
    <3>. QED
      BY <1>1, <3>1, <3>3 DEF OperationRecord, Moves, Statuses
  <2>2. CASE k # first /\ k < first /\ k \in Doomed /\ operations[k].status = "WAITING"
    <3>1. new(k) = [operations[k] EXCEPT !.status = "CANCELLED"]
      BY <2>2
    <3>. HIDE DEF new
    <3>. QED
      BY <1>1, <2>2, <3>1 DEF OperationRecord, Moves, Statuses, Terminal
  <2>3. CASE k # first /\ ~(k < first /\ k \in Doomed /\ operations[k].status = "WAITING")
    <3>1. new(k) = operations[k]
      BY <2>3
    <3>. HIDE DEF new
    <3>. QED
      BY <1>1, <3>1 DEF Moves
  <2>. QED
    BY <2>1, <2>2, <2>3
<1>. HIDE DEF new, first
<1>6. operations' \in Seq(OperationRecord) /\ Len(operations') = Len(operations)
  BY <1>1, <1>3, <1>5, SegmentIsSeq
<1>7. \A k \in Keys : operations'[k] = new(k)
  BY <1>3
<1>8. Advances
  BY <1>5, <1>6, <1>7 DEF Advances, Ready
<1>9. /\ ThreadSteps(t) /\ thread'[t].op = thread[t].op /\ thread'[t].call = thread[t].call
      /\ thread'[t].at \in {"release", "submit"}
      /\ thread'[t].at = "submit" => thread'[t].target \in Keys
  <2>1. CASE Ready = {}
    BY <1>4, <2>1, GotoSteps DEF AccessInv, Places
  <2>2. CASE Ready # {}
    <3>1. first \in Keys /\ first \in 1 .. MaxOperations
      BY <1>2, <2>2, KeysAreNumbers DEF Ready, AccessInv
    <3>. QED
      BY <1>4, <2>2, <3>1, HoldSteps DEF AccessInv, Places
  <2>. QED
    BY <2>1, <2>2
<1>10. Plain(t)
  BY <1>4, <1>5, <1>7, <1>8, <1>9 DEF Plain
<1>11. StateType'
  BY <1>4, <1>8, <1>9, ThreadsStay, AdvancesKeep, FlagsAre DEF AccessInv, StateType
<1>12. thread'[t].call = "Stop" => Stopped
  BY <1>4, <1>8, <1>9, StopFollows, FlagsAre
<1>13. AccessesAreOfDomain' /\ StopIsFinal' /\ SealIsFinal'
  BY <1>4, <1>8, <1>9, <1>12, DomainStays, StopStays, SealStays, FlagsAre
     DEF AccessInv, SealIsFinal
<1>. QED
  BY <1>10, <1>11, <1>13, PlainKeeps DEF AccessInv

(* What the steps that leave the operations alone have in common. *)
LEMMA QuietKeeps ==
  ASSUME AccessInv, NEW t \in Threads, ThreadSteps(t), thread'[t].op = thread[t].op,
         thread[t].at # "retire", thread'[t].at \notin {"retire", "submit"},
         thread'[t].at = "body" => thread'[t].op # 0,
         operations' = operations, domain' = domain, running' = running, retiring' = retiring,
         closed' = closed, sealed' = sealed, hasFailure' \in BOOLEAN, submitted' \subseteq Keys,
         sealCompleted' \in BOOLEAN, sealCompleted' => sealCompleted \/ (closed /\ NothingHeld),
         thread'[t].call = "Stop" => thread[t].call = "Stop",
         thread'[t].at \in {"wait", "drop"} => thread'[t].call = "Stop",
         thread'[t].at = "wait" => \A k \in Keys : ~operations[k].function,
         thread'[t].at = "drop" => NothingHeld,
         thread'[t].at = "seal" /\ thread'[t].call = "Stop" => NothingHeld
  PROVE  AccessInv'
<1>1. Advances /\ Keys' = Keys
  BY NoneMoves DEF AccessInv
<1>2. Plain(t)
  BY <1>1 DEF Plain
<1>3. StateType'
  BY <1>1, ThreadsStay DEF AccessInv, StateType
<1>4. thread'[t].call = "Stop" => Stopped
  BY DEF AccessInv, StopIsFinal, Stopped
<1>5. AccessesAreOfDomain' /\ StopIsFinal' /\ SealIsFinal'
  BY <1>1, <1>4, DomainStays, StopStays, SealStays DEF AccessInv, SealIsFinal
<1>. QED
  BY <1>2, <1>3, <1>5, PlainKeeps DEF AccessInv

LEMMA SubmitKeeps ==
  ASSUME AccessInv, NEW t \in Threads, Submit(t)
  PROVE  AccessInv'
<1>1. /\ ThreadSteps(t) /\ thread'[t].at = "progress" /\ thread'[t].op = thread[t].op
      /\ thread'[t].call = thread[t].call
  BY GotoSteps DEF Submit, Places, AccessInv
<1>2. submitted' \subseteq Keys
  BY DEF Submit, AccessInv, StateType, BodiesAreOwned
<1>. QED
  BY <1>1, <1>2, QuietKeeps, FlagsAre DEF Submit, AccessInv, StateType

LEMMA SubmitThrowsKeeps ==
  ASSUME AccessInv, NEW t \in Threads, SubmitThrows(t)
  PROVE  AccessInv'
<1>1. /\ ThreadSteps(t) /\ thread'[t].at = "progress" /\ thread'[t].op = thread[t].op
      /\ thread'[t].call = thread[t].call /\ thread[t].at = "submit"
  BY GotoSteps DEF SubmitThrows, Places, AccessInv
<1>2. PICK k \in Keys : k = thread[t].target
  BY DEF SubmitThrows, AccessInv, BodiesAreOwned
<1>3. CASE operations[k].status # "QUEUED"
  BY <1>1, <1>2, <1>3, QuietKeeps DEF SubmitThrows, AccessInv, StateType
<1>4. CASE operations[k].status = "QUEUED"
  <2>. DEFINE new == [operations[k] EXCEPT !.status = "FAILED"]
  <2>1. operations[k] \in OperationRecord
    BY KeysAreNumbers DEF AccessInv
  <2>2. new \in OperationRecord /\ Moves(operations[k], new)
    BY <1>4, <2>1 DEF OperationRecord, Moves, Statuses, Terminal
  <2>3. new.status = "FAILED" /\ new.isRetiring = operations[k].isRetiring
    BY <2>1 DEF OperationRecord
  <2>4. operations' = [operations EXCEPT ![k] = new]
    BY <1>2, <1>4 DEF SubmitThrows
  <2>. HIDE DEF new
  <2>5. /\ Advances
        /\ operations'[k] = new
        /\ \A j \in Keys \ {k} : operations'[j] = operations[j]
    BY <2>2, <2>3, <2>4, OneMoves DEF AccessInv
  <2>6. \A j \in Keys : /\ operations[j].status = "RUNNING" <=> operations'[j].status = "RUNNING"
                        /\ operations[j].isRetiring <=> operations'[j].isRetiring
    BY <1>4, <2>3, <2>5
  <2>7. Plain(t)
    BY <1>1, <2>5, <2>6 DEF Plain, SubmitThrows
  <2>8. StateType'
    BY <1>1, <1>2, <1>4, <2>5, ThreadsStay, AdvancesKeep DEF AccessInv, StateType, SubmitThrows
  <2>9. thread'[t].call = "Stop" => Stopped
    BY <1>1, <2>5, StopFollows DEF SubmitThrows
  <2>10. AccessesAreOfDomain' /\ StopIsFinal' /\ SealIsFinal'
    BY <1>1, <2>5, <2>9, DomainStays, StopStays, SealStays
       DEF AccessInv, SealIsFinal, SubmitThrows
  <2>. QED
    BY <2>7, <2>8, <2>10, PlainKeeps DEF AccessInv
<1>. QED
  BY <1>3, <1>4

LEMMA ReleasedKeeps ==
  ASSUME AccessInv, NEW t \in Threads, Released(t)
  PROVE  AccessInv'
<1>1. /\ operations' = operations /\ domain' = domain /\ flags' = flags
      /\ running' = running /\ retiring' = retiring /\ submitted' = submitted
      /\ thread[t].at = "release" /\ Releasable = {}
  BY DEF Released
<1>2. CASE thread[t].call = "Schedule"
  <2>1. Return(t)
    BY <1>2 DEF Released
  <2>2. /\ ThreadSteps(t) /\ thread'[t].at \in {"idle", "body"} /\ thread'[t].op = thread[t].op
        /\ thread'[t].call = "none" /\ (thread'[t].at = "body" => thread'[t].op # 0)
    BY <2>1, ReturnSteps DEF AccessInv
  <2>. QED
    BY <1>1, <2>2, QuietKeeps, FlagsAre DEF AccessInv, StateType
<1>3. CASE thread[t].call = "Stop"
  <2>1. Goto(t, "wait")
    BY <1>3 DEF Released
  <2>2. /\ ThreadSteps(t) /\ thread'[t].at = "wait" /\ thread'[t].op = thread[t].op
        /\ thread'[t].call = thread[t].call
    BY <2>1, GotoSteps DEF Places, AccessInv
  <2>3. ASSUME NEW k \in Keys
        PROVE  ~operations[k].function
    <3>1. operations[k].status \notin {"WAITING", "QUEUED"}
      BY <1>3 DEF AccessInv, StopIsFinal
    <3>2. operations[k].status \in Statuses
      BY KeysAreNumbers DEF AccessInv, OperationRecord
    <3>3. operations[k].status = "RUNNING" => ~operations[k].function
      BY DEF AccessInv, FunctionsFollowStatus
    <3>4. operations[k].status \in Terminal => ~operations[k].function
      BY <1>1 DEF Releasable
    <3>. QED
      BY <3>1, <3>2, <3>3, <3>4 DEF Statuses
  <2>. QED
    BY <1>1, <1>3, <2>2, <2>3, QuietKeeps, FlagsAre DEF AccessInv, StateType
<1>4. CASE thread[t].call \notin {"Schedule", "Stop"}
  <2>1. Goto(t, "seal")
    BY <1>4 DEF Released
  <2>2. /\ ThreadSteps(t) /\ thread'[t].at = "seal" /\ thread'[t].op = thread[t].op
        /\ thread'[t].call = thread[t].call
    BY <2>1, GotoSteps DEF Places, AccessInv
  <2>. QED
    BY <1>1, <1>4, <2>2, QuietKeeps, FlagsAre DEF AccessInv, StateType
<1>. QED
  BY <1>2, <1>3, <1>4

LEMMA StopWaitKeeps ==
  ASSUME AccessInv, NEW t \in Threads, StopWait(t)
  PROVE  AccessInv'
<1>1. /\ operations' = operations /\ domain' = domain /\ flags' = flags
      /\ running' = running /\ retiring' = retiring /\ submitted' = submitted
      /\ thread[t].at = "wait" /\ running = 0 /\ retiring = 0
  BY DEF StopWait
<1>2. /\ ThreadSteps(t) /\ thread'[t].at = "seal" /\ thread'[t].op = thread[t].op
      /\ thread'[t].call = thread[t].call
  BY GotoSteps DEF StopWait, Places, AccessInv
<1>3. NothingHeld
  <2>1. Len(operations) \in Nat /\ Keys = 1 .. Len(operations)
    BY KeysAreNumbers DEF AccessInv, Keys
  <2>2. IsFiniteSet(Keys)
    BY <2>1, FS_Interval
  <2>3. {k \in Keys : operations[k].status = "RUNNING"} = {}
    <3>. DEFINE bodies == {k \in Keys : operations[k].status = "RUNNING"}
    <3>1. IsFiniteSet(bodies)
      BY <2>2, FS_Subset
    <3>2. Cardinality(bodies) = 0
      BY <1>1 DEF AccessInv, CountersAreExact
    <3>. HIDE DEF bodies
    <3>3. bodies = {}
      BY <3>1, <3>2, FS_EmptySet
    <3>. QED
      BY <3>3 DEF bodies
  <2>4. {k \in Keys : operations[k].isRetiring} = {}
    <3>. DEFINE dying == {k \in Keys : operations[k].isRetiring}
    <3>1. IsFiniteSet(dying)
      BY <2>2, FS_Subset
    <3>2. Cardinality(dying) = 0
      BY <1>1 DEF AccessInv, CountersAreExact
    <3>. HIDE DEF dying
    <3>3. dying = {}
      BY <3>1, <3>2, FS_EmptySet
    <3>. QED
      BY <3>3 DEF dying
  <2>5. ASSUME NEW k \in Keys
        PROVE  ~HoldsAccess(operations[k])
    <3>1. ~operations[k].function /\ operations[k].status \notin {"WAITING", "QUEUED"}
      BY <1>1 DEF AccessInv, StopIsFinal
    <3>2. operations[k].status \in Statuses
      BY KeysAreNumbers DEF AccessInv, OperationRecord
    <3>3. ~operations[k].isRetiring /\ operations[k].status # "RUNNING"
      BY <2>3, <2>4
    <3>. QED
      BY <3>1, <3>2, <3>3 DEF HoldsAccess, Statuses
  <2>. QED
    BY <2>5 DEF NothingHeld
<1>. QED
  BY <1>1, <1>2, <1>3, QuietKeeps, FlagsAre DEF AccessInv, StateType

(* The owner tokens go when nothing holds an access any more. *)
LEMMA DomainsDrop ==
  ASSUME AccessInv, NothingHeld, operations' = operations, domain' = [d \in Types |-> 0]
  PROVE  AccessesAreOfDomain'
BY NoneMoves DEF AccessInv, AccessesAreOfDomain, NothingHeld

LEMMA CompleteSealKeeps ==
  ASSUME AccessInv, NEW t \in Threads, CompleteSeal(t)
  PROVE  AccessInv'
<1>1. /\ operations' = operations /\ closed' = closed /\ sealed' = sealed
      /\ hasFailure' = hasFailure
      /\ running' = running /\ retiring' = retiring /\ submitted' = submitted
      /\ thread[t].at = "seal"
      /\ sealCompleted' = (sealCompleted \/ SealDrained)
      /\ domain' = IF SealDrained THEN [d \in Types |-> 0] ELSE domain
  BY DEF CompleteSeal
<1>2. /\ ThreadSteps(t) /\ thread'[t].op = thread[t].op
      /\ thread'[t].at \in {"drop", "idle", "body"}
      /\ thread'[t].at = "body" => thread'[t].op # 0
      /\ thread'[t].at = "drop" => thread[t].call = "Stop"
      /\ thread'[t].at = "drop" => thread'[t].call = "Stop"
      /\ thread'[t].call = "Stop" => thread[t].call = "Stop"
  <2>1. CASE thread[t].call = "Stop"
    <3>1. Goto(t, "drop")
      BY <2>1 DEF CompleteSeal
    <3>. QED
      BY <2>1, <3>1, GotoSteps DEF Places, AccessInv
  <2>2. CASE thread[t].call # "Stop"
    <3>1. Return(t)
      BY <2>2 DEF CompleteSeal
    <3>. QED
      BY <3>1, ReturnSteps DEF AccessInv
  <2>. QED
    BY <2>1, <2>2
<1>3. Advances /\ Keys' = Keys
  BY <1>1, NoneMoves DEF AccessInv
<1>4. Plain(t)
  BY <1>1, <1>2, <1>3 DEF Plain
<1>5. SealDrained => closed /\ NothingHeld
  BY DEF SealDrained, NothingHeld, AccessInv, SealIsFinal
<1>6. StateType'
  <2>1. domain' \in [Types -> 0 .. MaxGeneration]
    BY <1>1, BoundsAssumption DEF AccessInv, StateType
  <2>2. sealCompleted' \in BOOLEAN
    BY <1>1, Zenon DEF AccessInv, StateType, SealDrained
  <2>. QED
    BY <1>1, <1>2, <1>3, <2>1, <2>2, ThreadsStay DEF AccessInv, StateType
<1>7. AccessesAreOfDomain'
  BY <1>1, <1>3, <1>5, DomainStays, DomainsDrop
<1>8. StopIsFinal'
  <2>1. thread'[t].call = "Stop" => Stopped
    BY <1>1, <1>2 DEF AccessInv, StopIsFinal, Stopped
  <2>2. thread'[t].at = "drop" => NothingHeld
    BY <1>1, <1>2 DEF AccessInv, StopIsFinal
  <2>. QED
    BY <1>1, <1>2, <1>3, <2>1, <2>2, StopStays
<1>9. SealIsFinal'
  <2>1. sealCompleted' => sealCompleted \/ (closed' /\ NothingHeld)
    BY <1>1, <1>5
  <2>2. sealed' => closed'
    BY <1>1 DEF AccessInv, SealIsFinal
  <2>. QED
    BY <1>1, <1>3, <2>1, <2>2, SealStays
<1>. QED
  BY <1>4, <1>6, <1>7, <1>8, <1>9, PlainKeeps DEF AccessInv

LEMMA StopDropsKeeps ==
  ASSUME AccessInv, NEW t \in Threads, StopDrops(t)
  PROVE  AccessInv'
<1>1. /\ operations' = operations /\ flags' = flags
      /\ running' = running /\ retiring' = retiring /\ submitted' = submitted
      /\ thread[t].at = "drop" /\ domain' = [d \in Types |-> 0]
  BY DEF StopDrops
<1>2. /\ ThreadSteps(t) /\ thread'[t].at \in {"idle", "body"} /\ thread'[t].op = thread[t].op
      /\ thread'[t].call = "none" /\ (thread'[t].at = "body" => thread'[t].op # 0)
  BY ReturnSteps DEF AccessInv, StopDrops
<1>3. Advances /\ Keys' = Keys
  BY <1>1, NoneMoves DEF AccessInv
<1>4. Plain(t)
  BY <1>1, <1>2, <1>3 DEF Plain
<1>5. StateType'
  BY <1>1, <1>2, <1>3, ThreadsStay, FlagsAre, BoundsAssumption DEF AccessInv, StateType
<1>6. NothingHeld
  BY <1>1 DEF AccessInv, StopIsFinal
<1>7. AccessesAreOfDomain'
  BY <1>1, <1>6, DomainsDrop
<1>8. StopIsFinal' /\ SealIsFinal'
  BY <1>1, <1>2, <1>3, StopStays, SealStays, FlagsAre DEF AccessInv, SealIsFinal
<1>. QED
  BY <1>4, <1>5, <1>7, <1>8, PlainKeeps DEF AccessInv

(* One key more, or one key less, in what a counter counts. *)
LEMMA CountUp ==
  ASSUME NEW n \in Nat, NEW S, S \subseteq 1 .. n, NEW k, k \notin S, NEW U, U = S \cup {k}
  PROVE  Cardinality(U) = Cardinality(S) + 1
<1>1. IsFiniteSet(S)
  <2>1. IsFiniteSet(1 .. n)
    BY FS_Interval
  <2>. QED
    BY <2>1, FS_Subset
<1>. QED
  BY <1>1, FS_AddElement

LEMMA CountDown ==
  ASSUME NEW n \in Nat, NEW S, S \subseteq 1 .. n, NEW k \in S, NEW U, U = S \ {k}
  PROVE  Cardinality(U) = Cardinality(S) - 1
<1>1. IsFiniteSet(S)
  <2>1. IsFiniteSet(1 .. n)
    BY FS_Interval
  <2>. QED
    BY <2>1, FS_Subset
<1>. QED
  BY <1>1, FS_RemoveElement

LEMMA ReleaseKeeps ==
  ASSUME AccessInv, NEW t \in Threads, Release(t)
  PROVE  AccessInv'
<1>1. Len(operations) \in Nat /\ Keys = 1 .. Len(operations)
  BY KeysAreNumbers DEF AccessInv, Keys
<1>2. PICK k \in Releasable : k = Min(Releasable)
  <2>1. Releasable \in SUBSET Nat /\ Releasable # {}
    BY <1>1 DEF Release, Releasable
  <2>. QED
    BY <2>1, SmallestIsMin
<1>3. /\ operations' = [operations EXCEPT ![k].function = FALSE, ![k].isRetiring = TRUE]
      /\ Hold(t, "retire", k)
      /\ domain' = domain /\ flags' = flags /\ running' = running /\ submitted' = submitted
      /\ retiring' = retiring + 1 /\ thread[t].at = "release"
  BY <1>2 DEF Release
<1>4. /\ k \in Keys /\ k \in 1 .. MaxOperations
      /\ operations[k] \in OperationRecord
      /\ operations[k].status \in Terminal /\ operations[k].function = TRUE
      /\ operations[k].isRetiring = FALSE
  <2>1. k \in Keys /\ operations[k].status \in Terminal /\ operations[k].function
    BY <1>2 DEF Releasable
  <2>2. operations[k] \in OperationRecord /\ k \in 1 .. MaxOperations
    BY <2>1, KeysAreNumbers DEF AccessInv
  <2>3. ~operations[k].isRetiring
    BY <2>1 DEF AccessInv, FunctionsFollowStatus
  <2>. QED
    BY <2>1, <2>2, <2>3 DEF OperationRecord
<1>. DEFINE new == [operations[k] EXCEPT !.function = FALSE, !.isRetiring = TRUE]
<1>5. new \in OperationRecord /\ Moves(operations[k], new)
  BY <1>4 DEF OperationRecord, Moves
<1>6. new.isRetiring = TRUE /\ new.status = operations[k].status
  BY <1>4 DEF OperationRecord
<1>7. operations' = [operations EXCEPT ![k] = new]
  BY <1>3, <1>4 DEF OperationRecord
<1>. HIDE DEF new
<1>8. /\ Advances
      /\ operations'[k] = new
      /\ \A j \in Keys \ {k} : operations'[j] = operations[j]
  BY <1>4, <1>5, <1>6, <1>7, OneMoves DEF AccessInv, Terminal
<1>9. /\ OperationsType' /\ FunctionsFollowStatus' /\ Keys' = Keys
      /\ ConflictsAreDependencies' /\ QueuedIsReady'
  BY <1>8, AdvancesKeep DEF AccessInv
<1>10. /\ ThreadSteps(t) /\ thread'[t].at = "retire" /\ thread'[t].target = k
       /\ thread'[t].call = thread[t].call /\ thread'[t].op = thread[t].op
  BY <1>3, <1>4, HoldSteps DEF AccessInv, Places
<1>11. /\ thread' \in [Threads -> ThreadRecord]
       /\ \A u \in Threads \ {t} : thread'[u] = thread[u]
  BY <1>10, ThreadsStay DEF AccessInv
<1>12. StateType'
  BY <1>3, <1>9, <1>11, FlagsAre DEF AccessInv, StateType
<1>13. CountersAreExact'
  <2>1. {j \in Keys : operations'[j].status = "RUNNING"} =
           {j \in Keys : operations[j].status = "RUNNING"}
    BY <1>6, <1>8
  <2>2. {j \in Keys : operations'[j].isRetiring} = {j \in Keys : operations[j].isRetiring} \cup {k}
    BY <1>4, <1>6, <1>8
  <2>. DEFINE dying == {j \in Keys : operations[j].isRetiring}
              left == {j \in Keys : operations'[j].isRetiring}
  <2>3. dying \subseteq 1 .. Len(operations) /\ k \notin dying /\ left = dying \cup {k}
    BY <1>1, <1>4, <2>2
  <2>. HIDE DEF dying, left
  <2>4. Cardinality(left) = Cardinality(dying) + 1
    BY <1>1, <2>3, CountUp
  <2>. USE DEF dying, left
  <2>5. /\ running' = Cardinality({j \in Keys : operations'[j].status = "RUNNING"})
        /\ retiring' = Cardinality({j \in Keys : operations'[j].isRetiring})
    BY <1>3, <2>1, <2>4 DEF AccessInv, CountersAreExact
  <2>. QED
    BY <1>9, <2>5 DEF CountersAreExact
<1>14. BodiesAreOwned'
  <2>1. \A u \in Threads :
          /\ thread'[u].op = thread[u].op
          /\ thread'[u].op # 0 =>
                thread'[u].op \in Keys /\ operations'[thread'[u].op].status = "RUNNING"
          /\ thread'[u].at = "body" => thread'[u].op # 0
          /\ thread'[u].at \in {"submit", "retire"} => thread'[u].target \in Keys
    <3>. TAKE u \in Threads
    <3>1. thread'[u].op = thread[u].op
      BY <1>10, <1>11
    <3>2. thread[u].op # 0 => thread[u].op \in Keys \ {k}
                              /\ operations[thread[u].op].status = "RUNNING"
      BY <1>4 DEF AccessInv, BodiesAreOwned, Terminal
    <3>3. thread'[u].at = "body" => thread'[u].op # 0
      BY <1>10, <1>11 DEF AccessInv, BodiesAreOwned
    <3>4. thread'[u].at \in {"submit", "retire"} => thread'[u].target \in Keys
      BY <1>4, <1>10, <1>11 DEF AccessInv, BodiesAreOwned
    <3>. QED
      BY <1>8, <3>1, <3>2, <3>3, <3>4
  <2>2. \A u, v \in Threads : thread'[u].op # 0 /\ thread'[u].op = thread'[v].op => u = v
    BY <2>1 DEF AccessInv, BodiesAreOwned
  <2>. QED
    BY <1>9, <2>1, <2>2 DEF BodiesAreOwned
<1>15. CapturesAreOwned'
  <2>1. \A u \in Threads, j \in Keys :
           (thread'[u].at = "retire" /\ thread'[u].target = j)
             <=> Retires(u, j) \/ (u = t /\ j = k)
    BY <1>3, <1>4, <1>10, <1>11 DEF Retires
  <2>2. \A u \in Threads : ~Retires(u, k)
    BY <1>4 DEF AccessInv, CapturesAreOwned
  <2>3. \A j \in Keys : operations'[j].isRetiring <=> operations[j].isRetiring \/ j = k
    BY <1>6, <1>8
  <2>4. /\ \A u \in Threads, j \in Keys :
              (thread'[u].at = "retire" /\ thread'[u].target = j) => operations'[j].isRetiring
        /\ \A j \in Keys : operations'[j].isRetiring =>
              \E u \in Threads : thread'[u].at = "retire" /\ thread'[u].target = j
        /\ \A u, v \in Threads : \A j \in Keys :
              /\ thread'[u].at = "retire" /\ thread'[u].target = j
              /\ thread'[v].at = "retire" /\ thread'[v].target = j
              => u = v
    BY <2>1, <2>2, <2>3 DEF AccessInv, CapturesAreOwned
  <2>. QED
    BY <1>9, <2>4 DEF CapturesAreOwned, Retires
<1>16. StopIsFinal'
  <2>1. thread'[t].call = "Stop" => Stopped
    BY <1>3, <1>8, <1>10, StopFollows, FlagsAre
  <2>. QED
    BY <1>3, <1>8, <1>10, <2>1, StopStays, FlagsAre
<1>17. AccessesAreOfDomain' /\ SealIsFinal'
  BY <1>3, <1>8, DomainStays, SealStays, FlagsAre DEF AccessInv, SealIsFinal
<1>. QED
  BY <1>9, <1>12, <1>13, <1>14, <1>15, <1>16, <1>17 DEF AccessInv

LEMMA RetiredKeeps ==
  ASSUME AccessInv, NEW t \in Threads, Retired(t)
  PROVE  AccessInv'
<1>1. Len(operations) \in Nat /\ Keys = 1 .. Len(operations)
  BY KeysAreNumbers DEF AccessInv, Keys
<1>2. PICK k \in Keys : k = thread[t].target
  BY DEF Retired, AccessInv, BodiesAreOwned
<1>3. /\ operations' = [operations EXCEPT ![k].isRetiring = FALSE]
      /\ Goto(t, "release")
      /\ domain' = domain /\ flags' = flags /\ running' = running /\ submitted' = submitted
      /\ retiring' = retiring - 1 /\ thread[t].at = "retire"
  BY <1>2 DEF Retired
<1>4. /\ operations[k] \in OperationRecord
      /\ operations[k].isRetiring = TRUE
      /\ operations[k].status \in Terminal
  <2>1. operations[k] \in OperationRecord
    BY KeysAreNumbers DEF AccessInv
  <2>2. operations[k].isRetiring
    BY <1>2, <1>3 DEF AccessInv, CapturesAreOwned, Retires
  <2>3. operations[k].status \in Terminal
    BY <2>1, <2>2 DEF AccessInv, FunctionsFollowStatus, OperationRecord, Statuses
  <2>. QED
    BY <2>1, <2>2, <2>3 DEF OperationRecord
<1>. DEFINE new == [operations[k] EXCEPT !.isRetiring = FALSE]
<1>5. new \in OperationRecord /\ Moves(operations[k], new)
  BY <1>4 DEF OperationRecord, Moves
<1>6. new.isRetiring = FALSE /\ new.status = operations[k].status
  BY <1>4 DEF OperationRecord
<1>7. operations' = [operations EXCEPT ![k] = new]
  BY <1>3, <1>4 DEF OperationRecord
<1>. HIDE DEF new
<1>8. /\ Advances
      /\ operations'[k] = new
      /\ \A j \in Keys \ {k} : operations'[j] = operations[j]
  BY <1>4, <1>5, <1>6, <1>7, OneMoves DEF AccessInv, Terminal
<1>9. /\ OperationsType' /\ FunctionsFollowStatus' /\ Keys' = Keys
      /\ ConflictsAreDependencies' /\ QueuedIsReady'
  BY <1>8, AdvancesKeep DEF AccessInv
<1>10. /\ ThreadSteps(t) /\ thread'[t].at = "release"
       /\ thread'[t].call = thread[t].call /\ thread'[t].op = thread[t].op
  BY <1>3, GotoSteps DEF AccessInv, Places
<1>11. /\ thread' \in [Threads -> ThreadRecord]
       /\ \A u \in Threads \ {t} : thread'[u] = thread[u]
  BY <1>10, ThreadsStay DEF AccessInv
<1>12. StateType'
  BY <1>3, <1>9, <1>11, FlagsAre DEF AccessInv, StateType
<1>13. CountersAreExact'
  <2>1. {j \in Keys : operations'[j].status = "RUNNING"} =
           {j \in Keys : operations[j].status = "RUNNING"}
    BY <1>6, <1>8
  <2>2. {j \in Keys : operations'[j].isRetiring} = {j \in Keys : operations[j].isRetiring} \ {k}
    BY <1>4, <1>6, <1>8
  <2>. DEFINE dying == {j \in Keys : operations[j].isRetiring}
              left == {j \in Keys : operations'[j].isRetiring}
  <2>3. dying \subseteq 1 .. Len(operations) /\ k \in dying /\ left = dying \ {k}
    BY <1>1, <1>4, <2>2
  <2>. HIDE DEF dying, left
  <2>4. Cardinality(left) = Cardinality(dying) - 1
    BY <1>1, <2>3, CountDown
  <2>. USE DEF dying, left
  <2>5. /\ running' = Cardinality({j \in Keys : operations'[j].status = "RUNNING"})
        /\ retiring' = Cardinality({j \in Keys : operations'[j].isRetiring})
    BY <1>3, <2>1, <2>4 DEF AccessInv, CountersAreExact
  <2>. QED
    BY <1>9, <2>5 DEF CountersAreExact
<1>14. BodiesAreOwned'
  <2>1. \A u \in Threads :
          /\ thread'[u].op = thread[u].op
          /\ thread'[u].op # 0 =>
                thread'[u].op \in Keys /\ operations'[thread'[u].op].status = "RUNNING"
          /\ thread'[u].at = "body" => thread'[u].op # 0
          /\ thread'[u].at \in {"submit", "retire"} => thread'[u].target \in Keys
    BY <1>4, <1>6, <1>8, <1>10, <1>11 DEF AccessInv, BodiesAreOwned, Terminal
  <2>2. \A u, v \in Threads : thread'[u].op # 0 /\ thread'[u].op = thread'[v].op => u = v
    BY <2>1 DEF AccessInv, BodiesAreOwned
  <2>. QED
    BY <1>9, <2>1, <2>2 DEF BodiesAreOwned
<1>15. CapturesAreOwned'
  <2>1. \A u \in Threads, j \in Keys :
           (thread'[u].at = "retire" /\ thread'[u].target = j) <=> Retires(u, j) /\ u # t
    BY <1>3, <1>10, <1>11 DEF Retires
  <2>2. Retires(t, k) /\ (\A u \in Threads : Retires(u, k) => u = t)
        /\ (\A j \in Keys : Retires(t, j) => j = k)
    BY <1>2, <1>3 DEF AccessInv, CapturesAreOwned, Retires
  <2>3. \A j \in Keys : operations'[j].isRetiring <=> operations[j].isRetiring /\ j # k
    BY <1>6, <1>8
  <2>4. /\ \A u \in Threads, j \in Keys :
              (thread'[u].at = "retire" /\ thread'[u].target = j) => operations'[j].isRetiring
        /\ \A j \in Keys : operations'[j].isRetiring =>
              \E u \in Threads : thread'[u].at = "retire" /\ thread'[u].target = j
        /\ \A u, v \in Threads : \A j \in Keys :
              /\ thread'[u].at = "retire" /\ thread'[u].target = j
              /\ thread'[v].at = "retire" /\ thread'[v].target = j
              => u = v
    BY <2>1, <2>2, <2>3 DEF AccessInv, CapturesAreOwned
  <2>. QED
    BY <1>9, <2>4 DEF CapturesAreOwned, Retires
<1>16. StopIsFinal'
  <2>1. thread'[t].call = "Stop" => Stopped
    BY <1>3, <1>8, <1>10, StopFollows, FlagsAre
  <2>. QED
    BY <1>3, <1>8, <1>10, <2>1, StopStays, FlagsAre
<1>17. AccessesAreOfDomain' /\ SealIsFinal'
  BY <1>3, <1>8, DomainStays, SealStays, FlagsAre DEF AccessInv, SealIsFinal
<1>. QED
  BY <1>9, <1>12, <1>13, <1>14, <1>15, <1>16, <1>17 DEF AccessInv

LEMMA BeginKeeps ==
  ASSUME AccessInv, NEW w \in Workers, NEW k \in Keys, Begin(w, k)
  PROVE  AccessInv'
<1>1. /\ Len(operations) \in Nat /\ Keys = 1 .. Len(operations)
      /\ k \in 1 .. MaxOperations /\ operations[k] \in OperationRecord /\ w \in Threads
  BY KeysAreNumbers DEF AccessInv, Keys, Threads
<1>2. /\ thread[w].at = "idle" /\ submitted' = submitted \ {k}
      /\ domain' = domain /\ flags' = flags /\ retiring' = retiring
  BY DEF Begin
<1>3. CASE operations[k].status # "QUEUED"
  <2>1. operations' = operations /\ running' = running /\ thread' = thread
    BY <1>3 DEF Begin
  <2>2. ThreadSteps(w)
    BY <1>1, <2>1, NoThreadSteps DEF AccessInv
  <2>3. submitted' \subseteq Keys
    BY <1>2 DEF AccessInv, StateType
  <2>4. thread[w].at = "idle" /\ thread'[w] = thread[w]
    BY <1>2, <2>1
  <2>. QED
    BY <1>1, <1>2, <2>1, <2>2, <2>3, <2>4, QuietKeeps, FlagsAre DEF AccessInv, StateType
<1>4. CASE operations[k].status = "QUEUED"
  <2>. DEFINE new == [operations[k] EXCEPT !.status = "RUNNING", !.function = FALSE]
  <2>1. /\ operations' = [operations EXCEPT ![k].status = "RUNNING", ![k].function = FALSE]
        /\ running' = running + 1
        /\ thread' = [thread EXCEPT ![w].at = "body", ![w].op = k]
    BY <1>4 DEF Begin
  <2>2. new \in OperationRecord /\ Moves(operations[k], new)
    BY <1>1, <1>4 DEF OperationRecord, Moves, Statuses
  <2>3. new.status = "RUNNING" /\ new.isRetiring = operations[k].isRetiring
    BY <1>1 DEF OperationRecord
  <2>4. operations' = [operations EXCEPT ![k] = new]
    BY <2>1, <1>1 DEF OperationRecord
  <2>. HIDE DEF new
  <2>5. /\ Advances
        /\ operations'[k] = new
        /\ \A j \in Keys \ {k} : operations'[j] = operations[j]
    BY <1>4, <2>2, <2>3, <2>4, OneMoves DEF AccessInv
  <2>6. /\ OperationsType' /\ FunctionsFollowStatus' /\ Keys' = Keys
        /\ ConflictsAreDependencies' /\ QueuedIsReady'
    BY <2>5, AdvancesKeep DEF AccessInv
  <2>7. /\ ThreadSteps(w) /\ thread'[w].at = "body" /\ thread'[w].op = k
        /\ thread'[w].call = thread[w].call
    <3>1. thread[w] \in ThreadRecord
      BY <1>1 DEF AccessInv, StateType
    <3>2. thread'[w] = [at |-> "body", call |-> thread[w].call, op |-> k,
                        key |-> thread[w].key, target |-> thread[w].target]
      BY <1>1, <2>1, <3>1 DEF AccessInv, StateType, ThreadRecord
    <3>3. thread'[w] \in ThreadRecord
      BY <1>1, <3>1, <3>2 DEF ThreadRecord, Places
    <3>4. thread' = [thread EXCEPT ![w] = thread'[w]]
      BY <1>1, <2>1 DEF AccessInv, StateType
    <3>. QED
      BY <3>2, <3>3, <3>4 DEF ThreadSteps
  <2>8. /\ thread' \in [Threads -> ThreadRecord]
        /\ \A u \in Threads \ {w} : thread'[u] = thread[u]
    BY <1>1, <2>7, ThreadsStay DEF AccessInv
  <2>9. StateType'
    BY <1>2, <2>6, <2>8, FlagsAre DEF AccessInv, StateType
  <2>10. CountersAreExact'
    <3>1. {j \in Keys : operations'[j].isRetiring} = {j \in Keys : operations[j].isRetiring}
      BY <2>3, <2>5
    <3>2. {j \in Keys : operations'[j].status = "RUNNING"} =
             {j \in Keys : operations[j].status = "RUNNING"} \cup {k}
      BY <2>3, <2>5
    <3>. DEFINE bodies == {j \in Keys : operations[j].status = "RUNNING"}
                left == {j \in Keys : operations'[j].status = "RUNNING"}
    <3>3. bodies \subseteq 1 .. Len(operations) /\ k \notin bodies /\ left = bodies \cup {k}
      BY <1>1, <1>4, <3>2
    <3>. HIDE DEF bodies, left
    <3>4. Cardinality(left) = Cardinality(bodies) + 1
      BY <1>1, <3>3, CountUp
    <3>. USE DEF bodies, left
    <3>5. /\ running' = Cardinality({j \in Keys : operations'[j].status = "RUNNING"})
          /\ retiring' = Cardinality({j \in Keys : operations'[j].isRetiring})
      BY <1>2, <2>1, <3>1, <3>4 DEF AccessInv, CountersAreExact
    <3>. QED
      BY <2>6, <3>5 DEF CountersAreExact
  <2>11. BodiesAreOwned'
    <3>1. \A u \in Threads : thread[u].op # k
      BY <1>1, <1>4 DEF AccessInv, BodiesAreOwned
    <3>2. ASSUME NEW u \in Threads
          PROVE  /\ thread'[u].op # 0 =>
                       thread'[u].op \in Keys /\ operations'[thread'[u].op].status = "RUNNING"
                 /\ thread'[u].at = "body" => thread'[u].op # 0
                 /\ thread'[u].at \in {"submit", "retire"} => thread'[u].target \in Keys
      <4>1. CASE u = w
        BY <1>1, <2>3, <2>5, <2>7, <4>1
      <4>2. CASE u # w
        <5>1. thread'[u] = thread[u]
          BY <2>8, <4>2
        <5>2. thread[u].op # 0 => thread[u].op \in Keys \ {k}
                                  /\ operations[thread[u].op].status = "RUNNING"
          BY <3>1 DEF AccessInv, BodiesAreOwned
        <5>. QED
          BY <2>5, <5>1, <5>2 DEF AccessInv, BodiesAreOwned
      <4>. QED
        BY <4>1, <4>2
    <3>3. \A u, v \in Threads : thread'[u].op # 0 /\ thread'[u].op = thread'[v].op => u = v
      BY <2>7, <2>8, <3>1 DEF AccessInv, BodiesAreOwned
    <3>. QED
      BY <2>6, <3>2, <3>3 DEF BodiesAreOwned
  <2>12. CapturesAreOwned'
    <3>1. \A u \in Threads, j \in Keys :
             (thread'[u].at = "retire" /\ thread'[u].target = j) <=> Retires(u, j)
      BY <1>2, <2>7, <2>8 DEF Retires
    <3>2. \A j \in Keys : operations'[j].isRetiring <=> operations[j].isRetiring
      BY <2>3, <2>5
    <3>3. /\ \A u \in Threads, j \in Keys :
                (thread'[u].at = "retire" /\ thread'[u].target = j) => operations'[j].isRetiring
          /\ \A j \in Keys : operations'[j].isRetiring =>
                \E u \in Threads : thread'[u].at = "retire" /\ thread'[u].target = j
          /\ \A u, v \in Threads : \A j \in Keys :
                /\ thread'[u].at = "retire" /\ thread'[u].target = j
                /\ thread'[v].at = "retire" /\ thread'[v].target = j
                => u = v
      BY <3>1, <3>2 DEF AccessInv, CapturesAreOwned
    <3>. QED
      BY <2>6, <3>3 DEF CapturesAreOwned, Retires
  <2>13. StopIsFinal'
    <3>1. thread'[w].call = "Stop" => Stopped
      BY <1>1, <1>2, <2>5, <2>7, StopFollows, FlagsAre
    <3>. QED
      BY <1>1, <1>2, <2>5, <2>7, <3>1, StopStays, FlagsAre
  <2>14. AccessesAreOfDomain' /\ SealIsFinal'
    BY <1>2, <2>5, DomainStays, SealStays, FlagsAre DEF AccessInv, SealIsFinal
  <2>. QED
    BY <2>6, <2>9, <2>10, <2>11, <2>12, <2>13, <2>14 DEF AccessInv
<1>. QED
  BY <1>3, <1>4

LEMMA EndKeeps ==
  ASSUME AccessInv, NEW w \in Workers, NEW failed \in BOOLEAN, End(w, failed)
  PROVE  AccessInv'
<1>1. w \in Threads
  BY DEF Threads
<1>2. PICK k \in Keys : k = thread[w].op /\ operations[k].status = "RUNNING" /\ k # 0
  BY <1>1 DEF End, AccessInv, BodiesAreOwned
<1>3. /\ Len(operations) \in Nat /\ Keys = 1 .. Len(operations)
      /\ operations[k] \in OperationRecord
  BY KeysAreNumbers DEF AccessInv, Keys
<1>4. /\ thread[w].at = "body"
      /\ operations' = [operations EXCEPT ![k].status = IF failed THEN "FAILED" ELSE "COMPLETED"]
      /\ hasFailure' = (hasFailure \/ failed) /\ running' = running - 1
      /\ thread' = [thread EXCEPT ![w] = [at |-> "progress", call |-> "Run",
                                            op |-> 0, key |-> 0, target |-> 0]]
      /\ domain' = domain /\ closed' = closed /\ sealed' = sealed
      /\ sealCompleted' = sealCompleted /\ retiring' = retiring /\ submitted' = submitted
  BY <1>2 DEF End
<1>5. PICK status \in {"FAILED", "COMPLETED"} :
        status = IF failed THEN "FAILED" ELSE "COMPLETED"
  OBVIOUS
<1>. DEFINE new == [operations[k] EXCEPT !.status = status]
<1>6. new \in OperationRecord /\ Moves(operations[k], new)
  BY <1>2, <1>3, <1>5 DEF OperationRecord, Moves, Statuses, Terminal
<1>7. new.status = status /\ new.isRetiring = operations[k].isRetiring
  BY <1>3 DEF OperationRecord
<1>8. operations' = [operations EXCEPT ![k] = new]
  BY <1>4, <1>5
<1>. HIDE DEF new
<1>9. /\ Advances
      /\ operations'[k] = new
      /\ \A j \in Keys \ {k} : operations'[j] = operations[j]
  BY <1>2, <1>6, <1>8, OneMoves DEF AccessInv
<1>10. /\ OperationsType' /\ FunctionsFollowStatus' /\ Keys' = Keys
       /\ ConflictsAreDependencies' /\ QueuedIsReady'
  BY <1>9, AdvancesKeep DEF AccessInv
<1>11. /\ ThreadSteps(w) /\ thread'[w].at = "progress" /\ thread'[w].op = 0
       /\ thread'[w].call = "Run"
  <2>1. thread'[w] = [at |-> "progress", call |-> "Run", op |-> 0, key |-> 0, target |-> 0]
    BY <1>1, <1>4 DEF AccessInv, StateType
  <2>2. thread'[w] \in ThreadRecord
    BY <2>1, BoundsAssumption DEF ThreadRecord, Places, CallNames
  <2>3. thread' = [thread EXCEPT ![w] = thread'[w]]
    BY <1>4, <2>1
  <2>. QED
    BY <2>1, <2>2, <2>3 DEF ThreadSteps
<1>12. /\ thread' \in [Threads -> ThreadRecord]
       /\ \A u \in Threads \ {w} : thread'[u] = thread[u]
  BY <1>1, <1>11, ThreadsStay DEF AccessInv
<1>13. StateType'
  <2>1. hasFailure' \in BOOLEAN
    BY <1>4, Zenon DEF AccessInv, StateType
  <2>. QED
    BY <1>4, <1>10, <1>12, <2>1 DEF AccessInv, StateType
<1>14. CountersAreExact'
  <2>1. {j \in Keys : operations'[j].isRetiring} = {j \in Keys : operations[j].isRetiring}
    BY <1>7, <1>9
  <2>2. {j \in Keys : operations'[j].status = "RUNNING"} =
           {j \in Keys : operations[j].status = "RUNNING"} \ {k}
    BY <1>5, <1>7, <1>9
  <2>. DEFINE bodies == {j \in Keys : operations[j].status = "RUNNING"}
              left == {j \in Keys : operations'[j].status = "RUNNING"}
  <2>3. bodies \subseteq 1 .. Len(operations) /\ k \in bodies /\ left = bodies \ {k}
    BY <1>2, <1>3, <2>2
  <2>. HIDE DEF bodies, left
  <2>4. Cardinality(left) = Cardinality(bodies) - 1
    BY <1>3, <2>3, CountDown
  <2>. USE DEF bodies, left
  <2>5. /\ running' = Cardinality({j \in Keys : operations'[j].status = "RUNNING"})
        /\ retiring' = Cardinality({j \in Keys : operations'[j].isRetiring})
    BY <1>4, <2>1, <2>4 DEF AccessInv, CountersAreExact
  <2>. QED
    BY <1>10, <2>5 DEF CountersAreExact
<1>15. BodiesAreOwned'
  <2>1. \A u \in Threads \ {w} : thread[u].op # k
    BY <1>1, <1>2 DEF AccessInv, BodiesAreOwned
  <2>2. ASSUME NEW u \in Threads
        PROVE  /\ thread'[u].op # 0 =>
                     thread'[u].op \in Keys /\ operations'[thread'[u].op].status = "RUNNING"
               /\ thread'[u].at = "body" => thread'[u].op # 0
               /\ thread'[u].at \in {"submit", "retire"} => thread'[u].target \in Keys
    <3>1. CASE u = w
      BY <1>11, <3>1
    <3>2. CASE u # w
      <4>1. thread'[u] = thread[u]
        BY <1>12, <3>2
      <4>2. thread[u].op # 0 => thread[u].op \in Keys \ {k}
                                /\ operations[thread[u].op].status = "RUNNING"
        BY <2>1, <3>2 DEF AccessInv, BodiesAreOwned
      <4>. QED
        BY <1>9, <4>1, <4>2 DEF AccessInv, BodiesAreOwned
    <3>. QED
      BY <3>1, <3>2
  <2>3. \A u, v \in Threads : thread'[u].op # 0 /\ thread'[u].op = thread'[v].op => u = v
    BY <1>11, <1>12 DEF AccessInv, BodiesAreOwned
  <2>. QED
    BY <1>10, <2>2, <2>3 DEF BodiesAreOwned
<1>16. CapturesAreOwned'
  <2>1. \A u \in Threads, j \in Keys :
           (thread'[u].at = "retire" /\ thread'[u].target = j) <=> Retires(u, j)
    BY <1>4, <1>11, <1>12 DEF Retires
  <2>2. \A j \in Keys : operations'[j].isRetiring <=> operations[j].isRetiring
    BY <1>7, <1>9
  <2>3. /\ \A u \in Threads, j \in Keys :
              (thread'[u].at = "retire" /\ thread'[u].target = j) => operations'[j].isRetiring
        /\ \A j \in Keys : operations'[j].isRetiring =>
              \E u \in Threads : thread'[u].at = "retire" /\ thread'[u].target = j
        /\ \A u, v \in Threads : \A j \in Keys :
              /\ thread'[u].at = "retire" /\ thread'[u].target = j
              /\ thread'[v].at = "retire" /\ thread'[v].target = j
              => u = v
    BY <2>1, <2>2 DEF AccessInv, CapturesAreOwned
  <2>. QED
    BY <1>10, <2>3 DEF CapturesAreOwned, Retires
<1>17. AccessesAreOfDomain' /\ StopIsFinal' /\ SealIsFinal'
  BY <1>1, <1>4, <1>9, <1>11, DomainStays, StopStays, SealStays DEF AccessInv, SealIsFinal
<1>. QED
  BY <1>10, <1>13, <1>14, <1>15, <1>16, <1>17 DEF AccessInv

LEMMA AccessStutters ==
  ASSUME AccessInv, UNCHANGED vars
  PROVE  AccessInv'
BY DEF vars, flags, AccessInv, OperationsType, StateType, FunctionsFollowStatus,
       CountersAreExact, BodiesAreOwned, CapturesAreOwned, Retires, ConflictsAreDependencies,
       QueuedIsReady, AccessesAreOfDomain, StopIsFinal, SealIsFinal, NothingHeld, Keys

LEMMA AccessSteps ==
  ASSUME AccessInv, Next
  PROVE  AccessInv'
<1>1. ASSUME NEW t \in Threads, Call(t)
      PROVE  AccessInv'
  <2>1. CASE \E d \in Types, generation \in 1 .. MaxGeneration : RegisterDomain(t, d, generation)
    BY <2>1, RegisterDomainKeeps
  <2>2. CASE \E footprint \in Footprints, dependencies \in SUBSET Known :
               Schedule(t, footprint, dependencies)
    BY <2>2, ScheduleKeeps
  <2>3. CASE \E k \in Known : Cancel(t, k)
    BY <2>3, KnownIsKey, CancelKeeps DEF AccessInv
  <2>. QED
    BY <1>1, <2>1, <2>2, <2>3, SealKeeps, StopKeeps DEF Call
<1>2. ASSUME NEW t \in Threads, Step(t)
      PROVE  AccessInv'
  BY <1>2, ProgressKeeps, SubmitKeeps, SubmitThrowsKeeps, ReleaseKeeps, RetiredKeeps,
     ReleasedKeeps, StopWaitKeeps, CompleteSealKeeps, StopDropsKeeps DEF Step
<1>3. ASSUME NEW w \in Workers, Work(w)
      PROVE  AccessInv'
  BY <1>3, BeginKeeps, EndKeeps DEF Work
<1>. QED
  BY <1>1, <1>2, <1>3 DEF Next

-----------------------------------------------------------------------------
(* What the invariant says to a user of the coordinator. *)

(* An access is held as long as the operation or what it captured may touch the
   data. *)
LEMMA InUseIsHeld ==
  ASSUME AccessInv, NEW k \in Keys, InUse(k)
  PROVE  HoldsAccess(operations[k])
BY DEF InUse, HoldsAccess, AccessInv, CapturesAreOwned, Retires

LEMMA AccessImpliesSafe ==
  ASSUME AccessInv
  PROVE  AccessIsSafe
<1>1. TypeOK
  <2>1. /\ Len(operations) <= MaxOperations
        /\ \A k \in Keys :
             /\ operations[k].status \in Statuses
             /\ operations[k].dependencies \subseteq 1 .. (k - 1)
             /\ operations[k].function \in BOOLEAN /\ operations[k].isRetiring \in BOOLEAN
    BY KeysAreNumbers DEF AccessInv, OperationsType, OperationRecord
  <2>. QED
    BY <2>1 DEF AccessInv, StateType, CountersAreExact, TypeOK, flags, ThreadRecord, Places,
                CallNames
<1>2. ConflictsExclude
  <2>1. ASSUME NEW later \in Keys, operations[later].status \in {"QUEUED", "RUNNING"},
               NEW earlier \in 1 .. (later - 1),
               SharesWrittenData(operations[earlier].footprints, operations[later].footprints),
               InUse(earlier)
        PROVE  FALSE
    <3>1. earlier \in Keys
      BY KeysAreNumbers DEF AccessInv, Keys
    <3>2. HoldsAccess(operations[earlier])
      BY <2>1, <3>1, InUseIsHeld
    <3>3. earlier \in operations[later].dependencies
      BY <2>1, <3>2 DEF AccessInv, ConflictsAreDependencies
    <3>4. operations[earlier].status = "COMPLETED"
      BY <2>1, <3>3 DEF AccessInv, QueuedIsReady
    <3>. QED
      BY <3>1, <3>2, <3>4 DEF AccessInv, FunctionsFollowStatus, HoldsAccess, Terminal
  <2>. QED
    BY <2>1 DEF ConflictsExclude
<1>3. HeldDomainsAreCurrent
  BY InUseIsHeld DEF HeldDomainsAreCurrent, AccessInv, AccessesAreOfDomain
<1>4. DrainedIsQuiet
  BY InUseIsHeld DEF DrainedIsQuiet, AccessInv, SealIsFinal, NothingHeld
<1>. QED
  BY <1>1, <1>2, <1>3, <1>4 DEF AccessIsSafe, AccessIsExclusive

(* For every number of threads, operations and generations, whatever accesses the
   operations declare, and whoever calls Schedule, Cancel, Seal and Stop in
   whatever order: the bookkeeping of the coordinator is right, conflicting
   operations exclude each other until their captures are destroyed, the domain of
   a held access is current, and OnDrained finds nothing in use. *)
THEOREM AccessSafe == Spec => []AccessIsSafe
<1>1. Init => AccessInv
  BY AccessInitially
<1>2. AccessInv /\ [Next]_vars => AccessInv'
  BY AccessSteps, AccessStutters
<1>3. AccessInv => AccessIsSafe
  BY AccessImpliesSafe
<1>. QED
  BY <1>1, <1>2, <1>3, PTL DEF Spec

=============================================================================
