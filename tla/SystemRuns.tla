----------------------------- MODULE SystemRuns -----------------------------
(***************************************************************************)
(* A run of a World's systems on the task system (SystemRunState in        *)
(* ecs/world.cpp, ecs/internal/system_run.h).  Publication submits the     *)
(* systems one by one while those submitted already run; producers hold    *)
(* tickets beyond their system; the participant that retires last commits  *)
(* or discards what the systems deferred and ends the run.  A World with a *)
(* scoped system leaves the order of conflicting systems to an access      *)
(* coordinator.                                                            *)
(***************************************************************************)
EXTENDS Integers, Sequences, FiniteSets

CONSTANTS Systems,       \* their schedule ids
          Constraints,   \* pairs <<before, after>>
          Accesses,      \* Accesses[s]: [component, write, scope]
          Layouts,       \* which of them are scoped, i.e. have views of a batch
          Producing,     \* systems with a structural order, which make buffers
          MaxRuns, MaxTickets

ASSUME SystemRunsAssumption ==
    /\ IsFiniteSet(Systems) /\ Systems \subseteq Nat
    /\ Constraints \subseteq Systems \X Systems
    /\ Layouts \subseteq SUBSET Systems /\ Producing \subseteq Systems
    /\ MaxRuns \in Nat /\ MaxTickets \in Nat

VARIABLES scoped,      \* the scoped systems, as they were registered
          runs,        \* the SystemRunStates, in the order they were prepared
          guard,       \* IsRunningSystems_
          closed,      \* ExecutionPoisoned_
          dirty,       \* ScopedDirtyTypes_ and ScopedDirtyAll_ (as every component)
          written      \* components systems may have written since dirty was taken

systemRunVars == <<scoped, runs, guard, closed, dirty, written>>

---------------------------------------------------------------------------
(* The execution graph *)

Components == UNION {{a.component : a \in Accesses[s]} : s \in Systems}

(* The ready system with the smallest id comes next.                       *)
IsOrder(o) ==
    \A n \in 1 .. Cardinality(Systems) :
       LET earlier == {o[k] : k \in 1 .. n - 1}
           ready == {s \in Systems \ earlier :
                        \A c \in Constraints : c[2] = s => c[1] \in earlier}
       IN  o[n] \in ready /\ \A s \in ready : o[n] <= s

Orders == {o \in [1 .. Cardinality(Systems) -> Systems] : IsOrder(o)}
Order == CHOOSE o \in Orders : TRUE

(* No World runs with constraints that have a cycle: they are refused.     *)
ASSUME ScheduleAssumption == Orders # {}

Position(s) == CHOOSE k \in 1 .. Len(Order) : Order[k] = s

Conflict(s, t) ==
    \E a \in Accesses[s], b \in Accesses[t] :
       a.component = b.component /\ (a.write \/ b.write)

(* the constraint alone orders systems that conflict *)
MutantDependencies(s) ==
    {p \in Systems : <<p, s>> \in Constraints}

(* Two scoped systems are left to the coordinator.                         *)
Dependencies(s) ==
    {p \in Systems : \/ <<p, s>> \in Constraints
                     \/ /\ Position(p) < Position(s) /\ Conflict(p, s)
                        /\ ~(p \in scoped /\ s \in scoped)}

HasCoordinator == scoped # {}

(* A system that declares nothing takes the whole World, where there is a  *)
(* coordinator it can take it from.                                        *)
IsExclusive(s) == HasCoordinator /\ s \notin scoped /\ Accesses[s] = {}

(* What footprints overlap, entity by entity where both are scoped.        *)
FootprintsOverlap(s, t) ==
    \/ IsExclusive(s) \/ IsExclusive(t)
    \/ \E a \in Accesses[s], b \in Accesses[t] :
          /\ a.component = b.component /\ (a.write \/ b.write)
          /\ {s, t} \subseteq scoped => a.scope \cap b.scope # {}

(* The coordinator holds an operation back behind those scheduled earlier.  *)
HeldBy(s) == IF HasCoordinator
             THEN {p \in Systems : Position(p) < Position(s) /\ FootprintsOverlap(p, s)}
             ELSE {}

---------------------------------------------------------------------------
(* Runs *)

Fresh == [started |-> FALSE, publishing |-> FALSE, sealed |-> FALSE, published |-> 0,
          cancelled |-> FALSE, failed |-> FALSE, publicationError |-> FALSE,
          outstanding |-> 1, stage |-> "open", result |-> "none", outcome |-> "none",
          systems |-> [s \in Systems |-> "unpublished"], errors |-> {}, invoked |-> {},
          tickets |-> [s \in Systems |-> 0], deferred |-> {}, applied |-> {}, calls |-> 0]

SystemRunInit ==
        /\ scoped \in Layouts
        /\ runs = <<>> /\ guard = FALSE /\ closed = FALSE /\ dirty = {} /\ written = {}

Stopped(r) == r.cancelled \/ r.failed

(* A system that is over ended, or its operation failed or was cancelled    *)
(* before the system was entered.                                          *)
Over == {"unpublished", "ended", "failed", "cancelled"}
HasFailure(r) == \E s \in Systems : r.systems[s] = "failed"

(* The last participant to retire goes on to the end of the run.           *)
Retired(r) == [r EXCEPT !.outstanding = r.outstanding - 1,
                        !.stage = IF r.outstanding = 1 THEN "commit" ELSE r.stage]

(* A system counts as participant without a coordinator; with one, the     *)
(* first participant retires when the coordinator is sealed and drained.   *)
Ended(r) == IF HasCoordinator THEN r ELSE Retired(r)

Becomes(k, r) == runs' = [runs EXCEPT ![k] = r] /\ UNCHANGED scoped

Prepare ==
    /\ Len(runs) < MaxRuns /\ ~guard /\ ~closed
    /\ guard' = TRUE /\ runs' = Append(runs, Fresh)
    /\ UNCHANGED <<scoped, closed, dirty, written>>

RequestCancel(k) ==
    /\ ~runs[k].cancelled /\ runs[k].outcome = "none"
    /\ Becomes(k, [runs[k] EXCEPT !.cancelled = TRUE])
    /\ UNCHANGED <<guard, closed, dirty, written>>

Start(k) ==
    /\ ~runs[k].started
    /\ Becomes(k, [runs[k] EXCEPT !.started = TRUE, !.publishing = TRUE])
    /\ UNCHANGED <<guard, closed, dirty, written>>

(* A PreparedSystemRun that is dropped before it was started.              *)
Abandon(k) ==
    /\ ~runs[k].started
    /\ LET r == [runs[k] EXCEPT !.started = TRUE, !.cancelled = TRUE, !.sealed = TRUE]
       IN  Becomes(k, IF HasCoordinator THEN r ELSE Retired(r))
    /\ UNCHANGED <<guard, closed, dirty, written>>

(* A submission counts its system before it may run, or fails; a            *)
(* coordinator with a failed operation takes no more of them.              *)
PublishNext(k) ==
    LET r == runs[k]
        s == Order[r.published + 1]
    IN  /\ r.publishing /\ ~Stopped(r) /\ ~HasFailure(r) /\ r.published < Len(Order)
        /\ Becomes(k, [r EXCEPT !.published = @ + 1, !.systems[s] = "queued",
                                !.outstanding = @ + IF HasCoordinator THEN 0 ELSE 1])
        /\ UNCHANGED <<guard, closed, dirty, written>>

PublishFails(k) ==
    LET r == runs[k]
    IN  /\ r.publishing /\ ~Stopped(r) /\ r.published < Len(Order)
        /\ Becomes(k, [r EXCEPT !.publicationError = TRUE, !.failed = TRUE])
        /\ UNCHANGED <<guard, closed, dirty, written>>

(* a publication that failed returns before it seals or retires *)
MutantPublicationEnds(k) ==
    LET r == [runs[k] EXCEPT !.publishing = FALSE, !.sealed = TRUE]
    IN  /\ runs[k].publishing /\ (Stopped(r) \/ r.published = Len(Order))
        /\ Becomes(k, IF r.publicationError THEN [r EXCEPT !.sealed = FALSE]
                      ELSE IF HasCoordinator THEN r ELSE Retired(r))
        /\ UNCHANGED <<guard, closed, dirty, written>>

(* The publisher retires, or seals the coordinator.                        *)
PublicationEnds(k) ==
    LET r == [runs[k] EXCEPT !.publishing = FALSE, !.sealed = TRUE]
    IN  /\ runs[k].publishing /\ (Stopped(r) \/ r.published = Len(Order))
        /\ Becomes(k, IF HasCoordinator THEN r ELSE Retired(r))
        /\ UNCHANGED <<guard, closed, dirty, written>>

(* the run does not ask for the errors of its operations *)
MutantDrained(k) ==
    LET r == runs[k]
    IN  /\ HasCoordinator /\ r.sealed /\ \A s \in Systems : r.systems[s] \in Over
        /\ Becomes(k, Retired([r EXCEPT !.sealed = FALSE]))
        /\ UNCHANGED <<guard, closed, dirty, written>>

(* The errors of its operations fail the run that they did not stop.       *)
Drained(k) ==
    LET r == runs[k]
    IN  /\ HasCoordinator /\ r.sealed /\ \A s \in Systems : r.systems[s] \in Over
        /\ Becomes(k, Retired([r EXCEPT !.sealed = FALSE,
                                        !.publicationError = @ \/ HasFailure(r)]))
        /\ UNCHANGED <<guard, closed, dirty, written>>

(* Progress of a coordinator submits the work of an operation that waits no *)
(* longer.  The submission may throw: the operation fails, nobody enters    *)
(* its system, and the run, which is not told, goes on.                    *)
OperationFails(k, s) ==
    /\ HasCoordinator /\ runs[k].systems[s] = "queued"
    /\ \A p \in Dependencies(s) \cup HeldBy(s) : runs[k].systems[p] = "ended"
    /\ Becomes(k, [runs[k] EXCEPT !.systems[s] = "failed"])
    /\ UNCHANGED <<guard, closed, dirty, written>>

(* What waits for an operation that failed or was cancelled is cancelled.   *)
OperationCancelled(k, s) ==
    /\ HasCoordinator /\ runs[k].systems[s] = "queued"
    /\ \E p \in Dependencies(s) \cup HeldBy(s) : runs[k].systems[p] \in {"failed", "cancelled"}
    /\ Becomes(k, [runs[k] EXCEPT !.systems[s] = "cancelled"])
    /\ UNCHANGED <<guard, closed, dirty, written>>

(* A system whose dependencies ended is entered, or skipped in a run that  *)
(* stopped.                                                                *)
EnterSystem(k, s) ==
    LET r == runs[k]
    IN  /\ r.systems[s] = "queued"
        /\ \A p \in Dependencies(s) \cup HeldBy(s) : r.systems[p] = "ended"
        /\ IF Stopped(r)
           THEN /\ Becomes(k, Ended([r EXCEPT !.systems[s] = "ended"]))
                /\ UNCHANGED written
           ELSE /\ Becomes(k, [r EXCEPT !.systems[s] = "running", !.invoked = @ \cup {s}])
                /\ written' = written \cup (IF IsExclusive(s) THEN Components
                                            ELSE {a.component : a \in {x \in Accesses[s] : x.write}})
        /\ UNCHANGED <<guard, closed, dirty>>

LeaveSystem(k, s, throws) ==
    LET r == [runs[k] EXCEPT !.systems[s] = "ended",
                             !.failed = @ \/ throws,
                             !.errors = IF throws THEN @ \cup {s} ELSE @]
    IN  /\ runs[k].systems[s] = "running"
        /\ Becomes(k, Ended(r))
        /\ UNCHANGED <<guard, closed, dirty, written>>

(* A buffer takes a ticket, unless the run stopped.                        *)
CreateBuffer(k, s) ==
    LET r == runs[k]
    IN  /\ r.systems[s] = "running" /\ s \in Producing /\ ~Stopped(r)
        /\ r.tickets[s] < MaxTickets
        /\ Becomes(k, [r EXCEPT !.tickets[s] = @ + 1, !.outstanding = @ + 1])
        /\ UNCHANGED <<guard, closed, dirty, written>>

(* Its owner submits it, in the system or after it, or drops it; giving the *)
(* reservations back may throw, which closes the World.                     *)
SubmitBuffer(k, s) ==
    /\ runs[k].tickets[s] > 0
    /\ Becomes(k, Retired([runs[k] EXCEPT !.tickets[s] = @ - 1, !.deferred = @ \cup {s}]))
    /\ UNCHANGED <<guard, closed, dirty, written>>

DropBuffer(k, s, throws) ==
    /\ runs[k].tickets[s] > 0
    /\ Becomes(k, Retired([runs[k] EXCEPT !.tickets[s] = @ - 1, !.failed = @ \/ throws]))
    /\ closed' = (closed \/ throws)
    /\ UNCHANGED <<guard, dirty, written>>

---------------------------------------------------------------------------
(* The end of a run, by the participant that retired last *)

(* cancellation is looked at before failure *)
MutantVerdict(r) == IF r.cancelled THEN "CANCELLED"
                    ELSE IF r.publicationError THEN "FAILED" ELSE "COMPLETED"

Verdict(r) == IF r.publicationError \/ r.errors # {} \/ r.failed THEN "FAILED"
              ELSE IF r.cancelled THEN "CANCELLED" ELSE "COMPLETED"

(* CollectScopedDirty: what invoked systems declared to write.             *)
DirtyOf(r) ==
    IF ~HasCoordinator THEN {}
    ELSE UNION {IF IsExclusive(s) THEN Components
                ELSE {a.component : a \in {x \in Accesses[s] : x.write}} : s \in r.invoked}

(* A completed run commits, any other run discards.  What throws fails the  *)
(* run and closes the World; a commit may have applied a part.              *)
Commit(k, throws) ==
    LET r == runs[k]
    IN  /\ r.stage = "commit"
        /\ \E applied \in IF Verdict(r) # "COMPLETED" THEN {{}}
                          ELSE IF throws THEN SUBSET r.deferred ELSE {r.deferred} :
              Becomes(k, [r EXCEPT !.stage = "release", !.applied = applied,
                              !.result = IF throws THEN "FAILED" ELSE Verdict(r)])
        /\ closed' = (closed \/ throws)
        /\ dirty' = dirty \cup DirtyOf(r)
        /\ UNCHANGED <<guard, written>>

(* The World can be run again before the outcome is there; of the run only *)
(* its result is left.                                                     *)
ReleaseGuard(k) ==
    /\ runs[k].stage = "release" /\ guard' = FALSE
    /\ Becomes(k, [Fresh EXCEPT !.started = TRUE, !.outstanding = 0, !.stage = "outcome",
                              !.result = runs[k].result])
    /\ UNCHANGED <<closed, dirty, written>>

PublishOutcome(k) ==
    /\ runs[k].stage = "outcome"
    /\ Becomes(k, [runs[k] EXCEPT !.stage = "callback", !.outcome = runs[k].result])
    /\ UNCHANGED <<guard, closed, dirty, written>>

CallBack(k) ==
    /\ runs[k].stage = "callback"
    /\ Becomes(k, [runs[k] EXCEPT !.stage = "over", !.calls = @ + 1])
    /\ UNCHANGED <<guard, closed, dirty, written>>

TakeDirtySummary ==
    /\ ~guard /\ HasCoordinator
    /\ dirty' = {} /\ written' = {} /\ UNCHANGED <<scoped, runs, guard, closed>>

RunSteps(k) ==
    \/ PublishNext(k) \/ PublishFails(k) \/ PublicationEnds(k) \/ Drained(k)
    \/ \E s \in Systems : \/ EnterSystem(k, s) \/ LeaveSystem(k, s, FALSE) \/ LeaveSystem(k, s, TRUE)
                           \/ OperationFails(k, s) \/ OperationCancelled(k, s)
    \/ Commit(k, FALSE) \/ Commit(k, TRUE) \/ ReleaseGuard(k) \/ PublishOutcome(k) \/ CallBack(k)

OwnerSteps(k) == Start(k) \/ Abandon(k)

BufferEnds(k) == \E s \in Systems : \/ SubmitBuffer(k, s)
                                    \/ DropBuffer(k, s, FALSE) \/ DropBuffer(k, s, TRUE)

SystemRunNext ==
    \/ Prepare \/ TakeDirtySummary
    \/ \E k \in DOMAIN runs : \/ OwnerSteps(k) \/ RunSteps(k) \/ BufferEnds(k)
                              \/ RequestCancel(k) \/ \E s \in Systems : CreateBuffer(k, s)

SystemRunSpec == SystemRunInit /\ [][SystemRunNext]_systemRunVars

(* The owner starts a run or drops it, workers go on, callbacks return and  *)
(* each buffer is submitted or destroyed.                                   *)
Runs == 1 .. MaxRuns
StepOf(k) == k \in DOMAIN runs /\ RunSteps(k)
OwnerOf(k) == k \in DOMAIN runs /\ OwnerSteps(k)
BuffersOf(k) == k \in DOMAIN runs /\ BufferEnds(k)

SystemRunFairSpec ==
    /\ SystemRunSpec
    /\ \A k \in Runs : /\ WF_systemRunVars(OwnerOf(k)) /\ WF_systemRunVars(StepOf(k))
                       /\ WF_systemRunVars(BuffersOf(k))

---------------------------------------------------------------------------

(* Systems that conflict never run together, and a system comes after       *)
(* those its constraints name.                                              *)
AccessesAreExclusive ==
    \A k \in DOMAIN runs : \A s, t \in Systems :
       LET state == runs[k].systems
       IN  /\ s # t /\ state[s] = "running" /\ state[t] = "running" => ~FootprintsOverlap(s, t)
           /\ <<s, t>> \in Constraints /\ state[t] \in {"running", "ended"} => state[s] = "ended"

(* Once a run commits, none of its systems or buffers is left.             *)
NothingOutlivesTheRun ==
    \A k \in DOMAIN runs : runs[k].stage # "open" =>
       /\ ~runs[k].publishing /\ runs[k].outstanding = 0
       /\ \A s \in Systems : /\ runs[k].systems[s] \in Over
                             /\ runs[k].tickets[s] = 0

(* COMPLETED means that every system ran without error and everything that *)
(* was submitted is applied; a system that threw or was never entered since *)
(* its submission failed makes the run FAILED; a run that failed or was     *)
(* cancelled before its commit changes nothing.                             *)
OutcomesAreTrue ==
    \A k \in DOMAIN runs :
       LET r == runs[k]
       IN  /\ r.stage = "release" =>
                 /\ r.result = "COMPLETED" => /\ r.invoked = Systems /\ r.errors = {}
                                             /\ r.applied = r.deferred
                 /\ r.errors # {} \/ HasFailure(r) => r.result = "FAILED"
                 /\ r.applied # {} => r.result = "COMPLETED" \/ closed
           /\ r.outcome \in {"none", r.result}

(* One run at a time works on the World, and nothing runs on a closed one.  *)
RunsAreExclusive ==
    LET open == {k \in DOMAIN runs : runs[k].stage \in {"open", "commit", "release"}}
    IN  Cardinality(open) = IF guard THEN 1 ELSE 0

(* A summary of a World at rest names every component that was written.    *)
WritesAreReported == HasCoordinator /\ ~guard => written \subseteq dirty

(* A system of a World sees no other one's writes half done, and what the    *)
(* run leaves is what its systems did.                                     *)
RunsAreSafe == /\ AccessesAreExclusive /\ NothingOutlivesTheRun /\ OutcomesAreTrue
               /\ RunsAreExclusive /\ WritesAreReported

(* Every run that was prepared ends, with one call of its owner.  Runs are   *)
(* counted up and ended ones stay so.                                       *)
RunsEnd == []<>(\A k \in DOMAIN runs : runs[k].calls = 1)
=============================================================================
