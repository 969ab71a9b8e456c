--------------------------- MODULE WorldEntities ---------------------------
(***************************************************************************)
(* Entities of a World and the structural commands that are deferred until *)
(* a commit (ecs/world.cpp, ecs/world.h).  Callers create entities at once  *)
(* or reserve their identity in advance, from the host or from systems of  *)
(* a run, directly or through the buffer of a producer.  Systems of a run  *)
(* take turns here, SystemRuns has them concurrent; a run commits or        *)
(* discards what they deferred.  Indices start at 1.                       *)
(***************************************************************************)
EXTENDS Integers, Sequences, FiniteSets, TLC

CONSTANTS Systems,       \* the structural orders of the systems, in execution order
          Producers,     \* producer orders
          AtOnce, Later, \* what callers change at once and what they defer:
                         \* of "destroy", "add" and "remove"
          MaxIssued,     \* bound on the entities created or reserved
          MaxCommands,   \* bound on the commands waiting at a time
          MaxBuffers, MaxRuns

ASSUME WorldEntitiesAssumption ==
    /\ Systems \in Seq(Nat \ {0}) /\ Producers \subseteq Nat
    /\ MaxIssued \in Nat /\ MaxCommands \in Nat /\ MaxBuffers \in Nat /\ MaxRuns \in Nat

VARIABLES world,      \* entities, free, append, pending, generation, components, invalid
          deferred,   \* commands, batches, planned, outstanding
          buffers,    \* the command buffers of producers, in order of creation
          run,        \* status, mode, current system, invocations, runs so far
          poisoned,   \* ExecutionPoisoned_
          issued      \* every identity a caller was given, and how many were given

worldVars == <<world, deferred, buffers, run, poisoned, issued>>

Host == 0   \* the structural order of what no system submits
Elements(s) == {s[k] : k \in 1 .. Len(s)}
Entity(e) == [index |-> e.index, generation |-> e.generation]

---------------------------------------------------------------------------
(* Slots and reservations *)

IsAlive(w, e) == /\ e.index \in DOMAIN w.entities
                 /\ w.entities[e.index].alive
                 /\ w.entities[e.index].generation = e.generation

Without(set, index) == {x \in set : x.index # index}
Pending(w, index) == {x \in w.append : x.index = index}

(* the first index after the entities that nobody reserved                 *)
FindNextDeferredAppendIndex(w) ==
    CHOOSE i \in Len(w.entities) + 1 .. Len(w.entities) + Cardinality(w.append) + 1 :
       /\ Pending(w, i) = {}
       /\ \A k \in Len(w.entities) + 1 .. i - 1 : Pending(w, k) # {}

NextReservation(w) ==
    IF w.free # <<>>
    THEN LET i == w.free[Len(w.free)]
         IN  [index |-> i, generation |-> w.entities[i].generation, reuses |-> TRUE]
    ELSE [index |-> FindNextDeferredAppendIndex(w), generation |-> w.generation, reuses |-> FALSE]

ReserveDeferredEntity(w) ==
    LET r == NextReservation(w)
    IN  IF r.reuses
        THEN [w EXCEPT !.free = SubSeq(@, 1, Len(@) - 1), !.pending = @ + 1]
        ELSE [w EXCEPT !.append = @ \cup {Entity(r)}, !.generation = @ + 1, !.pending = @ + 1]

(* the slot is free again under the generation that was reserved *)
MutantRelease(w, r) ==
    IF r.reuses THEN [w EXCEPT !.pending = @ - 1, !.free = Append(@, r.index)]
    ELSE [w EXCEPT !.pending = @ - 1, !.append = Without(@, r.index)]

(* A reservation given back: its handle must never become alive.           *)
Release(w, r) ==
    IF r.reuses THEN [w EXCEPT !.pending = @ - 1, !.free = Append(@, r.index),
                               !.entities[r.index].generation = @ + 1]
    ELSE [w EXCEPT !.pending = @ - 1, !.append = Without(@, r.index)]

ReleaseAll(w, rs) ==
    LET after[k \in 0 .. Len(rs)] == IF k = 0 THEN w ELSE Release(after[k - 1], rs[k])
    IN  after[Len(rs)]

RollbackDeferredStructuralCommands(w, cs) ==
    ReleaseAll(w, SelectSeq(cs, LAMBDA c : c.op = "create"))

---------------------------------------------------------------------------
(* Commands *)

(* Growing up to an index: slots on the way are reserved or become free.   *)
Gaps(w, index) == {i \in Len(w.entities) + 1 .. index : Pending(w, i) = {}}

Grow(w, index) ==
    LET Slot(i) == IF Pending(w, i) = {}
                   THEN [generation |-> w.generation + Cardinality(Gaps(w, i)) - 1,
                         alive |-> FALSE, reserved |-> FALSE]
                   ELSE [generation |-> (CHOOSE x \in Pending(w, i) : TRUE).generation,
                         alive |-> FALSE, reserved |-> TRUE]
        first == Len(w.entities)
    IN  IF index <= first THEN w
        ELSE [w EXCEPT !.entities = @ \o [k \in 1 .. index - first |-> Slot(first + k)],
                       !.generation = @ + Cardinality(Gaps(w, index)),
                       !.free = @ \o SelectSeq([k \in 1 .. index - first |-> first + k],
                                               LAMBDA i : Pending(w, i) = {})]

ApplyCreate(w, c) ==
    LET grown == IF c.reuses THEN w ELSE Grow(w, c.index)
        slot == grown.entities[c.index]
    IN  IF slot.alive \/ slot.reserved = c.reuses \/ slot.generation # c.generation
        THEN [grown EXCEPT !.invalid = TRUE]
        ELSE [grown EXCEPT !.entities[c.index].alive = TRUE,
                           !.entities[c.index].reserved = FALSE,
                           !.pending = @ - 1,
                           !.append = IF c.reuses THEN @ ELSE Without(@, c.index)]

DestroyEntity(w, e) ==
    IF ~IsAlive(w, e) THEN w
    ELSE [w EXCEPT !.components = @ \ {e.index},
                   !.entities[e.index] = [generation |-> e.generation + 1,
                                          alive |-> FALSE, reserved |-> FALSE],
                   !.free = Append(@, e.index)]

AddComponent(w, e) == IF IsAlive(w, e) THEN [w EXCEPT !.components = @ \cup {e.index}] ELSE w
RemoveComponent(w, e) == IF IsAlive(w, e) THEN [w EXCEPT !.components = @ \ {e.index}] ELSE w

Apply(w, c) == CASE c.op = "create" -> ApplyCreate(w, c)
                 [] c.op = "destroy" -> DestroyEntity(w, c)
                 [] c.op = "add" -> AddComponent(w, c)
                 [] OTHER -> RemoveComponent(w, c)

---------------------------------------------------------------------------
(* Commits *)

SortFree(w) == [w EXCEPT !.free = SortSeq(@, <)]

(* Systems before the host, by structural order, a system before its       *)
(* producers, by producer; then in the order of submission.                *)
Before(a, b) ==
    LET Key(x) == <<IF x.system = Host THEN 1 ELSE 0, x.system,
                    IF x.worker THEN 1 ELSE 0, x.producer, x.number>>
        firstDifference == {k \in 1 .. 5 : /\ Key(a)[k] # Key(b)[k]
                                           /\ \A m \in 1 .. k - 1 : Key(a)[m] = Key(b)[m]}
    IN  \E k \in firstDifference : Key(a)[k] < Key(b)[k]

Flatten(bs) == LET upTo[k \in 0 .. Len(bs)] ==
                       IF k = 0 THEN <<>> ELSE upTo[k - 1] \o bs[k].commands
               IN  upTo[Len(bs)]

Queue(d) == d.commands \o Flatten(SortSeq(d.batches, Before))

(* Reservations that were planned and not taken by a buffer.  The order of  *)
(* the plans decides nothing but the order of free, which is sorted later.  *)
ReleasePlanned(w, plans) ==
    LET one[s \in SUBSET plans] ==
            IF s = {} THEN w
            ELSE LET p == CHOOSE p \in s : TRUE IN ReleaseAll(one[s \ {p}], p.reservations)
    IN  one[plans]

(* The world after the first k commands of the queue.                      *)
After(w, d, k) ==
    LET queue == Queue(d)
        after[n \in 0 .. k] ==
            IF n = 0 THEN ReleasePlanned(w, d.planned) ELSE Apply(after[n - 1], queue[n])
    IN  after[k]

(* The constructor of a component may throw.                               *)
MayThrow(w, d) ==
    {k \in 1 .. Len(Queue(d)) : Queue(d)[k].op = "add" /\ IsAlive(After(w, d, k - 1), Queue(d)[k])}

Emptied(d) == [d EXCEPT !.commands = <<>>, !.batches = <<>>, !.planned = {}]

Committed(w, d) ==
    LET done == After(w, d, Len(Queue(d)))
    IN  [world |-> SortFree([done EXCEPT !.pending = 0, !.append = {}]), deferred |-> Emptied(d)]

(* A command that throws is lost with the component it was to replace; the  *)
(* commands after it wait for the next commit.                             *)
Interrupted(w, d, k) ==
    [world |-> [After(w, d, k - 1) EXCEPT !.components = @ \ {Queue(d)[k].index}],
     deferred |-> [Emptied(d) EXCEPT !.commands = SubSeq(Queue(d), k + 1, Len(Queue(d)))]]

---------------------------------------------------------------------------

EmptyWorld == [entities |-> <<>>, free |-> <<>>, append |-> {}, pending |-> 0,
               generation |-> 0, components |-> {}, invalid |-> FALSE]

WorldInit ==
        /\ world = EmptyWorld
        /\ deferred = [commands |-> <<>>, batches |-> <<>>, planned |-> {},
                       outstanding |-> 0]
        /\ buffers = <<>> /\ poisoned = FALSE
        /\ run = [status |-> "idle", mode |-> "host", current |-> 0, invocations |-> <<>>, id |-> 0]
        /\ issued = [set |-> {}, count |-> 0]

Running == run.status = "running"
IssueEntity(e) == issued' = [set |-> issued.set \cup {Entity(e)}, count |-> issued.count + 1]
MayIssue(n) == issued.count + n <= MaxIssued

Waiting == Len(Queue(deferred))
           + Len(Flatten(run.invocations)) + Len(Flatten(buffers))
           + Len(Flatten([k \in DOMAIN run.invocations |->
                             [commands |-> Flatten(run.invocations[k].workers)]]))
Room == Waiting < MaxCommands

(* Structural changes at once: not during a run, no creation while one is  *)
(* reserved.                                                               *)
CreateEntity ==
    /\ ~Running /\ world.pending = 0 /\ MayIssue(1)
    /\ LET r == NextReservation(world)
           slot == [generation |-> r.generation, alive |-> TRUE, reserved |-> FALSE]
       IN  /\ world' = IF r.reuses
                       THEN [world EXCEPT !.free = SubSeq(@, 1, Len(@) - 1),
                                          !.entities[r.index] = slot]
                       ELSE [world EXCEPT !.entities = Append(@, slot), !.generation = @ + 1]
           /\ IssueEntity(r)
    /\ UNCHANGED <<deferred, buffers, run, poisoned>>

Changes(operations) ==
    {[op |-> op, index |-> e.index, generation |-> e.generation, reuses |-> FALSE] :
        op \in operations, e \in issued.set}

ChangeNow(c) ==
    /\ ~Running /\ world' = Apply(world, c)
    /\ UNCHANGED <<deferred, buffers, run, poisoned, issued>>

(* Deferred on the host, or by the system that runs.                       *)
PushDeferredCommand(c) ==
    IF Running
    THEN /\ run' = [run EXCEPT !.invocations[run.current].commands = Append(@, c)]
         /\ UNCHANGED deferred
    ELSE /\ deferred' = [deferred EXCEPT !.commands = Append(@, c)]
         /\ UNCHANGED run

MayDefer == Room /\ (Running => run.current # 0)

DeferChange(c) == /\ MayDefer /\ PushDeferredCommand(c)
                  /\ UNCHANGED <<world, buffers, poisoned, issued>>

CreateOf(r) == [op |-> "create", index |-> r.index, generation |-> r.generation,
                reuses |-> r.reuses]

(* a system has to use the reservations of a planned producer              *)
DeferCreateEntity ==
    /\ ~Running /\ MayDefer /\ MayIssue(1)
    /\ LET r == NextReservation(world)
       IN  PushDeferredCommand(CreateOf(r)) /\ IssueEntity(r)
    /\ world' = ReserveDeferredEntity(world)
    /\ UNCHANGED <<buffers, poisoned>>

(* One plan per phase: for a system or the host, a producer with up to two *)
(* entities.                                                               *)
BeginDeferredStructuralPhase(system, producer, count) ==
    /\ ~Running /\ deferred.planned = {} /\ world.pending = 0 /\ MayIssue(count)
    /\ LET second == ReserveDeferredEntity(world)
           reservations == IF count = 1 THEN <<NextReservation(world)>>
                           ELSE <<NextReservation(world), NextReservation(second)>>
       IN  /\ deferred' = [deferred EXCEPT !.planned =
                  {[system |-> system, producer |-> producer, reservations |-> reservations]}]
           /\ world' = IF count = 1 THEN second ELSE ReserveDeferredEntity(second)
           /\ issued' = [set |-> issued.set \cup {Entity(r) : r \in Elements(reservations)},
                         count |-> issued.count + count]
    /\ UNCHANGED <<buffers, run, poisoned>>

CurrentOrder == IF Running THEN Systems[run.current] ELSE Host
Planned(producer) == {p \in deferred.planned : p.system = CurrentOrder /\ p.producer = producer}

CreateDeferredStructuralCommandBuffer(producer) ==
    /\ Len(buffers) < MaxBuffers /\ (Running => run.current # 0)
    /\ LET reservations == IF Planned(producer) = {} THEN <<>>
                           ELSE (CHOOSE p \in Planned(producer) : TRUE).reservations
       IN  /\ buffers' = Append(buffers,
                  [system |-> CurrentOrder, producer |-> producer, ended |-> FALSE,
                   invocation |-> IF Running THEN <<run.id, run.current>> ELSE <<0, 0>>,
                   ticket |-> Running /\ run.mode = "tasks",
                   declared |-> Planned(producer) # {},
                   reservations |-> reservations, claimed |-> reservations # <<>>,
                   commands |-> <<>>])
           /\ deferred' = [deferred EXCEPT !.planned = @ \ Planned(producer),
                              !.outstanding = @ + IF reservations # <<>> THEN 1 ELSE 0]
    /\ UNCHANGED <<world, run, poisoned, issued>>

DeferCreateInBuffer(b) ==
    /\ ~buffers[b].ended /\ Room /\ buffers[b].reservations # <<>>
    /\ buffers' = [buffers EXCEPT ![b].reservations = Tail(@),
                      ![b].commands = Append(@, CreateOf(Head(buffers[b].reservations)))]
    /\ UNCHANGED <<world, deferred, run, poisoned, issued>>

DeferInBuffer(b, c) ==
    /\ ~buffers[b].ended /\ Room
    /\ buffers' = [buffers EXCEPT ![b].commands = Append(@, c)]
    /\ UNCHANGED <<world, deferred, run, poisoned, issued>>

NoBuffer == [system |-> Host, producer |-> 0, ended |-> TRUE, invocation |-> <<0, 0>>,
             ticket |-> FALSE, declared |-> FALSE, reservations |-> <<>>, claimed |-> FALSE,
             commands |-> <<>>]
EndedBuffer(b) == [buffers EXCEPT ![b] = NoBuffer]
LessOutstanding(b) == deferred.outstanding - IF buffers[b].claimed THEN 1 ELSE 0

(* Who may take the commands: its own invocation, the host for its buffers, *)
(* and for a run of tasks the invocation of a declared producer at any time *)
(* before the run ends.                                                     *)
Taker(b) ==
    CASE buffers[b].ticket /\ (run.current # 0 \/ buffers[b].declared) -> buffers[b].invocation[2]
      [] ~buffers[b].ticket /\ Running /\ buffers[b].invocation = <<run.id, run.current>> -> run.current
      [] OTHER -> 0

MaySubmit(b) == IF Running THEN Taker(b) # 0 ELSE buffers[b].system = Host

SubmitDeferredStructuralCommands(b) ==
    /\ ~buffers[b].ended /\ MaySubmit(b)
    /\ LET batch == [system |-> buffers[b].system, worker |-> Running,
                     producer |-> buffers[b].producer, number |-> Len(deferred.batches) + 1,
                     commands |-> buffers[b].commands]
           taken == IF Running THEN run.invocations[Taker(b)].workers
                    ELSE SelectSeq(deferred.batches, LAMBDA x : x.system = Host)
       IN  /\ \A x \in Elements(taken) : x.producer # batch.producer
           /\ IF Running
              THEN /\ run' = [run EXCEPT !.invocations[Taker(b)].workers = Append(@, batch)]
                   /\ deferred' = [deferred EXCEPT !.outstanding = LessOutstanding(b)]
              ELSE /\ deferred' = [deferred EXCEPT !.outstanding = LessOutstanding(b),
                                      !.batches = Append(@, batch)]
                   /\ UNCHANGED run
    /\ world' = ReleaseAll(world, buffers[b].reservations)
    /\ buffers' = EndedBuffer(b)
    /\ UNCHANGED <<poisoned, issued>>

(* A buffer that is dropped gives back what it reserved.                   *)
DropBuffer(b) ==
    /\ ~buffers[b].ended
    /\ world' = ReleaseAll(RollbackDeferredStructuralCommands(world, buffers[b].commands),
                           buffers[b].reservations)
    /\ deferred' = [deferred EXCEPT !.outstanding = LessOutstanding(b)]
    /\ buffers' = EndedBuffer(b)
    /\ UNCHANGED <<run, poisoned, issued>>

(* The host commits what it deferred.                                      *)
ApplyDeferredStructuralChanges ==
    /\ ~Running /\ deferred.outstanding = 0
    /\ \E result \in {Committed(world, deferred)}
                     \cup {Interrupted(world, deferred, k) : k \in MayThrow(world, deferred)} :
          world' = result.world /\ deferred' = result.deferred
    /\ UNCHANGED <<buffers, run, poisoned, issued>>

---------------------------------------------------------------------------
(* Runs *)

StartRun(mode) ==
    /\ ~Running /\ ~poisoned /\ run.id < MaxRuns
    /\ run' = [status |-> "running", mode |-> mode, current |-> 0, id |-> run.id + 1,
               invocations |-> [k \in 1 .. Len(Systems) |->
                                   [commands |-> <<>>, workers |-> <<>>, done |-> FALSE]]]
    /\ UNCHANGED <<world, deferred, buffers, poisoned, issued>>

EnterSystem(k) ==
    /\ Running /\ run.current = 0 /\ ~run.invocations[k].done
    /\ \A j \in 1 .. k - 1 : run.invocations[j].done
    /\ run' = [run EXCEPT !.current = k]
    /\ UNCHANGED <<world, deferred, buffers, poisoned, issued>>

LeaveSystem ==
    /\ Running /\ run.current # 0
    /\ run' = [run EXCEPT !.current = 0, !.invocations[run.current].done = TRUE]
    /\ UNCHANGED <<world, deferred, buffers, poisoned, issued>>

(* What the systems deferred goes into batches, one for what a system      *)
(* deferred itself and those of its producers.                             *)
Published ==
    LET Own(k) == IF run.invocations[k].commands = <<>> THEN <<>>
                  ELSE <<[system |-> Systems[k], worker |-> FALSE, producer |-> Systems[k],
                          number |-> 0, commands |-> run.invocations[k].commands]>>
        upTo[k \in 0 .. Len(Systems)] ==
            IF k = 0 THEN <<>> ELSE upTo[k - 1] \o Own(k) \o run.invocations[k].workers
        new == upTo[Len(Systems)]
    IN  [deferred EXCEPT !.batches = @ \o [n \in 1 .. Len(new) |->
                                               [new[n] EXCEPT !.number = Len(deferred.batches) + n]]]

OfRun == Flatten(run.invocations)
         \o Flatten([k \in DOMAIN run.invocations |->
                        [commands |-> Flatten(run.invocations[k].workers)]])

(* DiscardSystemCommands: the commands of the run and the plans of systems. *)
DiscardSystemCommands(w, d, cs) ==
    [world |-> SortFree(ReleasePlanned(RollbackDeferredStructuralCommands(w, cs),
                                       {p \in d.planned : p.system # Host})),
     deferred |-> [d EXCEPT !.planned = {p \in @ : p.system = Host}]]

(* DiscardPublishedCommands, after a run of tasks failed to commit.        *)
DiscardPublishedCommands(r) ==
    [world |-> RollbackDeferredStructuralCommands(r.world,
                   r.deferred.commands \o Flatten(r.deferred.batches)),
     deferred |-> [r.deferred EXCEPT !.commands = <<>>, !.batches = <<>>]]

Idle == [run EXCEPT !.status = "idle", !.current = 0, !.invocations = <<>>]

(* Nothing of the run is left: no system runs, no buffer holds a ticket.   *)
Quiescent == /\ Running /\ run.current = 0
             /\ \A b \in DOMAIN buffers : buffers[b].ticket => buffers[b].ended

CommitRun ==
    /\ Quiescent /\ \A k \in DOMAIN run.invocations : run.invocations[k].done
    /\ deferred.outstanding = 0
    /\ LET result == Committed(world, Published)
       IN  world' = result.world /\ deferred' = result.deferred
    /\ run' = Idle /\ UNCHANGED <<buffers, poisoned, issued>>

(* A commit that throws, or that finds a buffer with reservations.  What    *)
(* was published stays published: only a run of tasks discards it, and      *)
(* closes the World.                                                        *)
FailCommit ==
    /\ Quiescent /\ \A k \in DOMAIN run.invocations : run.invocations[k].done
    /\ \E left \in {r \in {[world |-> world, deferred |-> deferred, of |-> OfRun]} : deferred.outstanding # 0}
                   \cup {LET r == Interrupted(world, Published, k)
                         IN [world |-> r.world, deferred |-> r.deferred, of |-> <<>>] :
                            k \in IF deferred.outstanding # 0 THEN {}
                                  ELSE MayThrow(world, Published)} :
          LET discarded == DiscardSystemCommands(left.world, left.deferred, left.of)
              result == IF run.mode = "host" THEN discarded ELSE DiscardPublishedCommands(discarded)
          IN  world' = result.world /\ deferred' = result.deferred
    /\ poisoned' = (run.mode = "tasks")
    /\ run' = Idle /\ UNCHANGED <<buffers, issued>>

(* A system threw, or the run was cancelled.                               *)
FailRun ==
    /\ Quiescent
    /\ LET result == DiscardSystemCommands(world, deferred, OfRun)
       IN  world' = result.world /\ deferred' = result.deferred
    /\ run' = Idle /\ UNCHANGED <<buffers, poisoned, issued>>

WorldNext ==
    \/ CreateEntity \/ DeferCreateEntity \/ ApplyDeferredStructuralChanges
    \/ \E c \in Changes(AtOnce) : ChangeNow(c)
    \/ \E c \in Changes(Later) : DeferChange(c)
    \/ \E system \in Elements(Systems) \cup {Host}, producer \in Producers, count \in 1 .. 2 :
          BeginDeferredStructuralPhase(system, producer, count)
    \/ \E producer \in Producers : CreateDeferredStructuralCommandBuffer(producer)
    \/ \E b \in DOMAIN buffers : \/ DeferCreateInBuffer(b)
                                 \/ \E c \in Changes(Later) : DeferInBuffer(b, c)
                                 \/ SubmitDeferredStructuralCommands(b) \/ DropBuffer(b)
    \/ \E mode \in {"host", "tasks"} : StartRun(mode)
    \/ \E k \in DOMAIN run.invocations : EnterSystem(k)
    \/ LeaveSystem \/ CommitRun \/ FailCommit \/ FailRun

WorldSpec == WorldInit /\ [][WorldNext]_worldVars

---------------------------------------------------------------------------

Reservations ==
    Elements(SelectSeq(Queue(deferred) \o OfRun, LAMBDA c : c.op = "create"))
    \cup UNION {Elements(buffers[b].reservations) : b \in DOMAIN buffers}
    \cup UNION {Elements(SelectSeq(buffers[b].commands, LAMBDA c : c.op = "create")) : b \in DOMAIN buffers}
    \cup UNION {Elements(p.reservations) : p \in deferred.planned}

Reserved == {Entity(r) : r \in Reservations}

(* No identity is given twice, however reservations are given back, commits *)
(* are interrupted and runs discarded.                                      *)
IdentitiesAreUnique == Cardinality(issued.set) = issued.count

(* Reservations are the creations World counts, and each still leads to its *)
(* entity: no commit finds one that is no longer valid.                     *)
ReservationsHold ==
    /\ ~world.invalid
    /\ world.pending = Cardinality(Reserved)
    /\ \A e \in Reserved : ~IsAlive(world, e)

(* Every slot is in use, free once or reserved; only a World that is closed *)
(* has lost one.                                                            *)
SlotsAreAccounted ==
    /\ \A m, n \in DOMAIN world.free : world.free[m] = world.free[n] => m = n
    /\ \A i \in DOMAIN world.entities :
          LET uses == {u \in {"alive", "free", "reserved"} :
                          \/ u = "alive" /\ world.entities[i].alive
                          \/ u = "free" /\ i \in Elements(world.free)
                          \/ u = "reserved" /\ \E e \in Reserved : e.index = i}
          IN  Cardinality(uses) = 1 \/ (poisoned /\ uses = {})

(* A component belongs to an entity that is alive.                         *)
ComponentsHaveTheirEntity == \A i \in world.components : world.entities[i].alive

(* However creations, destructions and commits of buffers interleave, an    *)
(* identity names one entity and no slot is lost.                          *)
EntitiesAreSafe == /\ IdentitiesAreUnique /\ ReservationsHold
                   /\ SlotsAreAccounted /\ ComponentsHaveTheirEntity
=============================================================================
