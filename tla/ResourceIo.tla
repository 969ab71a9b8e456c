------------------------------ MODULE ResourceIo ------------------------------
(***************************************************************************)
(* Resource input (resources/resource_io.cpp): a bounded queue of reads,   *)
(* threads of its own that execute them, cancellation of one request and   *)
(* of all, a completion after the result is published, and a shutdown that *)
(* several threads may call.                                               *)
(*                                                                         *)
(* Locked regions, waits and calls out of the module are steps of their    *)
(* own. What the reader returned, bytes or an error, is not told apart; the *)
(* reader is external.                                                     *)
(***************************************************************************)
EXTENDS Naturals, Sequences, FiniteSets

CONSTANTS
    Reads,            \* the reads callers ask for
    Workers,          \* the I/O threads
    Stoppers,         \* threads that call Shutdown, the destructor among them
    MaxPendingReads,  \* the configured limit
    NoRead            \* what an idle worker executes

ASSUME ResourceIoAssumption ==
    /\ NoRead \notin Reads
    /\ IsFiniteSet(Workers) /\ Workers # {}
    /\ MaxPendingReads \in Nat \ {0}

VARIABLES
    pending,       \* the queue
    outstanding,   \* reads admitted whose callbacks have not ended
    ioStopping,      \* no read is admitted any more
    serviceStop,   \* the stop source of the service
    reads,         \* each read: its caller, cancellation and result
    workers,       \* each worker: where it is and what it executes
    ioStoppers,      \* each thread that shuts down: where it is
    late           \* reads that had not begun when the service was stopped

ioVars == <<pending, outstanding, ioStopping, serviceStop, reads, workers, ioStoppers, late>>

Callers == {"NEW", "ADMITTED", "RETURNED", "REFUSED"}
Results == {"NONE", "RETURNED", "CANCELLED"}
Published(r) == reads[r].result # "NONE"
WorkerStates == {"CHECK", "ASLEEP", "BEGIN", "READ", "SETTLE", "COMPLETE",
                 "RELEASE", "EXITED"}
StopperStates == {"NEW", "MARKED", "STOPPED", "NOTIFIED", "JOINING", "RETURNED"}

IoInit ==
    /\ pending = <<>> /\ outstanding = 0
    /\ ioStopping = FALSE /\ serviceStop = FALSE
    /\ reads = [r \in Reads |-> [caller |-> "NEW", cancelled |-> FALSE, result |-> "NONE",
                                 completions |-> 0]]
    /\ workers = [w \in Workers |-> [at |-> "CHECK", read |-> NoRead]]
    /\ ioStoppers = [s \in Stoppers |-> "NEW"]
    /\ late = {}

Executes(w, at, r) == workers' = [workers EXCEPT ![w] = [at |-> at, read |-> r]]
Goes(w, at) == Executes(w, at, workers[w].read)
At(w, at) == workers[w].at = at

-----------------------------------------------------------------------------
(* Callers.                                                                *)

\* The limit counts active reads and callbacks too, not the queue alone.
MutantAdmitsRead == ~ioStopping /\ Len(pending) < MaxPendingReads
AdmitsRead == ~ioStopping /\ outstanding < MaxPendingReads

Read(r) ==
    /\ reads[r].caller = "NEW"
    /\ reads' = [reads EXCEPT ![r].caller = IF AdmitsRead THEN "ADMITTED" ELSE "REFUSED"]
    /\ pending' = IF AdmitsRead THEN Append(pending, r) ELSE pending
    /\ outstanding' = IF AdmitsRead THEN outstanding + 1 ELSE outstanding
    /\ UNCHANGED <<ioStopping, serviceStop, workers, ioStoppers, late>>

Woken(set) == [w \in Workers |-> IF w \in set THEN [workers[w] EXCEPT !.at = "CHECK"] ELSE workers[w]]
Asleep == {w \in Workers : At(w, "ASLEEP")}

\* notify_one, after the lock: it wakes one that sleeps, if any does.
NotifyOne(r) ==
    /\ reads[r].caller = "ADMITTED"
    /\ reads' = [reads EXCEPT ![r].caller = "RETURNED"]
    /\ IF Asleep = {} THEN UNCHANGED workers
       ELSE \E w \in Asleep : workers' = Woken({w})
    /\ UNCHANGED <<pending, outstanding, ioStopping, serviceStop, ioStoppers, late>>

\* The caller holds its request; what it cancels after the publication nobody
\* looks at any more.
Cancel(r) ==
    /\ reads[r].caller = "RETURNED"
    /\ ~reads[r].cancelled /\ ~Published(r)
    /\ reads' = [reads EXCEPT ![r].cancelled = TRUE]
    /\ UNCHANGED <<pending, outstanding, ioStopping, serviceStop, workers, ioStoppers, late>>

-----------------------------------------------------------------------------
(* Workers.                                                                *)

TakeRead(w) ==
    /\ At(w, "CHECK") /\ pending # <<>>
    /\ Executes(w, "BEGIN", Head(pending))
    /\ pending' = Tail(pending)
    /\ UNCHANGED <<outstanding, ioStopping, serviceStop, reads, ioStoppers, late>>

Sleep(w) ==
    /\ At(w, "CHECK") /\ pending = <<>> /\ ~ioStopping
    /\ Goes(w, "ASLEEP")
    /\ UNCHANGED <<pending, outstanding, ioStopping, serviceStop, reads, ioStoppers, late>>

Exit(w) ==
    /\ At(w, "CHECK") /\ pending = <<>> /\ ioStopping
    /\ Goes(w, "EXITED")
    /\ UNCHANGED <<pending, outstanding, ioStopping, serviceStop, reads, ioStoppers, late>>

\* A stop callback that is registered too late runs at once.
Begin(w) ==
    LET r == workers[w].read
        cancelled == reads[r].cancelled \/ serviceStop
    IN  /\ At(w, "BEGIN")
        /\ reads' = [reads EXCEPT ![r].cancelled = cancelled]
        /\ Goes(w, IF cancelled THEN "SETTLE" ELSE "READ")
        /\ UNCHANGED <<pending, outstanding, ioStopping, serviceStop, ioStoppers, late>>

\* With bytes or an error.
ReaderReturns(w) ==
    /\ At(w, "READ")
    /\ Goes(w, "SETTLE")
    /\ UNCHANGED <<pending, outstanding, ioStopping, serviceStop, reads, ioStoppers, late>>

\* What was cancelled by now is cancelled whatever the reader returned; the
\* result is seen by nobody before it is published.
Settle(w) ==
    LET r == workers[w].read
    IN  /\ At(w, "SETTLE")
        /\ reads' = [reads EXCEPT ![r].result = IF reads[r].cancelled THEN "CANCELLED"
                                                ELSE "RETURNED"]
        /\ Goes(w, "COMPLETE")
        /\ UNCHANGED <<pending, outstanding, ioStopping, serviceStop, ioStoppers, late>>

\* The callback may throw, also because it tried to shut the service down.
Complete(w) ==
    /\ At(w, "COMPLETE")
    /\ reads' = [reads EXCEPT ![workers[w].read].completions = @ + 1]
    /\ Goes(w, "RELEASE")
    /\ UNCHANGED <<pending, outstanding, ioStopping, serviceStop, ioStoppers, late>>

Release(w) ==
    /\ At(w, "RELEASE")
    /\ outstanding' = outstanding - 1
    /\ Executes(w, "CHECK", NoRead)
    /\ UNCHANGED <<pending, ioStopping, serviceStop, reads, ioStoppers, late>>

-----------------------------------------------------------------------------
(* Shutdown.                                                               *)

Advances(s, at) == ioStoppers' = [ioStoppers EXCEPT ![s] = at]

\* The owner, and then the destructor: a second call finds nothing to do.
Mark(s) ==
    /\ ioStoppers[s] \in {"NEW", "RETURNED"}
    /\ ioStopping' = TRUE
    /\ Advances(s, "MARKED")
    /\ UNCHANGED <<pending, outstanding, serviceStop, reads, workers, late>>

\* The callbacks registered by executing reads run on the ioStopping thread.
Registered == {workers[w].read : w \in {v \in Workers : workers[v].at \in {"READ", "SETTLE"}}}
RequestStop(s) ==
    /\ ioStoppers[s] = "MARKED"
    /\ serviceStop' = TRUE
    /\ reads' = IF serviceStop THEN reads
                ELSE [r \in Reads |-> IF r \in Registered THEN [reads[r] EXCEPT !.cancelled = TRUE]
                                      ELSE reads[r]]
    /\ late' = IF serviceStop THEN late
               ELSE {r \in Reads : \/ \E i \in DOMAIN pending : pending[i] = r
                                   \/ \E w \in Workers : /\ workers[w].read = r
                                                         /\ workers[w].at \in {"BEGIN", "READ"}}
    /\ Advances(s, "STOPPED")
    /\ UNCHANGED <<pending, outstanding, ioStopping, workers>>

MutantToWake == IF Asleep = {} THEN {} ELSE {CHOOSE w \in Asleep : TRUE}
ToWake == Asleep
NotifyAll(s) ==
    /\ ioStoppers[s] = "STOPPED"
    /\ workers' = Woken(ToWake)
    /\ Advances(s, "NOTIFIED")
    /\ UNCHANGED <<pending, outstanding, ioStopping, serviceStop, reads, late>>

LockJoin(s) ==
    /\ ioStoppers[s] = "NOTIFIED"
    /\ \A t \in Stoppers : ioStoppers[t] # "JOINING"
    /\ Advances(s, "JOINING")
    /\ UNCHANGED <<pending, outstanding, ioStopping, serviceStop, reads, workers, late>>

Join(s) ==
    /\ ioStoppers[s] = "JOINING"
    /\ \A w \in Workers : At(w, "EXITED")
    /\ Advances(s, "RETURNED")
    /\ UNCHANGED <<pending, outstanding, ioStopping, serviceStop, reads, workers, late>>

WorkerStep(w) ==
    \/ TakeRead(w) \/ Sleep(w) \/ Exit(w) \/ Begin(w)
    \/ ReaderReturns(w) \/ Settle(w) \/ Complete(w) \/ Release(w)
StopperStep(s) == RequestStop(s) \/ NotifyAll(s) \/ LockJoin(s) \/ Join(s)

IoNext ==
    \/ \E r \in Reads : Read(r) \/ NotifyOne(r) \/ Cancel(r)
    \/ \E w \in Workers : WorkerStep(w)
    \/ \E s \in Stoppers : Mark(s) \/ StopperStep(s)

IoSpec == IoInit /\ [][IoNext]_ioVars

\* Threads run; the reader returns, as its contract says. Nobody need cancel
\* or shut down.
IoFairSpec ==
    /\ IoSpec
    /\ \A w \in Workers : WF_ioVars(WorkerStep(w))
    /\ \A r \in Reads : WF_ioVars(NotifyOne(r))
    /\ \A s \in Stoppers : WF_ioVars(StopperStep(s))

-----------------------------------------------------------------------------
(* Properties. *)

IoTypeOK ==
    /\ pending \in Seq(Reads) /\ outstanding \in Nat
    /\ ioStopping \in BOOLEAN /\ serviceStop \in BOOLEAN
    /\ reads \in [Reads -> [caller : Callers, cancelled : BOOLEAN, result : Results,
                            completions : Nat]]
    /\ workers \in [Workers -> [at : WorkerStates, read : Reads \cup {NoRead}]]
    /\ ioStoppers \in [Stoppers -> StopperStates]
    /\ late \subseteq Reads

Accepted == {r \in Reads : reads[r].caller \in {"ADMITTED", "RETURNED"}}

\* The limit bounds all that was admitted until its callback ended, and the
\* counter counts exactly that, whatever is taken, cancelled or stopped.
OutstandingIsExact ==
    /\ outstanding <= MaxPendingReads
    /\ outstanding = Len(pending)
                     + Cardinality({w \in Workers : workers[w].read # NoRead})

\* A callback runs once, after the result is there for every observer.
CompletionsFollowResults ==
    \A r \in Reads :
        /\ reads[r].completions <= 1
        /\ reads[r].completions = 1 => Published(r)
        /\ Published(r) => r \in Accepted

\* What had not been read when the service was stopped is reported cancelled,
\* whether its worker registered before or after the stop.
StopCancels ==
    \A r \in late : Published(r) => reads[r].result = "CANCELLED"

\* A shutdown that returned, on whichever thread, left nothing behind.
ShutdownDrains ==
    (\E s \in Stoppers : ioStoppers[s] = "RETURNED") =>
        /\ \A r \in Accepted : reads[r].completions = 1
        /\ outstanding = 0

\* The limit holds, and no read is lost or answered twice, also in a shutdown.
IoIsSafe ==
    IoTypeOK /\ OutstandingIsExact /\ CompletionsFollowResults /\ StopCancels /\ ShutdownDrains

\* Every accepted read reaches its callback and every shutdown returns.
IoEnds ==
    []<>(/\ \A r \in Accepted : reads[r].completions = 1
         /\ \A s \in Stoppers : ioStoppers[s] \in {"NEW", "RETURNED"})
=============================================================================
