-------------------------- MODULE MCReadyScheduler --------------------------
(***************************************************************************)
(* The queues that threads sleep on, side by side: the ready queues of the  *)
(* executor, the commands for the main thread and the reads of resource     *)
(* files.  A behaviour is one of one of them, the others resting in their   *)
(* initial states; none calls another.  Workers have numbers and steal in   *)
(* index order, so there is no symmetry.                                    *)
(***************************************************************************)
EXTENDS ReadyScheduler, MainExecutor, ResourceIo

CONSTANTS c1, c2, c3

\* Two commands of frames and one without a frame, which they overtake.
MCOriginOf == c1 :> 1 @@ c2 :> 2 @@ c3 :> 0

VARIABLE part     \* the queue that is used

MCInit == part \in {"pool", "main", "reads"} /\ Init /\ MXInit /\ IoInit

MCNext ==
  \/ part = "pool" /\ Next /\ UNCHANGED <<part, mxVars, ioVars>>
  \/ part = "main" /\ MXNext /\ UNCHANGED <<part, vars, ioVars>>
  \/ part = "reads" /\ IoNext /\ UNCHANGED <<part, vars, mxVars>>

\* The fairness of the components, of the one that runs.
MCFairness ==
  /\ \A th \in Thread : WF_vars(part = "pool" /\ Finish(th))
  /\ \A w \in Worker : WF_vars(part = "pool" /\ Loop(w))
  /\ WF_mxVars(part = "main" /\ MainStep)
  /\ \A p \in Caller : WF_mxVars(part = "main" /\ (Post(p) \/ InvokeReturns(p)))
  /\ \A th \in MainThread :
       WF_mxVars(part = "main" /\ (Stopped(th) \/ \E c \in Command : Skip(th, c)))
  /\ \A w \in Workers : WF_ioVars(part = "reads" /\ WorkerStep(w))
  /\ \A r \in Reads : WF_ioVars(part = "reads" /\ NotifyOne(r))
  /\ \A s \in Stoppers : WF_ioVars(part = "reads" /\ StopperStep(s))

MCSpec == MCInit /\ [][MCNext]_<<part, vars, mxVars, ioVars>> /\ MCFairness

(* Nobody who waits for the main thread or for the reads waits for ever.    *)
CallersReturn == InvokesReturn /\ IoEnds
=============================================================================
