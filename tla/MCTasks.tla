------------------------------ MODULE MCTasks ------------------------------
(***************************************************************************)
(* The executor and the user jobs on it, side by side: a behaviour is one   *)
(* of the one component or of the other, the other resting in its initial   *)
(* state.  UserJobs takes from TaskSystem only that what is submitted runs, *)
(* which is its own Claim.                                                  *)
(***************************************************************************)
EXTENDS TaskSystem, UserJobs

CONSTANTS j1, j2

\* The game moves the handle of an endless job into the body of the other.
MCAwaits == {<<j2, j1>>}

VARIABLE part     \* the component that runs

MCInit == part \in {"tasks", "jobs"} /\ Init /\ JobsInit

MCNext ==
  \/ part = "tasks" /\ Next /\ UNCHANGED <<part, userJobVars>>
  \/ part = "jobs" /\ JobsNext /\ UNCHANGED <<part, vars>>

\* The fairness of the components, of the one that runs.
MCFairness ==
  /\ \A th \in Thread : WF_vars(part = "tasks" /\ Continue(th))
  /\ \A w \in Worker : WF_vars(part = "tasks" /\ Work(w))
  /\ \A g \in Group :
       WF_vars(part = "tasks" /\ ~ gSealed[g] /\ \E th \in Thread : SealGroup(th, g))
  /\ WF_userJobVars(part = "jobs" /\ PlayerEnds)
  /\ WF_userJobVars(part = "jobs" /\ JobThreadsStep)

MCSpec == MCInit /\ [][MCNext]_<<part, vars, userJobVars>> /\ MCFairness
=============================================================================
