-------------------------- MODULE MCFrameScheduler --------------------------
(***************************************************************************)
(* The frame scheduler and what works for a frame, side by side: the loop   *)
(* of the host, the system runs of a world, its hierarchy, the resource     *)
(* manager.  A behaviour is one of these, the others resting in their       *)
(* initial states; the calls from one to another that matter are actions    *)
(* of the component that is called.  Slots are numbered and used in ring    *)
(* order, so there is no symmetry.                                          *)
(***************************************************************************)
EXTENDS FrameScheduler, FrameLoop, SystemRuns, Hierarchy, Resources

\* Two writers of one component on disjoint batches, if they are scoped, and
\* a system that declares nothing and comes before the second one.
MCAccesses == <<{[component |-> "a", write |-> TRUE, scope |-> {1}]},
                {[component |-> "a", write |-> TRUE, scope |-> {2}]},
                {}>>
MCConstraints == {<<3, 2>>}
MCLayouts == {{}, {1, 2}}

VARIABLE part     \* the component that runs

MCInit ==
  /\ part \in {"frames", "loop", "runs", "tree", "resources"}
  /\ Init /\ LoopInit /\ SystemRunInit /\ TreeInit /\ ResourceInit
  /\ part # "runs" => scoped = {}

MCVars == <<part, vars, loopVars, systemRunVars, treeVars, resourceVars>>

MCNext ==
  \/ /\ part = "frames" /\ Next
     /\ UNCHANGED <<part, loopVars, systemRunVars, treeVars, resourceVars>>
  \/ /\ part = "loop" /\ LoopNext
     /\ UNCHANGED <<part, vars, systemRunVars, treeVars, resourceVars>>
  \/ /\ part = "runs" /\ SystemRunNext
     /\ UNCHANGED <<part, vars, loopVars, treeVars, resourceVars>>
  \/ /\ part = "tree" /\ TreeNext
     /\ UNCHANGED <<part, vars, loopVars, systemRunVars, resourceVars>>
  \/ /\ part = "resources" /\ ResourceNext
     /\ UNCHANGED <<part, vars, loopVars, systemRunVars, treeVars>>

\* The fairness of the components, of the one that runs.
MCFairness ==
  /\ WF_loopVars(part = "loop" /\ LoopMain)
  /\ WF_loopVars(part = "loop" /\ LoopWorker)
  /\ WF_loopVars(part = "loop" /\ DrainFails)
  /\ \A k \in Runs : /\ WF_systemRunVars(part = "runs" /\ OwnerOf(k))
                     /\ WF_systemRunVars(part = "runs" /\ StepOf(k))
                     /\ WF_systemRunVars(part = "runs" /\ BuffersOf(k))

MCSpec == MCInit /\ [][MCNext]_MCVars /\ MCFairness

(* Every run of the systems is answered, and every stop of the loop returns. *)
ServicesEnd == RunsEnd /\ LoopEnds
=============================================================================
