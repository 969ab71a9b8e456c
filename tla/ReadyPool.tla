------------------------------ MODULE ReadyPool ------------------------------
(***************************************************************************)
(* What the ready queues promise to the rest of the executor: a published   *)
(* entry stays in the pool until one worker takes it, and is taken once.    *)
(* TaskSystem.tla keeps its variable "ready" by this contract, and          *)
(* ReadyScheduler.tla is shown to implement it.                             *)
(***************************************************************************)
CONSTANT Entry

VARIABLES
  pool,   \* the entries published and not taken
  taken   \* the entries taken

vars == <<pool, taken>>

Init == pool = {} /\ taken = {}

Publish(E) ==
  /\ E \cap (pool \cup taken) = {}
  /\ pool' = pool \cup E
  /\ UNCHANGED taken

Take(e) ==
  /\ e \in pool
  /\ pool' = pool \ {e}
  /\ taken' = taken \cup {e}

Next == (\E E \in SUBSET Entry : Publish(E)) \/ (\E e \in Entry : Take(e))

Spec == Init /\ [][Next]_vars
=============================================================================
