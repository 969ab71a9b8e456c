---------------------------- MODULE FramePipeline ----------------------------
(***************************************************************************)
(* What the frame scheduler promises to the engine, without slots, handles  *)
(* or generations: frames are numbered, are born one after the other, go    *)
(* through the stages of EFrameState in order and are gone once and for     *)
(* all.  A frame waits for its room in the pipeline (Depth frames) and for  *)
(* the fate of the frame before it: drawn or dropped.                       *)
(***************************************************************************)
EXTENDS Naturals

CONSTANTS
  Depth,   \* number of frames in the pipeline
  Last     \* number of frames that have an index

Frame == 0 .. Last - 1

VARIABLES
  stage,     \* stage of each frame
  signalled  \* the frames in the pipeline that have their draw signal

vars == <<stage, signalled>>

Init ==
  /\ stage = [f \in Frame |-> "unborn"]
  /\ signalled = {}

Active(f) == stage[f] \notin {"unborn", "gone"}

(* A frame is born when the earlier ones are, the one Depth before it is gone
   and the one just before it has been drawn or dropped. *)
Birth(f) ==
  /\ stage[f] = "unborn"
  /\ \A e \in Frame : e < f => stage[e] # "unborn"
  /\ \A e \in Frame : e + Depth = f => stage[e] = "gone"
  /\ \A e \in Frame : e + 1 = f /\ Active(e) => e \in signalled
  /\ stage' = [stage EXCEPT ![f] = "ACQUIRED"]
  /\ UNCHANGED signalled

(* Only the youngest frame is drawn, once. *)
Draw(f) ==
  /\ Active(f)
  /\ f \notin signalled
  /\ \A e \in Frame : e > f => stage[e] = "unborn"
  /\ signalled' = signalled \cup {f}
  /\ UNCHANGED stage

Successors ==
  {<<"ACQUIRED", "WAITING_UPDATE">>, <<"WAITING_UPDATE", "UPDATING">>,
   <<"UPDATING", "WAITING_DRAW">>, <<"WAITING_DRAW", "FINALIZE">>,
   <<"FINALIZE", "SUBMITTED">>, <<"FINALIZE", "COMPLETE">>,
   <<"SUBMITTED", "GPU_IN_FLIGHT">>, <<"GPU_IN_FLIGHT", "COMPLETE">>}

(* One stage on; nothing is finalized before the frame is drawn. *)
Advance(f) ==
  /\ \E to \in {pair[2] : pair \in Successors} :
       /\ <<stage[f], to>> \in Successors
       /\ to = "FINALIZE" => f \in signalled
       /\ stage' = [stage EXCEPT ![f] = to]
  /\ UNCHANGED signalled

(* A frame leaves at any stage but those at which the GPU owns it. *)
Leave(f) ==
  /\ Active(f)
  /\ stage[f] \notin {"SUBMITTED", "GPU_IN_FLIGHT"}
  /\ stage' = [stage EXCEPT ![f] = "gone"]
  /\ signalled' = signalled \ {f}

Next == \E f \in Frame : Birth(f) \/ Draw(f) \/ Advance(f) \/ Leave(f)

Spec == Init /\ [][Next]_vars
=============================================================================
