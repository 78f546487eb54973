--------------------------- MODULE MCChannelLiveness ---------------------------
(***************************************************************************)
(* The small instances of ControlChannel on which liveness is checked.      *)
(* Symmetry is not sound for it, so the states are kept few by asking one   *)
(* of two questions in a behaviour, and not both: what becomes of a call   *)
(* and of a wait over successive sockets, with one task that connects and  *)
(* closes; or what becomes of tasks that contend for the connecting lock,  *)
(* without a call.  What is left out is the start of something, of which   *)
(* no fairness is assumed: bystander does not connect or close, or nobody  *)
(* calls.                                                                  *)
(***************************************************************************)
EXTENDS ControlChannel

CONSTANT bystander   \* the task that is idle where calls are made

VARIABLE scene
sceneVars == <<scene, vars>>

SceneInit == Init /\ scene \in {"calls", "connects"}

SceneNext ==
    /\ Next /\ UNCHANGED scene
    /\ scene = "calls" => pc'[bystander] = "idle"
    /\ scene = "connects" => UNCHANGED call

SceneSpec == SceneInit /\ [][SceneNext]_sceneVars /\ Fairness

=============================================================================
