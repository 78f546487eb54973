-------------------------- MODULE MCControlChannel --------------------------
(***************************************************************************)
(* Small instances of ControlChannel for TLC.                              *)
(***************************************************************************)
EXTENDS ControlChannel, TLC

\* Tasks are interchangeable: no action or property names one.
Symmetry == Permutations(Tasks)

(***************************************************************************)
(* Constraints: bounds on the states that the runs of safety look at.       *)
(***************************************************************************)

\* lifecycle: lines are cut on the first socket only.  What is left of one meets
\* two more sockets.
CutOnFirst == \A s \in Sockets \ {1} : half[s] = Blank

\* streams: only cmd.start is ever answered with an error.  The channel hands
\* both answers on alike, and one call that may get either is enough to tell its
\* answer from another's.
PlainCallsSucceed == \A c \in Calls \ StartCalls : answered[c] # "error"

\* streams: its one task connects again by connect().  Alone, it finds the flag
\* as reconnect() would leave it.
ConnectsAgain == \A t \in Tasks : pc[t] # "reconnect"

=============================================================================
