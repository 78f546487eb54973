---------------------------- MODULE MCCommandRun ----------------------------
(***************************************************************************)
(* Small instances of CommandRun for TLC.                                  *)
(***************************************************************************)
EXTENDS CommandRun, TLC

\* Runs are interchangeable: Init gives each of them any options.
Symmetry == Permutations(Runs)

=============================================================================
