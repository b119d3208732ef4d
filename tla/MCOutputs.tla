------------------------------ MODULE MCOutputs ------------------------------
(***************************************************************************)
(* Outputs for TLC: two jobs and two faults, so that a kill can follow a     *)
(* failure or another kill.  MCOutputs.cfg delivers both jobs, up to three   *)
(* times at once, with no plot flight; MCOutputsPlots.cfg draws one of them  *)
(* beside a job of an earlier front-end, with room for one error.            *)
(***************************************************************************)
EXTENDS Outputs

CONSTANTS j1, j2
=============================================================================
