--------------------------- MODULE MCExposurePoll ---------------------------
(***************************************************************************)
(* ExposurePoll for TLC: an exposure of two sensors, files of two writes.   *)
(***************************************************************************)
EXTENDS ExposurePoll

CONSTANTS f1, f2
=============================================================================
