---------------------------- MODULE MCPlotQueue ----------------------------
(***************************************************************************)
(* PlotQueue for TLC: two plot flights, four jobs, room for two errors, a   *)
(* job given up after its second put-back.                                 *)
(***************************************************************************)
EXTENDS PlotQueue

CONSTANTS pf1, pf2, j1, j2, j3, j4
=============================================================================
