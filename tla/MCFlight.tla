------------------------------ MODULE MCFlight ------------------------------
(***************************************************************************)
(* Two prepares and a push on one flight: enough for a prepare to be         *)
(* replayed, for a prepare or a push to lose the child, and for one command  *)
(* to queue behind another.  Two attempts and two faults: bring-up can be    *)
(* exhausted, and a flight can be degraded and then restarted.               *)
(***************************************************************************)
EXTENDS Flight, TLC

CONSTANTS c1, c2, c3, p1, p2

MCCommandOf == c1 :> [cmd |-> "prepare", args |-> p1] @@
               c2 :> [cmd |-> "prepare", args |-> p2] @@
               c3 :> [cmd |-> "push", args |-> p1]
=============================================================================
