---------------------------- MODULE CommandOnce ----------------------------
(***************************************************************************)
(* What a flight promises to those who send it commands (send_command of    *)
(* server.py), whatever happens to its child in between: a command runs at   *)
(* most once; a reply is the answer to the caller's own command and means it *)
(* ran; CoordinatorUnavailable means it did not run and never will;          *)
(* CoordinatorLost says nothing about it, and it is not sent again.          *)
(***************************************************************************)
EXTENDS Naturals

CONSTANT Clients

VARIABLES
    call,   \* client -> where its command stands
    runs    \* client -> how often its command was run

vars == <<call, runs>>

Calls == {"idle", "pending", "replied", "lost", "unavailable"}

Init == /\ call = [c \in Clients |-> "idle"]
        /\ runs = [c \in Clients |-> 0]

Move(c, to) == call' = [call EXCEPT ![c] = to] /\ UNCHANGED runs

Submit(c) == call[c] = "idle" /\ Move(c, "pending")

\* A command already on its way when its caller lost the child may still run.
Run(c) == /\ call[c] \in {"pending", "lost"}
          /\ runs[c] = 0
          /\ runs' = [runs EXCEPT ![c] = 1]
          /\ UNCHANGED call

Answer(c) == call[c] = "pending" /\ runs[c] = 1 /\ Move(c, "replied")

Lose(c) == call[c] = "pending" /\ Move(c, "lost")

Refuse(c) == call[c] = "pending" /\ runs[c] = 0 /\ Move(c, "unavailable")

Next == \E c \in Clients : Submit(c) \/ Run(c) \/ Answer(c) \/ Lose(c) \/ Refuse(c)

Spec == Init /\ [][Next]_vars
=============================================================================
