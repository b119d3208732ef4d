------------------------------ MODULE PlotQueue ------------------------------
(***************************************************************************)
(* PlotQueue of server.py: the jobs waiting to be drawn, newest first, and   *)
(* one drain task per plot flight that takes them.  The tasks share one      *)
(* event loop, and an action is a task's way from one await to the next:     *)
(* clearing the shared event, looking again and waiting is one step, so the  *)
(* event itself needs no variable, only the tasks it wakes.                  *)
(*                                                                         *)
(* How a command ends is the business of Flight: drawn, not drawn, or no     *)
(* usable child.  A refusal that comes back at once is a draw that ends      *)
(* before anything else happens.                                           *)
(***************************************************************************)
EXTENDS Naturals, Sequences, FiniteSets, FiniteSetsExt, SequencesExt

CONSTANTS
    Flights,
    Jobs,
    PLOT_MAX_RETRIES,
    PLOT_ERROR_CAP,
    None

ASSUME PlotQueueAssumption ==
    /\ PLOT_MAX_RETRIES \in Nat \ {0}
    /\ PLOT_ERROR_CAP \in Nat \ {0}
    /\ None \notin Jobs
    /\ IsFiniteSet(Flights)

VARIABLES
    stack,    \* _stack: the newest job last
    queued,   \* _queued: the same jobs, as a set
    drawing,  \* _drawing: flight -> the job it has taken, or None
    errors,   \* _errors: the jobs that could not be drawn, the oldest first
    retries,  \* _retries: job -> how often in a row it found no usable child
    pc        \* flight -> the await its drain task is parked at

vars == <<stack, queued, drawing, errors, retries, pc>>

-----------------------------------------------------------------------------
Forget(s, j) == RemoveFirst(s, j)

\* _record_error: the newest at the end, the oldest dropped when it is full.
RecordError(j) ==
    LET all == Append(Forget(errors, j), j)
    IN  IF Len(all) > PLOT_ERROR_CAP THEN Tail(all) ELSE all

\* _wake.set()
WakeAll == [f \in Flights |-> IF pc[f] = "wait" THEN "top" ELSE pc[f]]

\* Broken: a job that is being drawn is queued behind itself.
EnqueueBehindItself(j) ==
    /\ j \notin queued
    /\ queued' = queued \cup {j}
    /\ stack' = Append(stack, j)
    /\ errors' = Forget(errors, j)
    /\ pc' = WakeAll
    /\ UNCHANGED <<drawing, retries>>

\* Broken: nobody is told.
EnqueueSilently(j) ==
    /\ j \notin queued
    /\ \A f \in Flights : drawing[f] # j
    /\ queued' = queued \cup {j}
    /\ stack' = Append(stack, j)
    /\ errors' = Forget(errors, j)
    /\ UNCHANGED <<drawing, retries, pc>>

\* POST /plots, a finished job, or the backfill.  A page may ask for ever.
Enqueue(j) ==
    /\ Flights # {}
    /\ j \notin queued
    /\ \A f \in Flights : drawing[f] # j
    /\ queued' = queued \cup {j}
    /\ stack' = Append(stack, j)
    /\ errors' = Forget(errors, j)
    /\ pc' = WakeAll
    /\ UNCHANGED <<drawing, retries>>

\* Entries of the stack that are still meant.
Live == {i \in DOMAIN stack : stack[i] \in queued}

\* _take, and what the loop does with what it took.
Turn(f) ==
    /\ pc[f] = "top"
    /\ \/ /\ Live = {}
          /\ stack' = <<>>
          /\ pc' = [pc EXCEPT ![f] = "wait"]
          /\ UNCHANGED <<queued, drawing>>
       \/ /\ Live # {}
          /\ LET i == Max(Live)
             IN  /\ stack' = SubSeq(stack, 1, i - 1)
                 /\ queued' = queued \ {stack[i]}
                 /\ drawing' = [drawing EXCEPT ![f] = stack[i]]
          /\ pc' = [pc EXCEPT ![f] = "drawing"]
    /\ UNCHANGED <<errors, retries>>

\* The reply came, or something else was raised: the job is over.
Drawn(f) ==
    /\ pc[f] = "drawing"
    /\ retries' = [retries EXCEPT ![drawing[f]] = 0]
    /\ errors' \in {errors, RecordError(drawing[f])}
    /\ drawing' = [drawing EXCEPT ![f] = None]
    /\ pc' = [pc EXCEPT ![f] = "top"]
    /\ UNCHANGED <<stack, queued>>

\* Broken: a job that is given up keeps its count.
UnusableKeepsCount(f) ==
    LET j == drawing[f]
        tries == retries[j] + 1
    IN  /\ pc[f] = "drawing"
        /\ \/ /\ tries >= PLOT_MAX_RETRIES
              /\ errors' = RecordError(j)
              /\ UNCHANGED <<stack, queued, retries>>
           \/ /\ tries < PLOT_MAX_RETRIES
              /\ retries' = [retries EXCEPT ![j] = tries]
              /\ queued' = queued \cup {j}
              /\ stack' = Append(stack, j)
              /\ errors' = Forget(errors, j)
        /\ pc' = [pc EXCEPT ![f] = "sleep"]
        /\ UNCHANGED drawing

\* Broken: a job is put back for as long as its flight is down.
UnusableUnbounded(f) ==
    /\ pc[f] = "drawing"
    /\ queued' = queued \cup {drawing[f]}
    /\ stack' = Append(stack, drawing[f])
    /\ errors' = Forget(errors, drawing[f])
    /\ pc' = [pc EXCEPT ![f] = "sleep"]
    /\ UNCHANGED <<drawing, retries>>

\* CoordinatorLost or CoordinatorUnavailable: put back a bounded number of times.
\* Nothing is woken, and the job stays this flight's until its sleep is over.
Unusable(f) ==
    LET j == drawing[f]
        tries == retries[j] + 1
    IN  /\ pc[f] = "drawing"
        /\ \/ /\ tries >= PLOT_MAX_RETRIES
              /\ retries' = [retries EXCEPT ![j] = 0]
              /\ errors' = RecordError(j)
              /\ UNCHANGED <<stack, queued>>
           \/ /\ tries < PLOT_MAX_RETRIES
              /\ retries' = [retries EXCEPT ![j] = tries]
              /\ queued' = queued \cup {j}
              /\ stack' = Append(stack, j)
              /\ errors' = Forget(errors, j)
        /\ pc' = [pc EXCEPT ![f] = "sleep"]
        /\ UNCHANGED drawing

\* PLOT_RETRY_S later.
SleepOver(f) ==
    /\ pc[f] = "sleep"
    /\ drawing' = [drawing EXCEPT ![f] = None]
    /\ pc' = [pc EXCEPT ![f] = "top"]
    /\ UNCHANGED <<stack, queued, errors, retries>>

\* Broken: the cancelled draws are forgotten.
AcloseForgets ==
    /\ \E f \in Flights : pc[f] # "ended"
    /\ drawing' = [f \in Flights |-> None]
    /\ pc' = [f \in Flights |-> "ended"]
    /\ UNCHANGED <<stack, queued, errors, retries>>

\* Every drain task is cancelled, and what was being drawn is put back.
Aclose ==
    /\ \E f \in Flights : pc[f] # "ended"
    /\ LET taken == {drawing[f] : f \in {g \in Flights : pc[g] = "drawing"}}
       IN  /\ queued' = queued \cup taken
           /\ \E back \in SetToSeqs(taken) : stack' = stack \o back
    /\ drawing' = [f \in Flights |-> None]
    /\ pc' = [f \in Flights |-> "ended"]
    /\ UNCHANGED <<errors, retries>>

-----------------------------------------------------------------------------
Init ==
    /\ stack = <<>>
    /\ queued = {}
    /\ drawing = [f \in Flights |-> None]
    /\ errors = <<>>
    /\ retries = [j \in Jobs |-> 0]
    /\ pc = [f \in Flights |-> "top"]

Drain(f) == Turn(f) \/ Drawn(f) \/ Unusable(f) \/ SleepOver(f)

Open == \E f \in Flights : pc[f] # "ended"

Next == \/ \E j \in Jobs : Open /\ Enqueue(j)
        \/ \E f \in Flights : Drain(f)
        \/ Aclose

Spec == Init /\ [][Next]_vars

FairSpec == Spec /\ \A f \in Flights : WF_vars(Drain(f))

-----------------------------------------------------------------------------
(* Properties.                                                             *)

HeldBy(f, j) == pc[f] = "drawing" /\ drawing[f] = j

Pending(j) == j \in queued \/ \E f \in Flights : HeldBy(f, j)

TypeOK ==
    /\ stack \in Seq(Jobs)
    /\ queued \in SUBSET Jobs
    /\ drawing \in [Flights -> Jobs \cup {None}]
    /\ errors \in Seq(Jobs)
    /\ retries \in [Jobs -> 0..PLOT_MAX_RETRIES-1]
    /\ pc \in [Flights -> {"top", "wait", "drawing", "sleep", "ended"}]
    /\ \A f \in Flights : drawing[f] = None <=> pc[f] \in {"top", "wait", "ended"}

\* A job has one place in the queue: the stack and the set hold the same jobs,
\* each once, and a job a flight is drawing is in neither, nor with another
\* flight (enqueue's dedupe against the put-back of a retry).
OnePlace ==
    /\ IsInjective(stack)
    /\ queued = ToSet(stack)
    /\ \A f \in Flights : pc[f] = "drawing" => drawing[f] \notin queued
    /\ \A f, g \in Flights : pc[f] = "drawing" /\ HeldBy(g, drawing[f]) => f = g

\* The manifest never shows an error for a job that is still to be drawn, nor a
\* retry count for one that is over, however often it was asked for again; and a
\* night of failures leaves no more errors than the cap (_record_error).
OutcomesAreOver ==
    /\ Len(errors) <= PLOT_ERROR_CAP
    /\ \A j \in Jobs : /\ j \in ToSet(errors) => ~Pending(j)
                       /\ retries[j] > 0 => Pending(j)

\* No wakeup is lost: while a job waits, some flight is not waiting for one
\* (the clear-then-look-again of _drain).
WorkIsAttended == queued # {} /\ Open => \E f \in Flights : pc[f] # "wait"

\* A job leaves the queue drawn or with an error recorded, and is otherwise put
\* back: by a flight without a child, and by the shutdown.
NothingDropped ==
    [][\A j \in Jobs : Pending(j) /\ ~Pending(j)' =>
          \/ j \in ToSet(errors')
          \/ \E f \in Flights : HeldBy(f, j) /\ pc'[f] = "top"]_vars

\* Once nobody asks for plots any more, the queue empties, whatever the flights'
\* children do: a put-back is bounded.
QuietDrains ==
    []<><<\E j \in Jobs : Enqueue(j)>>_vars \/ <>[](\A j \in Jobs : Pending(j) => ~Open)
=============================================================================
