------------------------------- MODULE Flight -------------------------------
(***************************************************************************)
(* One flight of the front-end (class Coord of server.py): the coordinator  *)
(* child it owns, the lock its commands queue on, the one-thread executor    *)
(* its blocking calls queue on, and the bring-up task that replaces a lost   *)
(* child.                                                                   *)
(*                                                                         *)
(* An action is what one party does without giving way: a coroutine from    *)
(* one await to the next, one blocking call of the executor's thread, one    *)
(* message of the child.  The event loop interleaves the coroutines, and     *)
(* the thread and the child run beside it.  time.monotonic() is left out: a  *)
(* timeout may fire whenever its wait is pending.                            *)
(***************************************************************************)
EXTENDS Naturals, Sequences, SequencesExt

CONSTANTS
    Clients,        \* requests that call send_command, once each
    CommandOf,      \* client -> the command it sends
    Configs,        \* what prepares install
    MAX_RESTART_ATTEMPTS,
    MaxFaults,      \* bound on crashes, hung and fatal children, spawns that raise,
                    \* operator restarts
    RestartWhileStarting,   \* may the operator restart a flight in STARTING?
    None

Tasks == {"startup", "restart"}
Callers == Clients \cup Tasks

Command == [cmd : {"prepare", "push"}, args : Configs]

\* What a child says, what an executor call returns or raises, and what a caller
\* of send_command is given.
Hello == [kind |-> "hello"]
Fatal == [kind |-> "fatal"]
Done == [kind |-> "done"]
Lost == [kind |-> "lost"]                 \* CoordinatorLost
Unavailable == [kind |-> "unavailable"]   \* CoordinatorUnavailable
Raised == [kind |-> "raised"]             \* an exception nothing catches
Reply(call, ok) == [kind |-> "reply", to |-> call, ok |-> ok]

\* A pipe carries jobs one way and messages the other.
Job == [by : Callers, command : Command]
Message == {Hello, Fatal, Done, Lost, Unavailable, Raised} \cup
           [kind : {"reply"}, to : Callers, ok : BOOLEAN]

ASSUME FlightAssumption ==
    /\ Clients \cap Tasks = {}
    /\ \A c \in Clients : CommandOf[c] \in Command
    /\ MAX_RESTART_ATTEMPTS \in Nat \ {0}
    /\ MaxFaults \in Nat
    /\ RestartWhileStarting \in BOOLEAN
    /\ None \notin Configs \cup Callers \cup Job \cup Message

VARIABLES
    state,      \* _state
    attempts,   \* _restart_attempts
    provokedBy, \* _loss_provoked_by
    primedArgs, \* _primed_args
    proc,       \* _proc and _conn, as an index into children; 0 is None
    children,   \* every child spawned: its life, its pipe, what it has loaded
    lockQ,      \* _lock: the holder, then the waiters
    execQ,      \* _executor: the call its thread runs, then the queued ones
    looked,     \* its reader has waited, seen no message, and looks at the child next
    doomed,     \* the child its _reap has taken and not yet put down; 0 is none
    broken,     \* what a spawn that raised has left of a _proc
    result,     \* caller -> what its executor call returned or raised
    pc,         \* caller -> the await it is parked at
    answer,     \* client -> what send_command returned or raised
    runs,       \* client -> how often a child has run its command
    exiting,    \* on_fatal has signalled this process
    closed,     \* aclose has finished
    faults      \* faults so far

front == <<state, attempts, provokedBy, primedArgs>>
side == <<looked, doomed, broken>>
vars == <<front, proc, children, lockQ, execQ, result, pc, answer, runs,
          exiting, closed, faults, side>>

CommandFor(caller) == IF caller \in Clients
                      THEN CommandOf[caller]
                      ELSE [cmd |-> "prepare", args |-> primedArgs]

\* busy's first term: a reader is parked on the pipe, or queued for it.
InFlight == \E x \in Callers : pc[x] \in {"exchange", "hello", "reprime"}

\* uvicorn serves once start() has returned and the bring-up has had its turn.
Serving == state # "STOPPING" /\ pc["startup"] # "created"

Succeeded(message) == message.kind = "reply" /\ message.ok

Usable(i) == i # 0 /\ children[i].life # "dead"

-----------------------------------------------------------------------------
(* Pieces of the coroutines.                                               *)

Submit(item) == execQ' = Append(execQ, item)

ReapFor(t) == [kind |-> "reap", by |-> t]

ExchangeFor(x) == [kind |-> "exchange", by |-> x, child |-> proc,
                   command |-> CommandFor(x), sent |-> FALSE]

\* _ready_event.set(): whoever waits for startup to resolve will wake.
SetReady(at) == [x \in Callers |-> IF at[x] = "waiting" THEN "woken" ELSE at[x]]

\* Broken: the state moves and no task is created.
StartRestartNoTask(at) ==
    /\ state' = IF state = "STOPPING" THEN state ELSE "RESTARTING"
    /\ pc' = at

\* _start_restart
StartRestart(at) ==
    IF state = "STOPPING" THEN state' = state /\ pc' = at
    ELSE /\ state' = "RESTARTING"
         /\ pc' = IF at["restart"] = "off" THEN [at EXCEPT !["restart"] = "created"] ELSE at

\* A task that returns or raises; _restart lets go of the lock on its way out.
Leave(t) == lockQ' = IF t = "restart" THEN Tail(lockQ) ELSE lockQ

Take(x) == result' = [result EXCEPT ![x] = None]

\* Broken: the loop goes on after it has declared the flight degraded.
TurnKeepsTrying(t) ==
    /\ state' = IF attempts >= MAX_RESTART_ATTEMPTS THEN "DEGRADED" ELSE state
    /\ attempts' = (attempts + 1) % (MAX_RESTART_ATTEMPTS + 1)
    /\ pc' = [pc EXCEPT ![t] = "backoff"]
    /\ UNCHANGED <<execQ, lockQ>>

\* One turn of _bring_up's loop, up to its first await.
Turn(t) ==
    \/ /\ attempts >= MAX_RESTART_ATTEMPTS
       /\ state' = "DEGRADED"
       /\ pc' = SetReady([pc EXCEPT ![t] = "off"])
       /\ Leave(t)
       /\ UNCHANGED <<attempts, execQ>>
    \/ /\ attempts < MAX_RESTART_ATTEMPTS
       /\ attempts' = attempts + 1
       /\ IF attempts = 0
          THEN Submit(ReapFor(t)) /\ pc' = [pc EXCEPT ![t] = "reap"]
          ELSE UNCHANGED execQ /\ pc' = [pc EXCEPT ![t] = "backoff"]
       /\ UNCHANGED <<state, lockQ>>

-----------------------------------------------------------------------------
(* send_command                                                            *)

Call(c) ==
    /\ pc[c] = "idle"
    /\ Serving
    /\ pc' = [pc EXCEPT ![c] = "lock"]
    /\ lockQ' = Append(lockQ, c)
    /\ UNCHANGED <<front, proc, children, execQ, result, answer, runs, exiting, closed,
                   faults, side>>

Return(c, value) ==
    /\ answer' = [answer EXCEPT ![c] = value]
    /\ lockQ' = Tail(lockQ)

\* _exchange as far as its await: no child is Unavailable, not Lost.
Exchange(c) ==
    /\ IF proc = 0
       THEN /\ Return(c, Unavailable)
            /\ pc' = [pc EXCEPT ![c] = "done"]
            /\ UNCHANGED execQ
       ELSE /\ Submit(ExchangeFor(c))
            /\ pc' = [pc EXCEPT ![c] = "exchange"]
            /\ UNCHANGED <<answer, lockQ>>
    /\ UNCHANGED <<front, proc, children, result, runs, exiting, closed, faults, side>>

TurnAway(c) ==
    /\ Return(c, Unavailable)
    /\ pc' = [pc EXCEPT ![c] = "done"]
    /\ UNCHANGED <<front, proc, children, execQ, result, runs, exiting, closed, faults, side>>

\* The lock is ours: _ensure_usable, and _exchange if there is no need to wait.
Acquire(c) ==
    /\ pc[c] = "lock"
    /\ lockQ[1] = c
    /\ \/ state = "READY" /\ Exchange(c)
       \/ state \notin {"READY", "STARTING"} /\ TurnAway(c)
       \/ /\ state = "STARTING"
          /\ pc' = [pc EXCEPT ![c] = "waiting"]
          /\ UNCHANGED <<front, proc, children, lockQ, execQ, result, answer, runs,
                         exiting, closed, faults, side>>

\* Woken, _ensure_usable looks at the state again.
Wake(c) ==
    /\ pc[c] = "woken"
    /\ \/ state = "READY" /\ Exchange(c)
       \/ state # "READY" /\ TurnAway(c)

\* STARTUP_WAIT_S ran out.
GiveUpWaiting(c) == pc[c] = "waiting" /\ TurnAway(c)

\* Broken: a command whose child died is sent again once there is another.
ReturnedRetrying(c) ==
    /\ pc[c] = "exchange"
    /\ result[c] # None
    /\ Take(c)
    /\ IF result[c].kind = "lost" /\ state # "STOPPING"
       THEN /\ lockQ' = Append(Tail(lockQ), c)
            /\ StartRestart([pc EXCEPT ![c] = "lock"])
            /\ UNCHANGED answer
       ELSE /\ Return(c, result[c])
            /\ pc' = [pc EXCEPT ![c] = "done"]
            /\ UNCHANGED state
    /\ UNCHANGED <<attempts, provokedBy, primedArgs, proc, children, execQ, runs, exiting,
                   closed, faults, side>>

\* The reader is back, with the reply or with CoordinatorLost.
Returned(c) ==
    /\ pc[c] = "exchange"
    /\ result[c] # None
    /\ Return(c, result[c])
    /\ Take(c)
    /\ IF result[c].kind = "lost"
       THEN /\ provokedBy' = CommandOf[c].cmd
            /\ StartRestart([pc EXCEPT ![c] = "done"])
            /\ UNCHANGED primedArgs
       ELSE /\ primedArgs' = IF CommandOf[c].cmd = "prepare" /\ Succeeded(result[c])
                             THEN CommandOf[c].args ELSE primedArgs
            /\ pc' = [pc EXCEPT ![c] = "done"]
            /\ UNCHANGED <<state, provokedBy>>
    /\ UNCHANGED <<attempts, proc, children, execQ, runs, exiting, closed, faults, side>>

-----------------------------------------------------------------------------
(* _bring_up, run by start()'s task and by _restart under the lock.         *)

RestartQueues ==
    /\ pc["restart"] = "created"
    /\ pc' = [pc EXCEPT !["restart"] = "lock"]
    /\ lockQ' = Append(lockQ, "restart")
    /\ UNCHANGED <<front, proc, children, execQ, result, answer, runs, exiting, closed,
                   faults, side>>

Begin(t) ==
    /\ \/ t = "startup" /\ pc[t] = "created"
       \/ t = "restart" /\ pc[t] = "lock" /\ lockQ[1] = t
    /\ Turn(t)
    /\ UNCHANGED <<provokedBy, primedArgs, proc, children, result, answer, runs,
                   exiting, closed, faults, side>>

\* Broken: a retry spawns without reaping what the last attempt left.
BackoffOverNoReap(t) ==
    /\ pc[t] = "backoff"
    /\ pc' = [pc EXCEPT ![t] = "reap"]
    /\ result' = [result EXCEPT ![t] = Done]
    /\ UNCHANGED <<front, proc, children, lockQ, execQ, answer, runs, exiting, closed,
                   faults, side>>

BackoffOver(t) ==
    /\ pc[t] = "backoff"
    /\ pc' = [pc EXCEPT ![t] = "reap"]
    /\ Submit(ReapFor(t))
    /\ UNCHANGED <<front, proc, children, lockQ, result, answer, runs, exiting, closed,
                   faults, side>>

FreshChild == [life |-> "booting", open |-> TRUE, inbox |-> None, outbox |-> None,
               loaded |-> {}]

\* _spawn_child, and the hello read queued in the same breath.
Spawn(t) ==
    /\ pc[t] = "reap"
    /\ result[t] # None
    /\ Take(t)
    /\ children' = Append(children, FreshChild)
    /\ proc' = Len(children) + 1
    /\ Submit([kind |-> "hello", by |-> t, child |-> Len(children) + 1])
    /\ pc' = [pc EXCEPT ![t] = "hello"]
    /\ UNCHANGED <<front, lockQ, answer, runs, exiting, closed, faults, side>>

\* Broken: a task that a spawn's exception ends keeps the lock.
SpawnRaisesLocked(t) ==
    /\ pc[t] = "reap"
    /\ result[t] # None
    /\ faults < MaxFaults
    /\ faults' = faults + 1
    /\ Take(t)
    /\ broken' \in {"unmade", "unstarted"}
    /\ pc' = [pc EXCEPT ![t] = "off"]
    /\ UNCHANGED <<front, proc, children, lockQ, execQ, answer, runs, exiting, closed, looked,
                   doomed>>

\* _spawn_child raises, before there is a Process or at its start(), and nothing
\* catches it: the task ends, and the state stays what it is.
SpawnRaises(t) ==
    /\ pc[t] = "reap"
    /\ result[t] # None
    /\ faults < MaxFaults
    /\ faults' = faults + 1
    /\ Take(t)
    /\ broken' \in {"unmade", "unstarted"}
    /\ pc' = [pc EXCEPT ![t] = "off"]
    /\ Leave(t)
    /\ UNCHANGED <<front, proc, children, execQ, answer, runs, exiting, closed, looked, doomed>>

\* Bring-up is over and the flight is up.
BecomeReady(t) ==
    /\ provokedBy' = None
    /\ state' = "READY"
    /\ pc' = SetReady([pc EXCEPT ![t] = "off"])
    /\ Leave(t)

\* The hello came: the counter restarts, and the last prepare is replayed
\* unless there was none or a prepare is what killed the last child.
HelloCame(t) ==
    /\ attempts' = 0
    /\ IF primedArgs = None \/ provokedBy = "prepare"
       THEN BecomeReady(t) /\ UNCHANGED execQ
       ELSE /\ Submit(ExchangeFor(t))
            /\ pc' = [pc EXCEPT ![t] = "reprime"]
            /\ UNCHANGED <<state, provokedBy, lockQ>>

\* The hello read is back.  An exception other than CoordinatorLost ends the
\* task: the read's own, or the look at a _proc that is None by now.
HelloReturned(t) ==
    /\ pc[t] = "hello"
    /\ result[t] # None
    /\ Take(t)
    /\ \/ result[t].kind = "lost" /\ Turn(t) /\ UNCHANGED provokedBy
       \/ /\ result[t].kind = "fatal"
          /\ state' = "DEGRADED"
          /\ Submit(ReapFor(t))
          /\ pc' = [pc EXCEPT ![t] = "fatalReap"]
          /\ UNCHANGED <<attempts, provokedBy, lockQ>>
       \/ result[t].kind = "hello" /\ proc # 0 /\ HelloCame(t)
       \/ /\ result[t].kind = "raised" \/ (result[t].kind = "hello" /\ proc = 0)
          /\ pc' = [pc EXCEPT ![t] = "off"]
          /\ Leave(t)
          /\ UNCHANGED <<state, attempts, provokedBy, execQ>>
    /\ UNCHANGED <<primedArgs, proc, children, answer, runs, exiting, closed, faults, side>>

FatalReapDone(t) ==
    /\ pc[t] = "fatalReap"
    /\ result[t] # None
    /\ Take(t)
    /\ pc' = SetReady([pc EXCEPT ![t] = "off"])
    /\ Leave(t)
    /\ exiting' = TRUE
    /\ UNCHANGED <<front, proc, children, execQ, answer, runs, closed, faults, side>>

\* The replayed prepare is back: its loss is put down to a prepare.
ReprimeReturned(t) ==
    /\ pc[t] = "reprime"
    /\ result[t] # None
    /\ Take(t)
    /\ \/ /\ result[t].kind = "lost"
          /\ provokedBy' = "prepare"
          /\ Turn(t)
          /\ UNCHANGED primedArgs
       \/ /\ result[t].kind # "lost"
          /\ primedArgs' = IF Succeeded(result[t]) THEN primedArgs ELSE None
          /\ BecomeReady(t)
          /\ UNCHANGED <<attempts, execQ>>
    /\ UNCHANGED <<proc, children, answer, runs, exiting, closed, faults, side>>

-----------------------------------------------------------------------------
(* The executor's thread: _reap, and _await_reply behind a send or alone.   *)

Head1 == execQ[1]

Finish(value) ==
    /\ result' = [result EXCEPT ![Head1.by] = value]
    /\ execQ' = Tail(execQ)

Reaped(i) == [children EXCEPT ![i].life = "dead", ![i].open = FALSE,
                              ![i].inbox = None, ![i].outbox = None]

\* _reap lets go of the child before it does anything to it: from here on nobody
\* who looks at _proc finds it.
Detach ==
    /\ execQ # <<>>
    /\ Head1.kind = "reap"
    /\ proc # 0
    /\ doomed' = proc
    /\ proc' = 0
    /\ UNCHANGED <<front, children, lockQ, execQ, result, pc, answer, runs, exiting, closed,
                   faults, looked, broken>>

\* Then it signals the child, waits for it and closes its end of the pipe.
Reap ==
    /\ execQ # <<>>
    /\ Head1.kind = "reap"
    /\ proc = 0
    /\ children' = IF doomed = 0 THEN children ELSE Reaped(doomed)
    /\ doomed' = 0
    /\ broken' = None
    /\ Finish(Done)
    /\ UNCHANGED <<front, proc, lockQ, pc, answer, runs, exiting, closed, faults, looked>>

\* conn.send: a reaped child's connection is closed, a dead one's may still
\* take the bytes, and nobody reads them.
Send ==
    /\ execQ # <<>>
    /\ Head1.kind = "exchange"
    /\ ~Head1.sent
    /\ LET child == children[Head1.child]
       IN  \/ /\ child.life = "dead"
              /\ Finish(Lost)
              /\ UNCHANGED children
           \/ /\ child.open
              /\ children' = IF child.life = "dead" THEN children
                             ELSE [children EXCEPT ![Head1.child].inbox =
                                       [by |-> Head1.by, command |-> Head1.command]]
              /\ execQ' = [execQ EXCEPT ![1].sent = TRUE]
              /\ UNCHANGED result
    /\ UNCHANGED <<front, proc, lockQ, pc, answer, runs, exiting, closed, faults, side>>

Reading == /\ execQ # <<>>
           /\ Head1.kind = "hello" \/ (Head1.kind = "exchange" /\ Head1.sent)

\* _await_reply waits for the pipe to have something: here it has.
Receive ==
    /\ Reading
    /\ ~looked
    /\ children[Head1.child].open
    /\ children[Head1.child].outbox # None
    /\ Finish(children[Head1.child].outbox)
    /\ children' = [children EXCEPT ![Head1.child].outbox = None]
    /\ UNCHANGED <<front, proc, lockQ, pc, answer, runs, exiting, closed, faults, side>>

\* An abort, or the end of the pipe.  Waiting on a child that has been closed
\* raises what nothing here catches.
NoticeLoss ==
    /\ Reading
    /\ ~looked
    /\ LET child == children[Head1.child]
       IN  \/ /\ state = "STOPPING" \/ (child.life = "dead" /\ child.open /\ child.outbox = None)
              /\ Finish(Lost)
           \/ /\ state # "STOPPING" /\ ~child.open
              /\ Finish(Raised)
    /\ UNCHANGED <<front, proc, children, lockQ, pc, answer, runs, exiting, closed,
                   faults, side>>

\* A slice passes with nothing in the pipe, which a dead child's workers may keep
\* from ending.
SliceOver ==
    /\ Reading
    /\ ~looked
    /\ state # "STOPPING"
    /\ children[Head1.child].open
    /\ children[Head1.child].outbox = None
    /\ looked' = TRUE
    /\ UNCHANGED <<front, proc, children, lockQ, execQ, result, pc, answer, runs, exiting,
                   closed, faults, doomed, broken>>

\* is_alive(), which looks at the child alone: it may have answered since, and
\* died of the next thing it did.
LookAtChild ==
    /\ Reading
    /\ looked
    /\ looked' = FALSE
    /\ LET child == children[Head1.child]
       IN  IF child.life = "dead"
           THEN Finish(IF child.open THEN Lost ELSE Raised)
           ELSE UNCHANGED <<execQ, result>>
    /\ UNCHANGED <<front, proc, children, lockQ, pc, answer, runs, exiting, closed, faults,
                   doomed, broken>>

\* Broken: every read has a limit, a command's too.
AnyReadTimeout ==
    /\ Reading
    /\ looked
    /\ children[Head1.child].life # "dead"
    /\ faults < MaxFaults
    /\ faults' = faults + 1
    /\ looked' = FALSE
    /\ Finish(Lost)
    /\ UNCHANGED <<front, proc, children, lockQ, pc, answer, runs, exiting, closed, doomed,
                   broken>>

\* HELLO_TIMEOUT_S is over; commands have no such limit.
HelloTimeout ==
    /\ Reading
    /\ looked
    /\ Head1.kind = "hello"
    /\ children[Head1.child].life # "dead"
    /\ faults < MaxFaults
    /\ faults' = faults + 1
    /\ looked' = FALSE
    /\ Finish(Lost)
    /\ UNCHANGED <<front, proc, children, lockQ, pc, answer, runs, exiting, closed, doomed,
                   broken>>

-----------------------------------------------------------------------------
(* The child, seen from its end of the pipe (coordinator_main).             *)

Boot(i) ==
    /\ children[i].life = "booting"
    /\ \/ /\ children' = [children EXCEPT ![i].life = "serving", ![i].outbox = Hello]
          /\ UNCHANGED faults
       \/ /\ faults < MaxFaults
          /\ faults' = faults + 1
          /\ children' = [children EXCEPT ![i].life = "dead", ![i].outbox = Fatal]
    /\ UNCHANGED <<front, proc, lockQ, execQ, result, pc, answer, runs, exiting, closed, side>>

\* It takes the command it was sent and runs it.
RunCommand(i) ==
    /\ children[i].life = "serving"
    /\ children[i].inbox # None
    /\ children' = [children EXCEPT ![i].life = "working"]
    /\ runs' = IF children[i].inbox.by \in Clients
               THEN [runs EXCEPT ![children[i].inbox.by] = @ + 1] ELSE runs
    /\ UNCHANGED <<front, proc, lockQ, execQ, result, pc, answer, exiting, closed,
                   faults, side>>

Respond(i) ==
    /\ children[i].life = "working"
    /\ \E ok \in BOOLEAN :
          LET job == children[i].inbox
          IN  children' = [children EXCEPT
                  ![i].life = "serving",
                  ![i].inbox = None,
                  ![i].outbox = Reply(job.by, ok),
                  ![i].loaded = IF ok /\ job.command.cmd = "prepare"
                                THEN @ \cup {job.command.args} ELSE @]
    /\ UNCHANGED <<front, proc, lockQ, execQ, result, pc, answer, runs, exiting, closed,
                   faults, side>>

Crash(i) ==
    /\ children[i].life # "dead"
    /\ faults < MaxFaults
    /\ faults' = faults + 1
    /\ children' = [children EXCEPT ![i].life = "dead"]
    /\ UNCHANGED <<front, proc, lockQ, execQ, result, pc, answer, runs, exiting, closed, side>>

-----------------------------------------------------------------------------
(* The operator, and the end of the process.                                *)

\* kill_child: SIGKILL, without touching the pipe.
Killed == IF Usable(proc) THEN [children EXCEPT ![proc].life = "dead"] ELSE children

\* With no reader on the pipe _note_loss joins _proc, which raises if that was
\* never started: nothing is restarted then.
RequestRestart ==
    /\ Serving
    /\ state = "STARTING" => RestartWhileStarting \/ pc["startup"] = "off"
    /\ state # "DEGRADED" => InFlight \/ broken # "unstarted"
    /\ faults < MaxFaults
    /\ faults' = faults + 1
    /\ \/ /\ state = "DEGRADED"
          /\ attempts' = 0
          /\ StartRestart(pc)
          /\ UNCHANGED <<children, provokedBy>>
       \/ /\ state # "DEGRADED"
          /\ children' = Killed
          /\ IF InFlight THEN UNCHANGED <<state, pc, provokedBy>>
             ELSE provokedBy' = None /\ StartRestart(pc)
          /\ UNCHANGED attempts
    /\ UNCHANGED <<primedArgs, proc, lockQ, execQ, result, answer, runs, exiting, closed, side>>

\* Broken: the bring-up tasks are left running.
AcloseNoCancel ==
    /\ state # "STOPPING"
    /\ state' = "STOPPING"
    /\ pc' = SetReady(pc)
    /\ UNCHANGED <<attempts, provokedBy, primedArgs, proc, children, lockQ, execQ, result,
                   answer, runs, exiting, closed, faults, side>>

\* Each task awaits one call: the executor drops it, unless its thread runs it.
WithoutTasks(q) ==
    RemoveFirstMatch(RemoveFirstMatch(q, LAMBDA e : e.by = "startup"),
                     LAMBDA e : e.by = "restart")

\* aclose up to the locks: no reader waits on, waiters wake, both tasks are
\* cancelled wherever they are parked, and what they queued with them.
Aclose ==
    /\ state # "STOPPING"
    /\ state' = "STOPPING"
    /\ pc' = SetReady([pc EXCEPT !["startup"] = "off", !["restart"] = "off"])
    /\ lockQ' = RemoveFirst(lockQ, "restart")
    /\ execQ' = IF execQ = <<>> THEN execQ ELSE <<Head1>> \o WithoutTasks(Tail(execQ))
    /\ UNCHANGED <<attempts, provokedBy, primedArgs, proc, children, result, answer, runs,
                   exiting, closed, faults, side>>

\* The locks taken, or not in time: what child _proc names is shut down or killed.
\* A command's reader has left the pipe by then (POLL_SLICE_S < CLOSE_LOCK_WAIT_S).
\* A child the executor's thread is putting down is not waited for.
AcloseReaps ==
    /\ state = "STOPPING"
    /\ ~closed
    /\ \A c \in Clients : pc[c] # "exchange"
    /\ closed' = TRUE
    /\ children' = IF proc = 0 THEN children ELSE Reaped(proc)
    /\ proc' = 0
    /\ UNCHANGED <<front, lockQ, execQ, result, pc, answer, runs, exiting, faults, side>>

-----------------------------------------------------------------------------
\* What start() leaves behind: no child yet, and the bring-up task created.
Init ==
    /\ state = "STARTING"
    /\ attempts = 0
    /\ provokedBy = None
    /\ primedArgs = None
    /\ proc = 0
    /\ children = <<>>
    /\ lockQ = <<>>
    /\ execQ = <<>>
    /\ looked = FALSE
    /\ doomed = 0
    /\ broken = None
    /\ result = [x \in Callers |-> None]
    /\ pc = [x \in Callers |-> IF x = "startup" THEN "created"
                               ELSE IF x = "restart" THEN "off" ELSE "idle"]
    /\ answer = [c \in Clients |-> None]
    /\ runs = [c \in Clients |-> 0]
    /\ exiting = FALSE
    /\ closed = FALSE
    /\ faults = 0

\* The steps a scheduler or a kernel owes: coroutines that can run, the
\* executor's thread, and a child that is not hung.
ClientStep(c) == Acquire(c) \/ Wake(c) \/ Returned(c)

TaskStep(t) == \/ Begin(t) \/ BackoffOver(t) \/ Spawn(t) \/ SpawnRaises(t)
               \/ HelloReturned(t) \/ FatalReapDone(t) \/ ReprimeReturned(t)

ThreadStep == Detach \/ Reap \/ Send \/ Receive \/ NoticeLoss \/ SliceOver \/ LookAtChild

ChildStep(i) == Boot(i) \/ RunCommand(i) \/ Respond(i)

Next ==
    \/ \E c \in Clients : Call(c) \/ ClientStep(c) \/ GiveUpWaiting(c)
    \/ \E t \in Tasks : TaskStep(t)
    \/ RestartQueues
    \/ ThreadStep
    \/ HelloTimeout
    \/ \E i \in DOMAIN children : ChildStep(i) \/ Crash(i)
    \/ RequestRestart
    \/ Aclose
    \/ AcloseReaps

Spec == Init /\ [][Next]_vars

Fairness ==
    /\ \A c \in Clients : WF_vars(ClientStep(c)) /\ WF_vars(GiveUpWaiting(c))
    /\ \A t \in Tasks : WF_vars(TaskStep(t))
    /\ WF_vars(RestartQueues)
    /\ WF_vars(ThreadStep)
    /\ WF_vars(\E i \in DOMAIN children : ChildStep(i))
    /\ WF_vars(exiting /\ Aclose)
    /\ WF_vars(AcloseReaps)

FairSpec == Spec /\ Fairness

\* The abstract view: what CommandOnce speaks of.
callOf == [c \in Clients |->
    IF pc[c] = "idle" THEN "idle"
    ELSE IF answer[c] = None THEN "pending"
    ELSE IF answer[c].kind # "reply" THEN answer[c].kind
    ELSE IF answer[c].to = c THEN "replied" ELSE "crossed"]

Abstract == INSTANCE CommandOnce WITH call <- callOf, runs <- runs

-----------------------------------------------------------------------------
(* Properties.                                                             *)

Child == [life   : {"booting", "serving", "working", "dead"},
          open   : BOOLEAN,
          inbox  : Job \cup {None},
          outbox : (Message \cup {None}) \ {Done, Lost, Unavailable, Raised},
          loaded : SUBSET Configs]

ExecItem ==
    [kind : {"reap"}, by : Tasks] \cup
    [kind : {"hello"}, by : Tasks, child : DOMAIN children] \cup
    [kind : {"exchange"}, by : Callers, child : DOMAIN children, command : Command,
     sent : BOOLEAN]

TypeOK ==
    /\ state \in {"STARTING", "READY", "RESTARTING", "DEGRADED", "STOPPING"}
    /\ attempts \in 0..MAX_RESTART_ATTEMPTS
    /\ provokedBy \in {"prepare", "push", None}
    /\ primedArgs \in Configs \cup {None}
    /\ children \in Seq(Child)
    /\ proc \in 0..Len(children)
    /\ lockQ \in Seq(Clients \cup {"restart"})
    /\ execQ \in Seq(ExecItem)
    /\ looked \in BOOLEAN
    /\ doomed \in 0..Len(children)
    /\ broken \in {"unmade", "unstarted", None}
    /\ result \in [Callers -> Message \cup {None}]
    /\ pc \in [Callers -> {"idle", "off", "created", "lock", "waiting", "woken", "exchange",
                            "backoff", "reap", "hello", "reprime", "fatalReap", "done"}]
    /\ answer \in [Clients -> (Message \cup {None}) \ {Hello, Fatal, Done, Raised}]
    /\ runs \in [Clients -> Nat]
    /\ exiting \in BOOLEAN
    /\ closed \in BOOLEAN
    /\ faults \in 0..MaxFaults

\* A flight has one child: any other it spawned is dead, so no half-started or
\* given-up child keeps its workers and its mapping of the shared block beside
\* the one that serves.  While _reap puts the last one down, that is the one
\* (_reap before _spawn_child, _start_restart).
NoOrphan ==
    \A i \in DOMAIN children :
       children[i].life # "dead" => i = IF doomed = 0 THEN proc ELSE doomed

\* A reply is never there for another job to read: a reader finds its own or
\* none, and one whose reader is gone lies in the pipe of a dead child that
\* nobody is sent to any more (_exchange, which is never timed out).
OneConversation ==
    \A i \in DOMAIN children :
       LET said == children[i].outbox
           mine == {n \in DOMAIN execQ : execQ[n].kind # "reap" /\ execQ[n].child = i}
       IN  said # None /\ said.kind = "reply" =>
             /\ \A n \in mine : execQ[n].by = said.to
             /\ mine = {} /\ state # "STOPPING" => children[i].life = "dead"
             /\ mine = {} /\ state = "READY" => result[said.to] = Lost

\* Once the front-end has closed the flight no child of it lives on, whatever
\* bring-up or command the close came upon, but one that the executor's thread is
\* putting down at that moment (aclose, _reap).
ClosedLeavesNoStray ==
    closed => \A i \in DOMAIN children : children[i].life # "dead" =>
                 i = doomed /\ execQ # <<>> /\ Head1.kind = "reap"

\* DEGRADED is left only by the operator or by closing down: no bring-up still
\* running brings it back behind their backs (_bring_up, request_restart).
DegradedIsTerminal ==
    [][state = "DEGRADED" /\ state' # "DEGRADED" =>
          state' = "STOPPING" \/ (state' = "RESTARTING" /\ faults' > faults)]_vars

\* A flight implements CommandOnce: a command runs at most once, its reply is its
\* own, and one that was refused never ran (send_command, _exchange).
CommandsRunOnce == Abstract!Spec

\* Every command is answered, by its reply or by an exception, though the child
\* may die under it or behind it and the flight be restarted or closed meanwhile.
CallsAnswered == \A c \in Clients : pc[c] # "idle" ~> pc[c] = "done"

\* A flight that is starting or restarting gets somewhere: retries end, and a
\* restart never waits for a task that is not there (_bring_up, _restart), unless
\* a spawn raised and took the task with it.
BringUpResolves ==
    state \in {"STARTING", "RESTARTING"} ~>
       \/ state \notin {"STARTING", "RESTARTING"}
       \/ broken # None /\ \A t \in Tasks : pc[t] = "off"
=============================================================================
