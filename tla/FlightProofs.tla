---------------------------- MODULE FlightProofs ----------------------------
(***************************************************************************)
(* Proofs about Flight, for any clients, commands and configurations, any    *)
(* number of attempts and of faults, of a flight no operator restarts while  *)
(* it is STARTING (MCFlightStarting shows what happens to one who does).     *)
(***************************************************************************)
EXTENDS Flight, DataLemmas, TLAPS

\* The awaits of a request and of a bring-up task, and those in which the caller
\* has given the executor a call and is not back.
ClientAwaits == {"idle", "lock", "waiting", "woken", "exchange", "done"}
TaskAwaits == {"off", "created", "lock", "backoff", "reap", "hello", "reprime", "fatalReap"}
Calling == {"exchange", "reap", "hello", "reprime", "fatalReap"}

Waiting(x) == pc[x] \in Calling /\ result[x] = None

\* TypeOK in parts, its queues left out: LockInv and ExecInv say more of them.
FrontTyped ==
    /\ state \in {"STARTING", "READY", "RESTARTING", "DEGRADED", "STOPPING"}
    /\ attempts \in 0..MAX_RESTART_ATTEMPTS
    /\ provokedBy \in {"prepare", "push", None}
    /\ primedArgs \in Configs \cup {None}
    /\ exiting \in BOOLEAN
    /\ closed \in BOOLEAN
    /\ faults \in 0..MaxFaults

PipesTyped == children \in Seq(Child) /\ proc \in 0..Len(children)

CallersTyped ==
    /\ result \in [Callers -> Message \cup {None}]
    /\ pc \in [Callers -> ClientAwaits \cup TaskAwaits]
    /\ answer \in [Clients -> (Message \cup {None}) \ {Hello, Fatal, Done, Raised}]
    /\ runs \in [Clients -> Nat]

OwnAwaits ==
    /\ \A c \in Clients : pc[c] \in ClientAwaits
    /\ \A t \in Tasks : pc[t] \in TaskAwaits
    /\ pc["startup"] # "lock"

\* Who stands in the lock: requests from their call to their answer, and _restart.
InLock == {x \in Clients \cup {"restart"} :
              pc[x] \in {"lock", "waiting", "woken", "backoff"} \cup Calling}

\* Everybody in it stands there once, and whoever is past acquire() comes first.
LockInv ==
    /\ Lists(lockQ, InLock)
    /\ \A x \in InLock : pc[x] # "lock" => lockQ[1] = x

\* Which task may be where in each state of the flight, and that a request is on
\* the pipe in no state but READY, or STOPPING.
Stages ==
    /\ state = "STARTING" =>
          /\ pc["restart"] = "off"
          /\ pc["startup"] \in {"created", "backoff", "reap", "hello", "reprime", "off"}
    /\ state # "STARTING" => pc["startup"] \in {"off", "fatalReap"}
    /\ state = "READY" => pc["restart"] = "off"
    /\ state = "DEGRADED" => pc["restart"] \in {"off", "fatalReap"}
    /\ state = "STOPPING" => pc["startup"] = "off" /\ pc["restart"] = "off"
    /\ \A c \in Clients : pc[c] = "exchange" => state \in {"READY", "STOPPING"}
    /\ closed => state = "STOPPING"

\* While the reap behind a fatal hello of the first bring-up is under way, a
\* restart has got no further than its own first reap.
FatalFirst ==
    pc["startup"] = "fatalReap" /\ result["startup"] = None =>
       /\ state \in {"DEGRADED", "RESTARTING"}
       /\ pc["restart"] \in {"off", "created", "lock", "backoff", "reap"}
       /\ result["restart"] = None

\* The executor has one call at most, but for a reap behind that first one.
ExecShape ==
    \/ execQ = <<>>
    \/ \E e \in ExecItem : execQ = <<e>>
    \/ execQ = <<ReapFor("startup"), ReapFor("restart")>>

Fits(kind, x) ==
    \/ kind = "reap" /\ pc[x] \in {"reap", "fatalReap"}
    \/ kind = "hello" /\ pc[x] = "hello"
    \/ kind = "exchange" /\ pc[x] = IF x \in Clients THEN "exchange" ELSE "reprime"

\* The executor's calls are those their callers wait for, but for a task that
\* aclose cancelled, and they are about the child the flight has.
ExecInv ==
    /\ ExecShape
    /\ \A i \in DOMAIN execQ :
          LET e == execQ[i]
          IN  /\ e.by \in Clients \/ state # "STOPPING" =>
                    result[e.by] = None /\ Fits(e.kind, e.by)
              /\ e.kind # "reap" =>
                    e.child = proc \/ (e.by \in Tasks /\ state = "STOPPING" /\ proc = 0)
    /\ \A x \in Callers : Waiting(x) => \E i \in DOMAIN execQ : execQ[i].by = x

\* What an executor call came back with.
ResultsFit ==
    /\ \A c \in Clients : result[c] # None =>
          /\ pc[c] = "exchange"
          /\ result[c] = Lost \/ (result[c] = Reply(c, result[c].ok) /\ runs[c] = 1)
    /\ state # "STOPPING" => \A t \in Tasks : result[t] # None =>
          \/ pc[t] = "reap" /\ result[t] = Done /\ proc = 0
          \/ pc[t] = "fatalReap" /\ result[t] = Done
          \/ pc[t] = "hello" /\ result[t] \in {Hello, Fatal, Lost}
          \/ pc[t] = "reprime" /\ (result[t] = Lost \/ result[t].kind = "reply")

\* Every child but the flight's own, or the one its thread is putting down, is
\* dead and its pipe closed and empty.
Buried == \A i \in DOMAIN children : i \notin {proc, doomed} =>
             /\ children[i].life = "dead" /\ ~children[i].open
             /\ children[i].inbox = None /\ children[i].outbox = None

\* The flight has no other child while its thread puts one down.
Dying == doomed # 0 =>
    doomed \in DOMAIN children /\ proc = 0 /\ execQ # <<>> /\ Head1.kind = "reap"

\* The flight's own child has a pipe, and a closed flight has no child.
ProcOpen == (proc # 0 => children[proc].open) /\ (closed => proc = 0)

\* The thread has sent x's job to child i and is reading.
Asked(i, x) == /\ execQ # <<>> /\ Head1.kind = "exchange" /\ Head1.sent
               /\ Head1.child = i /\ Head1.by = x

\* A reply in the pipe is being read, or its child is dead and its reader has lost it
\* and is not back.
Unread(i) ==
    LET said == children[i].outbox
    IN  said # None /\ said.kind = "reply" =>
           Asked(i, said.to) \/ (children[i].life = "dead" /\ result[said.to] = Lost)

\* The hello has been read before anything is sent.
Up == \/ state = "READY"
      \/ \E t \in Tasks : pc[t] = "reprime" \/ (pc[t] = "hello" /\ result[t] = Hello)

Greeted ==
    Up =>
       /\ proc # 0
       /\ children[proc].life # "booting"
       /\ children[proc].outbox \notin {Hello, Fatal}
       /\ Unread(proc)

\* A job or a reply is in a living child's pipe for the call the thread is at, and not
\* both are.
PipeInv ==
    \A i \in DOMAIN children :
       LET child == children[i]
       IN  /\ child.life = "booting" => child.inbox = None /\ child.outbox = None
           /\ child.life = "working" => child.inbox # None
           /\ child.life # "dead" /\ child.inbox # None =>
                 child.outbox = None /\ (state = "STOPPING" \/ Asked(i, child.inbox.by))
           /\ child.outbox # None /\ child.outbox.kind = "reply" =>
                 state = "STOPPING" \/ child.life = "dead" \/ Asked(i, child.outbox.to)

\* What the thread's own exchange finds in the pipe.
ExchangeInv ==
    execQ # <<>> /\ Head1.kind = "exchange" =>
       LET child == children[Head1.child]
       IN  /\ child.life # "booting" /\ child.outbox \notin {Hello, Fatal}
           /\ ~Head1.sent => child.outbox = None /\ (child.life = "dead" \/ child.inbox = None)
           /\ Head1.sent =>
                 /\ child.outbox # None => child.outbox.to = Head1.by
                 /\ child.life # "dead" /\ child.inbox # None => child.inbox.by = Head1.by

\* What the thread's own read finds in the pipe.
HeadInv ==
    /\ execQ # <<>> /\ Head1.kind = "hello" =>
          /\ children[Head1.child].inbox = None
          /\ children[Head1.child].outbox \in {None, Hello, Fatal}
    /\ ExchangeInv

\* A request has no answer until it is done, and its answer is honest: its own
\* reply means its command ran, CoordinatorUnavailable that it did not.
Standing(c) ==
    /\ runs[c] \in {0, 1}
    /\ pc[c] \in {"idle", "lock", "waiting", "woken"} => runs[c] = 0
    /\ answer[c] # None <=> pc[c] = "done"
    /\ answer[c] # None => \/ answer[c] = Lost
                           \/ answer[c] = Unavailable /\ runs[c] = 0
                           \/ answer[c] = Reply(c, answer[c].ok) /\ runs[c] = 1

\* A command not yet sent has not run.
UnsentNeverRan ==
    execQ # <<>> /\ Head1.kind = "exchange" /\ Head1.by \in Clients /\ ~Head1.sent =>
       runs[Head1.by] = 0

\* A command in a pipe runs when its child takes it and not before, though its
\* caller may have lost it by then; a reply in a pipe means that it ran.
InPipes ==
    \A i \in DOMAIN children, c \in Clients :
       LET child == children[i]
       IN  /\ child.life # "dead" /\ child.inbox # None /\ child.inbox.by = c =>
                 /\ runs[c] = IF child.life = "working" THEN 1 ELSE 0
                 /\ \/ pc[c] = "exchange" /\ result[c] \in {None, Lost}
                    \/ pc[c] = "done" /\ answer[c] = Lost
           /\ child.outbox # None /\ child.outbox.kind = "reply" /\ child.outbox.to = c =>
                 runs[c] = 1

RunsInv == (\A c \in Clients : Standing(c)) /\ UnsentNeverRan /\ InPipes

FlightInv ==
    /\ FrontTyped /\ PipesTyped /\ CallersTyped /\ OwnAwaits
    /\ LockInv
    /\ Stages /\ FatalFirst
    /\ ExecInv /\ ResultsFit
    /\ Buried /\ Dying /\ ProcOpen
    /\ Greeted /\ PipeInv /\ HeadInv
    /\ RunsInv

-----------------------------------------------------------------------------
(* Messages, children and the executor's queue.                            *)

\* No message is None, and no two of them are the same.
LEMMA MessageFacts ==
    /\ Hello # None /\ Fatal # None /\ Done # None /\ Lost # None /\ Unavailable # None
    /\ Raised # None
    /\ Hello.kind = "hello" /\ Fatal.kind = "fatal" /\ Done.kind = "done" /\ Lost.kind = "lost"
    /\ Unavailable.kind = "unavailable" /\ Raised.kind = "raised"
    /\ {Hello, Fatal, Done, Lost, Unavailable, Raised} \subseteq Message
    /\ \A x \in Callers, ok \in BOOLEAN :
          /\ Reply(x, ok) \in Message /\ Reply(x, ok) # None
          /\ Reply(x, ok).kind = "reply" /\ Reply(x, ok).to = x /\ Reply(x, ok).ok = ok
    /\ \A m \in Message : m.kind = "reply" =>
          m.to \in Callers /\ m.ok \in BOOLEAN /\ m = Reply(m.to, m.ok)
    /\ \A m \in Message :
          \/ m \in {Hello, Fatal, Done, Lost, Unavailable, Raised}
          \/ m.kind = "reply"
    /\ \A j \in Job : j # None /\ j.by \in Callers /\ j.command \in Command
<1>1. None \notin Message /\ None \notin Job
  BY FlightAssumption DEF FlightAssumption
<1> QED
  BY <1>1 DEF Message, Hello, Fatal, Done, Lost, Unavailable, Raised, Reply, Job

\* A caller is a request or one of the two bring-up tasks.
LEMMA CallerFacts ==
    /\ Callers = Clients \cup {"startup", "restart"} /\ Tasks = {"startup", "restart"}
    /\ Clients \subseteq Callers /\ "restart" \in Callers /\ "startup" \in Callers
    /\ "restart" \notin Clients /\ "startup" \notin Clients
    /\ \A c \in Clients : c \notin Tasks /\ c # "restart" /\ c # "startup"
<1> QED
  BY FlightAssumption DEF FlightAssumption, Callers, Tasks

\* What a child's record is made of.
LEMMA ChildFacts ==
    ASSUME NEW child \in Child
    PROVE  /\ child.life \in {"booting", "serving", "working", "dead"}
           /\ child.open \in BOOLEAN
           /\ child.inbox \in Job \cup {None}
           /\ child.outbox \in (Message \cup {None}) \ {Done, Lost, Unavailable, Raised}
           /\ child.loaded \subseteq Configs
<1> QED
  BY DEF Child

\* Every child of the flight has a child's record.
LEMMA PipesFacts ==
    ASSUME PipesTyped
    PROVE  /\ Len(children) \in Nat /\ DOMAIN children = 1..Len(children)
           /\ proc # 0 => proc \in DOMAIN children
           /\ \A i \in DOMAIN children : children[i] \in Child
<1> QED
  BY LenProperties, ElementOfSeq DEF PipesTyped

\* One child's record is r, and the others are what they were.
Changed(i, r) ==
    /\ children' \in Seq(Child)
    /\ Len(children') = Len(children)
    /\ DOMAIN children' = DOMAIN children
    /\ \A j \in DOMAIN children : children'[j] = IF j = i THEN r ELSE children[j]

\* An EXCEPT on one child changes one child.
LEMMA ChildChanges ==
    ASSUME PipesTyped, NEW i \in DOMAIN children, NEW r \in Child,
           children' = [children EXCEPT ![i] = r]
    PROVE  Changed(i, r)
<1>1. children \in Seq(Child) /\ i \in 1..Len(children)
  BY PipesFacts DEF PipesTyped
<1> QED
  BY <1>1, ExceptSeq, LenProperties DEF Changed

\* What a call of the executor is, by its kind.
LEMMA ItemFacts ==
    ASSUME NEW e \in ExecItem
    PROVE  /\ e.kind \in {"reap", "hello", "exchange"} /\ e.by \in Callers
           /\ e.kind \in {"reap", "hello"} => e.by \in Tasks
           /\ e.kind = "reap" => e = ReapFor(e.by)
           /\ e.kind # "reap" => e.child \in DOMAIN children
           /\ e.kind = "exchange" => e.command \in Command /\ e.sent \in BOOLEAN
<1> QED
  BY DEF ExecItem, ReapFor, Callers

\* The first call of the executor, and what is left behind it.
LEMMA ExecFacts ==
    ASSUME ExecShape, execQ # <<>>
    PROVE  /\ Head1 \in ExecItem
           /\ \/ DOMAIN execQ = {1} /\ execQ = <<Head1>> /\ Tail(execQ) = <<>>
              \/ /\ DOMAIN execQ = {1, 2} /\ Head1 = ReapFor("startup")
                 /\ execQ[2] = ReapFor("restart") /\ Tail(execQ) = <<ReapFor("restart")>>
<1>1. CASE \E e \in ExecItem : execQ = <<e>>
  <2>1. PICK e \in ExecItem : execQ = <<e>>
    BY <1>1
  <2> HIDE DEF ExecItem
  <2>2. DOMAIN execQ = {1} /\ execQ[1] = e /\ Tail(execQ) = <<>>
    BY <2>1
  <2> QED
    BY <2>1, <2>2 DEF Head1
<1>2. CASE execQ = <<ReapFor("startup"), ReapFor("restart")>>
  <2>1. /\ DOMAIN execQ = {1, 2} /\ execQ[1] = ReapFor("startup") /\ execQ[2] = ReapFor("restart")
        /\ Tail(execQ) = <<ReapFor("restart")>>
    BY <1>2
  <2>2. ReapFor("startup") \in ExecItem
    BY DEF ReapFor, ExecItem, Tasks
  <2> QED
    BY <2>1, <2>2 DEF Head1
<1> QED
  BY <1>1, <1>2 DEF ExecShape

\* A queue of the executor's calls holds such calls.
LEMMA ShapeTyped ==
    ASSUME ExecShape
    PROVE  execQ \in Seq(ExecItem)
<1>1. ReapFor("startup") \in ExecItem /\ ReapFor("restart") \in ExecItem
  BY DEF ReapFor, ExecItem, Tasks
<1>2. CASE \E e \in ExecItem : execQ = <<e>>
  <2> HIDE DEF ExecItem
  <2> QED
    BY <1>2
<1>3. CASE execQ = <<ReapFor("startup"), ReapFor("restart")>>
  <2> HIDE DEF ExecItem, ReapFor
  <2> QED
    BY <1>1, <1>3
<1> QED
  BY <1>2, <1>3, EmptySeq DEF ExecShape

\* Outside STOPPING the first call of the executor is one its caller waits for.
LEMMA HeadAwaited ==
    ASSUME ExecInv, OwnAwaits, execQ # <<>>, Head1.by \in Clients \/ state # "STOPPING"
    PROVE  /\ Waiting(Head1.by) /\ Fits(Head1.kind, Head1.by)
           /\ Head1.kind = "reap" => pc[Head1.by] \in {"reap", "fatalReap"}
           /\ Head1.kind = "hello" => pc[Head1.by] = "hello"
           /\ Head1.kind = "exchange" =>
                 pc[Head1.by] = IF Head1.by \in Clients THEN "exchange" ELSE "reprime"
<1>1. Head1 \in ExecItem /\ 1 \in DOMAIN execQ
  BY ExecFacts DEF ExecInv
<1>2. result[Head1.by] = None /\ Fits(Head1.kind, Head1.by)
  BY <1>1 DEF ExecInv, Head1
<1>3. Head1.kind \in {"reap", "hello", "exchange"}
  BY <1>1, ItemFacts
<1> QED
  BY <1>2, <1>3 DEF Fits, Waiting, Calling

\* When nobody waits for it the executor is idle.
LEMMA NobodyWaits ==
    ASSUME ExecInv, OwnAwaits, state # "STOPPING", \A x \in Callers : ~Waiting(x)
    PROVE  execQ = <<>>
<1> SUFFICES ASSUME execQ # <<>> PROVE FALSE
  OBVIOUS
<1>1. Waiting(Head1.by) /\ Head1 \in ExecItem
  BY HeadAwaited, ExecFacts DEF ExecInv
<1>2. Head1.by \in Callers
  BY <1>1, ItemFacts
<1> QED
  BY <1>1, <1>2

\* When only the reap of a fatal first bring-up is under way, it is all there is.
LEMMA OnlyTheFatalReap ==
    ASSUME ExecInv, OwnAwaits, state # "STOPPING", pc["startup"] = "fatalReap",
           \A x \in Callers : Waiting(x) => x = "startup"
    PROVE  execQ = <<>> \/ execQ = <<ReapFor("startup")>>
<1> SUFFICES ASSUME execQ # <<>> PROVE execQ = <<ReapFor("startup")>>
  OBVIOUS
<1>1. /\ Waiting(Head1.by) /\ Head1 \in ExecItem /\ Fits(Head1.kind, Head1.by)
      /\ Head1.kind = "exchange" =>
            pc[Head1.by] = IF Head1.by \in Clients THEN "exchange" ELSE "reprime"
      /\ Head1.kind = "hello" => pc[Head1.by] = "hello"
  BY HeadAwaited, ExecFacts DEF ExecInv
<1>2. /\ Head1.by \in Callers /\ Head1.kind \in {"reap", "hello", "exchange"}
      /\ Head1.kind = "reap" => Head1 = ReapFor(Head1.by)
  BY <1>1, ItemFacts
<1>3. Head1.by = "startup"
  BY <1>1, <1>2
<1>4. Head1 = ReapFor("startup")
  BY <1>1, <1>2, <1>3
<1>5. CASE DOMAIN execQ = {1} /\ execQ = <<Head1>>
  BY <1>4, <1>5
<1>6. CASE DOMAIN execQ = {1, 2} /\ execQ[2] = ReapFor("restart")
  <2>1. result["restart"] = None /\ Fits("reap", "restart")
    BY <1>6 DEF ExecInv, ReapFor
  <2>2. Waiting("restart") /\ "restart" \in Callers
    BY <2>1 DEF Fits, Waiting, Calling, Callers, Tasks
  <2> QED
    BY <2>2
<1> QED
  BY <1>5, <1>6, ExecFacts DEF ExecInv

\* A step that leaves the executor, the flight's child and those who wait alone.
LEMMA ExecKept ==
    ASSUME ExecInv, OwnAwaits, execQ' = execQ, proc' = proc,
           DOMAIN children \subseteq DOMAIN children',
           state' = "STOPPING" <=> state = "STOPPING",
           \A x \in Callers : \/ pc'[x] = pc[x] /\ result'[x] = result[x]
                              \/ pc[x] \notin Calling /\ pc'[x] \notin Calling
                              \/ result[x] # None /\ (result'[x] # None \/ pc'[x] \notin Calling)
    PROVE  ExecInv'
<1>1. ExecItem \subseteq ExecItem'
  BY DEF ExecItem
<1>2. ExecShape'
  BY <1>1 DEF ExecInv, ExecShape, ReapFor
<1>3. \A i \in DOMAIN execQ : execQ[i] \in ExecItem
  BY ShapeTyped, ElementOfSeq, LenProperties DEF ExecInv
<1>4. ASSUME NEW i \in DOMAIN execQ, execQ[i].by \in Clients \/ state # "STOPPING"
      PROVE  result'[execQ[i].by] = None /\ Fits(execQ[i].kind, execQ[i].by)'
  <2> DEFINE e == execQ[i]
  <2>1. result[e.by] = None /\ Fits(e.kind, e.by)
    BY <1>4 DEF ExecInv
  <2>2. e.by \in Callers /\ e.kind \in {"reap", "hello", "exchange"}
    BY <1>3, <1>4, ItemFacts
  <2>3. pc[e.by] \in Calling
    BY <2>1, <2>2 DEF Fits, Calling
  <2>4. pc'[e.by] = pc[e.by] /\ result'[e.by] = result[e.by]
    BY <2>1, <2>2, <2>3
  <2> QED
    BY <2>1, <2>4 DEF Fits
<1>5. \A i \in DOMAIN execQ' :
         execQ'[i].kind # "reap" => execQ'[i].child = proc' \/ (state' = "STOPPING" /\ proc' = 0)
  BY DEF ExecInv
<1>6. \A x \in Callers : Waiting(x)' => \E i \in DOMAIN execQ' : execQ'[i].by = x
  BY DEF ExecInv, Waiting
<1> QED
  BY <1>2, <1>4, <1>5, <1>6 DEF ExecInv

-----------------------------------------------------------------------------
(* The lock: who joins it, who leaves it, and who only moves inside it.      *)

Stands(x) == pc[x] \in {"lock", "waiting", "woken", "backoff"} \cup Calling

\* Everybody but x is in the lock or out of it as before, and past acquire() or not.
Others(x) == \A y \in (Clients \cup {"restart"}) \ {x} :
                 /\ Stands(y)' <=> Stands(y)
                 /\ pc'[y] = "lock" <=> pc[y] = "lock"

\* x joins the queue for the lock.
LEMMA LockJoined ==
    ASSUME LockInv, NEW x \in Clients \cup {"restart"}, ~Stands(x), pc'[x] = "lock",
           Others(x), lockQ' = Append(lockQ, x)
    PROVE  LockInv'
<1>1. x \notin InLock /\ InLock' = InLock \cup {x}
  BY DEF InLock, Stands, Others
<1>2. \A y \in InLock : y # x /\ (pc'[y] # "lock" => lockQ[1] = y)
  BY <1>1 DEF LockInv, Others, InLock
<1>3. Lists(lockQ, InLock)
  BY DEF LockInv
<1>4. Lists(lockQ', InLock') /\ (InLock # {} => lockQ'[1] = lockQ[1])
  <2> HIDE DEF InLock
  <2> QED
    BY <1>1, <1>3, QueueAppend
<1> QED
  BY <1>1, <1>2, <1>4 DEF LockInv

\* x, who holds the lock, lets go of it.
LEMMA LockLeft ==
    ASSUME LockInv, NEW x \in Clients \cup {"restart"}, Stands(x), lockQ[1] = x, ~Stands(x)',
           Others(x), lockQ' = Tail(lockQ)
    PROVE  LockInv'
<1>1. x \in InLock /\ InLock' = InLock \ {x}
  BY DEF InLock, Stands, Others
<1>2. \A y \in InLock' : pc'[y] = "lock"
  BY <1>1 DEF LockInv, Others, InLock
<1>3. Lists(lockQ, InLock)
  BY DEF LockInv
<1>4. Lists(lockQ', InLock')
  <2> HIDE DEF InLock
  <2> QED
    BY <1>1, <1>3, QueueTail
<1> QED
  BY <1>2, <1>4 DEF LockInv

\* x, who holds the lock, moves on inside it.
LEMMA LockHeld ==
    ASSUME LockInv, NEW x \in Clients \cup {"restart"}, Stands(x), lockQ[1] = x, Stands(x)',
           Others(x), lockQ' = lockQ
    PROVE  LockInv'
<1>1. InLock' = InLock
  BY DEF InLock, Stands, Others
<1> QED
  BY <1>1 DEF LockInv, Others, InLock

\* Nobody moves in the lock.
LEMMA LockKept ==
    ASSUME LockInv, lockQ' = lockQ,
           \A y \in Clients \cup {"restart"} :
              (Stands(y)' <=> Stands(y)) /\ (pc'[y] = "lock" <=> pc[y] = "lock")
    PROVE  LockInv'
<1>1. InLock' = InLock
  BY DEF InLock, Stands
<1> QED
  BY <1>1 DEF LockInv, InLock

-----------------------------------------------------------------------------
(* The children are left alone.                                            *)

\* A step that leaves the children alone, and a reap the thread is at.
LEMMA BuriedKept ==
    ASSUME FlightInv, UNCHANGED <<children, proc, doomed, closed>>,
           execQ # <<>> /\ Head1.kind = "reap" => execQ' # <<>> /\ Head1'.kind = "reap"
    PROVE  Buried' /\ Dying' /\ ProcOpen'
<1> QED
  BY DEF FlightInv, Buried, Dying, ProcOpen

\* A step that leaves the child alone, and those who have lost it.
LEMMA GreetedKept ==
    ASSUME FlightInv, UNCHANGED <<children, proc>>, Up' => Up,
           Up' => \A x \in Callers :
                     /\ Asked(proc, x) => Asked(proc, x)'
                     /\ result[x] = Lost => result'[x] = Lost
    PROVE  Greeted'
<1> SUFFICES ASSUME Up' PROVE Greeted'
  BY DEF Greeted
<1>1. /\ proc # 0 /\ children[proc].life # "booting"
      /\ children[proc].outbox \notin {Hello, Fatal} /\ Unread(proc)
  BY DEF FlightInv, Greeted
<1>2. children[proc] \in Child
  BY <1>1, PipesFacts DEF FlightInv
<1>3. children[proc].outbox # None /\ children[proc].outbox.kind = "reply" =>
         children[proc].outbox.to \in Callers
  BY <1>2, ChildFacts, MessageFacts
<1>4. Unread(proc)'
  BY <1>1, <1>3 DEF Unread, Asked
<1> QED
  BY <1>1, <1>4 DEF Greeted

\* A step that at most kills children.
LEMMA GreetedStill ==
    ASSUME FlightInv, UNCHANGED <<proc, execQ, result>>, Up' => Up,
           \A j \in DOMAIN children :
              /\ children'[j].outbox = children[j].outbox
              /\ children[j].life # "booting" => children'[j].life # "booting"
              /\ children[j].life = "dead" => children'[j].life = "dead"
    PROVE  Greeted'
<1> SUFFICES ASSUME Up' PROVE Greeted'
  BY DEF Greeted
<1>1. /\ proc # 0 /\ children[proc].life # "booting"
      /\ children[proc].outbox \notin {Hello, Fatal} /\ Unread(proc)
  BY DEF FlightInv, Greeted
<1>2. proc \in DOMAIN children
  BY <1>1, PipesFacts DEF FlightInv
<1>3. Head1' = Head1 /\ \A x : Asked(proc, x)' <=> Asked(proc, x)
  BY DEF Asked, Head1
<1>4. Unread(proc)'
  BY <1>1, <1>2, <1>3 DEF Unread
<1> QED
  BY <1>1, <1>2, <1>4 DEF Greeted

-----------------------------------------------------------------------------
(* A request in the lock: it calls, waits for the bring-up, is turned away.   *)

\* A step that leaves the pipes and the executor alone.
LEMMA PipesKept ==
    ASSUME PipeInv, HeadInv, UNCHANGED <<children, execQ>>,
           state = "STOPPING" => state' = "STOPPING"
    PROVE  PipeInv' /\ HeadInv'
<1>1. Head1' = Head1 /\ \A i \in DOMAIN children : \A x : Asked(i, x)' <=> Asked(i, x)
  BY DEF Asked, Head1
<1>2. PipeInv'
  BY <1>1 DEF PipeInv
<1>3. HeadInv'
  BY <1>1 DEF HeadInv, ExchangeInv
<1> QED
  BY <1>2, <1>3

\* One request moves in or out of the lock, and never gets to the pipe.
ClientMoves(c, w) ==
    /\ pc' = [pc EXCEPT ![c] = w]
    /\ UNCHANGED <<state, attempts, provokedBy, primedArgs, proc, children, execQ, result,
                   runs, exiting, closed, faults, doomed>>
    /\ \/ pc[c] = "idle" /\ w = "lock" /\ lockQ' = Append(lockQ, c) /\ answer' = answer
       \/ pc[c] = "lock" /\ lockQ[1] = c /\ w = "waiting" /\ UNCHANGED <<lockQ, answer>>
       \/ /\ pc[c] \in {"lock", "waiting", "woken"} /\ lockQ[1] = c
          /\ w = "done" /\ lockQ' = Tail(lockQ)
          /\ answer' = [answer EXCEPT ![c] = Unavailable]

\* The moves of a request keep the invariant.
LEMMA ClientMovesStep ==
    ASSUME FlightInv, NEW c \in Clients, NEW w, ClientMoves(c, w)
    PROVE  FlightInv'
<1>1. /\ c \in Callers /\ c \notin Tasks /\ c # "restart" /\ c # "startup"
      /\ w \in {"lock", "waiting", "done"}
      /\ pc[c] \in {"idle", "lock", "waiting", "woken"}
  BY FlightAssumption DEF FlightAssumption, Callers, Tasks, ClientMoves
<1>2. /\ \A x \in Callers : pc'[x] = IF x = c THEN w ELSE pc[x]
      /\ pc' \in [Callers -> ClientAwaits \cup TaskAwaits]
  BY <1>1 DEF FlightInv, CallersTyped, ClientMoves, ClientAwaits
<1>3. /\ state' = state /\ proc' = proc /\ children' = children /\ execQ' = execQ
      /\ result' = result /\ runs' = runs /\ closed' = closed
      /\ "restart" \in Callers /\ "startup" \in Callers /\ Clients \subseteq Callers
  BY DEF ClientMoves, Callers, Tasks
<1>4. FrontTyped' /\ PipesTyped'
  BY DEF FlightInv, FrontTyped, PipesTyped, ClientMoves
<1>5. CallersTyped'
  <2>1. answer' \in [Clients -> (Message \cup {None}) \ {Hello, Fatal, Done, Raised}]
    BY MessageFacts DEF ClientMoves, FlightInv, CallersTyped, Unavailable, Hello, Fatal, Done,
                        Raised
  <2> QED
    BY <1>2, <1>3, <2>1 DEF FlightInv, CallersTyped
<1>6. OwnAwaits'
  BY <1>1, <1>2, <1>3 DEF FlightInv, OwnAwaits, ClientAwaits, Tasks
<1>7. LockInv'
  <2>1. Others(c)
    BY <1>2, <1>3 DEF Others, Stands
  <2>2. c \in Clients \cup {"restart"} /\ LockInv
    BY DEF FlightInv
  <2>3. CASE pc[c] = "idle" /\ w = "lock" /\ lockQ' = Append(lockQ, c)
    <3>1. ~Stands(c) /\ pc'[c] = "lock"
      BY <1>1, <1>2, <2>3 DEF Stands, Calling
    <3> QED
      BY <2>1, <2>2, <2>3, <3>1, LockJoined
  <2>4. CASE pc[c] = "lock" /\ lockQ[1] = c /\ w = "waiting" /\ lockQ' = lockQ
    <3>1. Stands(c) /\ Stands(c)'
      BY <1>1, <1>2, <2>4 DEF Stands, Calling
    <3> QED
      BY <2>1, <2>2, <2>4, <3>1, LockHeld
  <2>5. CASE /\ pc[c] \in {"lock", "waiting", "woken"} /\ lockQ[1] = c
             /\ w = "done" /\ lockQ' = Tail(lockQ)
    <3>1. Stands(c) /\ ~Stands(c)'
      BY <1>1, <1>2, <2>5 DEF Stands, Calling
    <3> QED
      BY <2>1, <2>2, <2>5, <3>1, LockLeft
  <2> QED
    BY <2>3, <2>4, <2>5 DEF ClientMoves
<1>8. Stages' /\ FatalFirst'
  BY <1>1, <1>2, <1>3 DEF FlightInv, Stages, FatalFirst
<1>9. ExecInv'
  BY <1>1, <1>2, <1>3, ExecKept DEF FlightInv, Calling
<1>10. ResultsFit'
  BY <1>1, <1>2, <1>3 DEF FlightInv, ResultsFit, Tasks
<1>11. Buried' /\ Dying' /\ ProcOpen'
  BY <1>3, BuriedKept DEF ClientMoves, Head1
<1>12. Greeted'
  <2>1. Up' => Up
    BY <1>1, <1>2, <1>3 DEF Up, Tasks
  <2>2. \A x : Asked(proc, x)' <=> Asked(proc, x)
    BY <1>3 DEF Asked, Head1
  <2> QED
    BY <1>3, <2>1, <2>2, GreetedKept
<1>13. PipeInv' /\ HeadInv'
  BY <1>3, PipesKept DEF FlightInv
<1>14. RunsInv'
  <2>1. \A d \in Clients : answer'[d] = IF d = c /\ w = "done" THEN Unavailable ELSE answer[d]
    BY DEF ClientMoves, FlightInv, CallersTyped
  <2>2. Unavailable # None /\ Lost # Unavailable /\ Lost # None
    BY MessageFacts
  <2>3. \A d \in Clients : Standing(d)
    BY DEF FlightInv, RunsInv
  <2>4. \A d \in Clients : Standing(d)'
    BY <1>1, <1>2, <1>3, <2>1, <2>2, <2>3 DEF Standing
  <2>5. UnsentNeverRan'
    BY <1>3 DEF FlightInv, RunsInv, UnsentNeverRan, Head1
  <2>6. InPipes'
    BY <1>1, <1>2, <1>3, <2>1 DEF FlightInv, RunsInv, InPipes
  <2> QED
    BY <2>4, <2>5, <2>6 DEF RunsInv
<1> QED
  BY <1>4, <1>5, <1>6, <1>7, <1>8, <1>9, <1>10, <1>11, <1>12, <1>13, <1>14 DEF FlightInv

-----------------------------------------------------------------------------
(* A request on the pipe: its job is submitted, and it comes back.           *)

\* Whoever holds the lock is the only one past acquire().
LEMMA Alone ==
    ASSUME FlightInv, NEW x \in Clients \cup {"restart"}, lockQ[1] = x,
           NEW y \in Clients \cup {"restart"}, y # x
    PROVE  pc[y] \notin {"waiting", "woken", "backoff"} \cup Calling
<1> QED
  BY DEF FlightInv, LockInv, InLock, Calling

\* With no exchange under way no job and no reply is in a living child's pipe.
LEMMA Quiet ==
    ASSUME FlightInv, state # "STOPPING", execQ = <<>> \/ Head1.kind # "exchange",
           NEW i \in DOMAIN children
    PROVE  /\ children[i].life # "dead" => children[i].inbox = None
           /\ children[i].life # "dead" /\ children[i].outbox # None =>
                 children[i].outbox.kind # "reply"
<1> QED
  BY DEF FlightInv, PipeInv, Asked

\* The executor was idle, and now has one call that one caller waits for.
LEMMA ExecStarts ==
    ASSUME execQ = <<>>, NEW item \in ExecItem', execQ' = Append(execQ, item),
           result'[item.by] = None, Fits(item.kind, item.by)',
           item.kind # "reap" => item.child = proc',
           \A y \in Callers : y # item.by => ~Waiting(y)'
    PROVE  ExecInv' /\ execQ' # <<>> /\ Head1' = item
<1> HIDE DEF ExecItem
<1>1. execQ' = <<item>> /\ DOMAIN execQ' = {1} /\ execQ'[1] = item /\ execQ' # <<>>
  OBVIOUS
<1>2. ExecShape'
  BY <1>1 DEF ExecShape
<1>3. /\ result'[execQ'[1].by] = None
      /\ Fits(item.kind, item.by)'
      /\ execQ'[1].kind # "reap" => execQ'[1].child = proc'
  BY <1>1
<1>4. \A x \in Callers : Waiting(x)' => \E i \in DOMAIN execQ' : execQ'[i].by = x
  BY <1>1
<1> QED
  BY <1>1, <1>2, <1>3, <1>4 DEF ExecInv, Head1

\* A caller's job is submitted to a child that has said hello and is quiet.
LEMMA ExchangeSubmitted ==
    ASSUME FlightInv, NEW x \in Callers, state # "STOPPING", execQ = <<>>, proc # 0,
           children[proc].life # "booting", children[proc].outbox \notin {Hello, Fatal},
           Unread(proc), \A y \in Callers : result[y] # Lost,
           CommandFor(x) \in Command, x \in Clients => runs[x] = 0,
           execQ' = Append(execQ, ExchangeFor(x)), UNCHANGED <<children, proc, state, runs>>,
           pc'[x] = IF x \in Clients THEN "exchange" ELSE "reprime", result'[x] = None,
           \A y \in Callers : y # x => ~Waiting(y)'
    PROVE  ExecInv' /\ PipeInv' /\ HeadInv' /\ UnsentNeverRan' /\ InPipes'
<1> DEFINE item == ExchangeFor(x)
<1>1. /\ item.kind = "exchange" /\ item.by = x /\ item.child = proc /\ ~item.sent
      /\ item \in [kind : {"exchange"}, by : Callers, child : DOMAIN children,
                   command : Command, sent : BOOLEAN]
      /\ proc \in DOMAIN children
  BY PipesFacts DEF ExchangeFor, FlightInv
<1>2. item \in ExecItem'
  BY <1>1 DEF ExecItem
<1>3. Fits("exchange", x)'
  BY DEF Fits
<1> HIDE DEF item
<1>4. ExecInv' /\ execQ' # <<>> /\ Head1' = item
  <2>1. execQ' = Append(execQ, item)
    BY DEF item
  <2> QED
    BY <1>1, <1>2, <1>3, <2>1, ExecStarts
<1>5. \A i \in DOMAIN children :
         /\ children[i].life # "dead" => children[i].inbox = None
         /\ children[i].life # "dead" /\ children[i].outbox # None =>
               children[i].outbox.kind # "reply"
  BY Quiet
<1>6. children[proc].outbox = None
  <2>1. children[proc] \in Child
    BY <1>1, PipesFacts DEF FlightInv
  <2>2. children[proc].outbox \in (Message \cup {None}) \ {Done, Lost, Unavailable, Raised}
    BY <2>1, ChildFacts
  <2>3. children[proc].outbox # None => children[proc].outbox.kind # "reply"
    BY <2>2, MessageFacts DEF Unread, Asked
  <2> QED
    BY <1>1, <2>2, <2>3, MessageFacts
<1>7. PipeInv'
  BY <1>5 DEF FlightInv, PipeInv
<1>8. HeadInv'
  BY <1>1, <1>4, <1>5, <1>6 DEF HeadInv, ExchangeInv
<1>9. UnsentNeverRan'
  BY <1>1, <1>4 DEF UnsentNeverRan
<1>10. InPipes'
  BY <1>5 DEF FlightInv, RunsInv, InPipes
<1> QED
  BY <1>4, <1>7, <1>8, <1>9, <1>10

\* A request that has the lock in READY sends its command: the child is there.
LEMMA ExchangeStep ==
    ASSUME FlightInv, NEW c \in Clients, pc[c] \in {"lock", "woken"}, lockQ[1] = c,
           state = "READY", Exchange(c)
    PROVE  FlightInv'
<1>1. /\ c \in Callers /\ c \notin Tasks /\ c # "restart" /\ c # "startup"
      /\ "restart" \in Callers /\ "startup" \in Callers /\ Clients \subseteq Callers
      /\ Callers = Clients \cup {"startup", "restart"}
      /\ "restart" \notin Clients /\ "startup" \notin Clients
  BY CallerFacts
<1>2. /\ proc # 0 /\ children[proc].life # "booting"
      /\ children[proc].outbox \notin {Hello, Fatal} /\ Unread(proc)
  BY DEF FlightInv, Greeted, Up
<1>3. /\ execQ' = Append(execQ, ExchangeFor(c))
      /\ pc' = [pc EXCEPT ![c] = "exchange"]
      /\ UNCHANGED <<state, attempts, provokedBy, primedArgs, answer, lockQ, proc, children,
                     result, runs, exiting, closed, faults, doomed>>
  BY <1>2 DEF Exchange, Submit, front, side
<1>4. /\ \A x \in Callers : pc'[x] = IF x = c THEN "exchange" ELSE pc[x]
      /\ pc' \in [Callers -> ClientAwaits \cup TaskAwaits]
  BY <1>1, <1>3 DEF FlightInv, CallersTyped, ClientAwaits
<1>5. \A y \in Callers : y # c => ~Waiting(y) /\ ~Waiting(y)'
  <2>1. \A y \in Clients \cup {"restart"} : y # c => pc[y] \notin Calling
    BY Alone
  <2>2. ~Waiting("startup")
    BY DEF FlightInv, Stages, FatalFirst, Waiting, Calling
  <2> QED
    BY <1>1, <1>3, <1>4, <2>1, <2>2 DEF Waiting
<1>6. ~Waiting(c) /\ result[c] = None
  BY <1>1 DEF Waiting, Calling, FlightInv, ResultsFit
<1>7. execQ = <<>>
  BY <1>5, <1>6, NobodyWaits DEF FlightInv
<1>8. CommandFor(c) \in Command /\ runs[c] = 0
  BY FlightAssumption DEF FlightAssumption, CommandFor, FlightInv, RunsInv, Standing
<1>9. \A y \in Callers : result[y] # Lost
  <2>1. \A d \in Clients : d # c => pc[d] # "exchange"
    BY Alone DEF Calling
  <2>2. \A d \in Clients : result[d] = None
    BY <1>6, <2>1 DEF FlightInv, ResultsFit
  <2>3. \A t \in Tasks : pc[t] \in {"off", "fatalReap"}
    BY <1>1 DEF FlightInv, Stages, Tasks
  <2>4. \A t \in Tasks : result[t] # None => result[t] = Done
    BY <2>3 DEF FlightInv, ResultsFit
  <2>5. Lost # None /\ Lost # Done
    BY MessageFacts DEF Lost, Done
  <2> QED
    BY <1>1, <2>2, <2>4, <2>5 DEF Tasks
<1>17. ExecInv' /\ PipeInv' /\ HeadInv' /\ UnsentNeverRan' /\ InPipes'
  BY <1>1, <1>2, <1>3, <1>4, <1>5, <1>6, <1>7, <1>8, <1>9, ExchangeSubmitted
<1>10. FrontTyped' /\ PipesTyped' /\ CallersTyped'
  BY <1>3, <1>4 DEF FlightInv, FrontTyped, PipesTyped, CallersTyped
<1>11. OwnAwaits'
  BY <1>1, <1>4 DEF FlightInv, OwnAwaits, ClientAwaits, Tasks
<1>12. LockInv'
  <2>1. Others(c)
    BY <1>1, <1>4 DEF Others, Stands
  <2>2. Stands(c) /\ Stands(c)'
    BY <1>1, <1>4 DEF Stands, Calling
  <2> QED
    BY <1>3, <2>1, <2>2, LockHeld DEF FlightInv
<1>13. Stages' /\ FatalFirst'
  BY <1>1, <1>3, <1>4 DEF FlightInv, Stages, FatalFirst
<1>14. ResultsFit'
  BY <1>1, <1>3, <1>4, <1>6 DEF FlightInv, ResultsFit, Tasks
<1>15. Buried' /\ Dying' /\ ProcOpen' /\ Greeted'
  <2>1. Buried' /\ Dying' /\ ProcOpen'
    BY <1>3, <1>7, BuriedKept
  <2>2. Greeted'
    BY <1>3, <1>7, GreetedKept DEF Up, Asked
  <2> QED
    BY <2>1, <2>2
<1>16. \A d \in Clients : Standing(d)'
  BY <1>1, <1>3, <1>4 DEF FlightInv, RunsInv, Standing
<1> QED
  BY <1>10, <1>11, <1>12, <1>13, <1>14, <1>15, <1>16, <1>17 DEF FlightInv, RunsInv

\* What a request does once it has the lock.
LEMMA AcquireStep ==
    ASSUME FlightInv, NEW c \in Clients, Acquire(c)
    PROVE  FlightInv'
<1>1. CASE state = "READY" /\ Exchange(c)
  BY <1>1, ExchangeStep DEF Acquire
<1>2. CASE state \notin {"READY", "STARTING"} /\ TurnAway(c)
  <2>1. ClientMoves(c, "done")
    BY <1>2 DEF Acquire, TurnAway, Return, ClientMoves, front, side
  <2> QED
    BY <2>1, ClientMovesStep
<1>3. CASE /\ state = "STARTING"
           /\ pc' = [pc EXCEPT ![c] = "waiting"]
           /\ UNCHANGED <<front, proc, children, lockQ, execQ, result, answer, runs,
                          exiting, closed, faults, side>>
  <2>1. ClientMoves(c, "waiting")
    BY <1>3 DEF Acquire, ClientMoves, front, side
  <2> QED
    BY <2>1, ClientMovesStep
<1> QED
  BY <1>1, <1>2, <1>3 DEF Acquire

\* What it does once the bring-up it waited for is over, or was too long.
LEMMA WakeStep ==
    ASSUME FlightInv, NEW c \in Clients, Wake(c) \/ GiveUpWaiting(c)
    PROVE  FlightInv'
<1>1. lockQ[1] = c
  BY DEF FlightInv, LockInv, InLock, Wake, GiveUpWaiting
<1>2. CASE Wake(c) /\ state = "READY" /\ Exchange(c)
  BY <1>1, <1>2, ExchangeStep DEF Wake
<1>3. CASE (Wake(c) \/ GiveUpWaiting(c)) /\ TurnAway(c)
  <2>1. ClientMoves(c, "done")
    BY <1>1, <1>3 DEF Wake, GiveUpWaiting, TurnAway, Return, ClientMoves, front, side
  <2> QED
    BY <2>1, ClientMovesStep
<1> QED
  BY <1>2, <1>3 DEF Wake, GiveUpWaiting

\* A request calls.
LEMMA CallStep ==
    ASSUME FlightInv, NEW c \in Clients, Call(c)
    PROVE  FlightInv'
<1>1. ClientMoves(c, "lock")
  BY DEF Call, ClientMoves, front, side
<1> QED
  BY <1>1, ClientMovesStep

\* The reader is back: the caller has its reply, or has lost the child and starts
\* the restart.
LEMMA ReturnedStep ==
    ASSUME FlightInv, NEW c \in Clients, Returned(c)
    PROVE  FlightInv'
<1> DEFINE lost == result[c].kind = "lost"
           starts == lost /\ state # "STOPPING" /\ pc["restart"] = "off"
<1>1. /\ c \in Callers /\ c \notin Tasks /\ c # "restart" /\ c # "startup"
      /\ "restart" \in Callers /\ "startup" \in Callers /\ Clients \subseteq Callers
      /\ Callers = Clients \cup {"startup", "restart"}
      /\ "restart" \notin Clients /\ "startup" \notin Clients
  BY CallerFacts
<1>2. /\ pc[c] = "exchange" /\ result[c] # None /\ state \in {"READY", "STOPPING"}
      /\ lockQ[1] = c /\ Stands(c)
  BY DEF Returned, FlightInv, Stages, LockInv, InLock, Stands, Calling
<1>3. /\ result[c] \in Message
      /\ \/ lost /\ result[c] = Lost
         \/ ~lost /\ result[c].kind = "reply" /\ result[c] = Reply(c, result[c].ok) /\ runs[c] = 1
  BY <1>1, <1>2, MessageFacts DEF FlightInv, CallersTyped, ResultsFit, Reply
<1>4. /\ UNCHANGED <<attempts, proc, children, execQ, runs, exiting, closed, faults, doomed>>
      /\ lockQ' = Tail(lockQ)
      /\ answer' = [answer EXCEPT ![c] = result[c]]
      /\ result' = [result EXCEPT ![c] = None]
  BY DEF Returned, Return, Take, side
<1>5. /\ \A x \in Callers :
            /\ pc'[x] = IF x = c THEN "done"
                        ELSE IF x = "restart" /\ starts THEN "created" ELSE pc[x]
            /\ result'[x] = IF x = c THEN None ELSE result[x]
      /\ pc' \in [Callers -> ClientAwaits \cup TaskAwaits]
      /\ state' = IF lost /\ state # "STOPPING" THEN "RESTARTING" ELSE state
  <2> DEFINE at == [pc EXCEPT ![c] = "done"]
  <2>1. /\ at \in [Callers -> ClientAwaits \cup TaskAwaits]
        /\ \A x \in Callers : at[x] = IF x = c THEN "done" ELSE pc[x]
        /\ at["restart"] = pc["restart"]
    BY <1>1 DEF FlightInv, CallersTyped, ClientAwaits
  <2>2. /\ state' = IF lost /\ state # "STOPPING" THEN "RESTARTING" ELSE state
        /\ pc' = IF starts THEN [at EXCEPT !["restart"] = "created"] ELSE at
    <3> HIDE DEF at
    <3>1. lost => StartRestart(at)
      BY DEF Returned, at
    <3>2. ~lost => pc' = at /\ state' = state
      BY DEF Returned, at
    <3> QED
      BY <2>1, <3>1, <3>2 DEF StartRestart
  <2> HIDE DEF at
  <2>3. \A x \in Callers : pc'[x] = IF x = c THEN "done"
                                   ELSE IF x = "restart" /\ starts THEN "created" ELSE pc[x]
    BY <1>1, <2>1, <2>2
  <2>4. pc' \in [Callers -> ClientAwaits \cup TaskAwaits]
    BY <2>1, <2>2 DEF TaskAwaits
  <2>5. \A x \in Callers : result'[x] = IF x = c THEN None ELSE result[x]
    BY <1>1, <1>4 DEF FlightInv, CallersTyped
  <2> QED
    BY <2>2, <2>3, <2>4, <2>5
<1>6. /\ provokedBy' \in {"prepare", "push", None}
      /\ primedArgs' \in Configs \cup {None}
  BY FlightAssumption DEF FlightAssumption, Command, Returned, FlightInv, FrontTyped
<1> HIDE DEF lost
<1>7. FrontTyped' /\ PipesTyped'
  BY <1>4, <1>5, <1>6 DEF FlightInv, FrontTyped, PipesTyped
<1>8. CallersTyped'
  <2>1. result[c] \in (Message \cup {None}) \ {Hello, Fatal, Done, Raised}
    BY <1>3, MessageFacts
  <2> QED
    BY <1>4, <1>5, <2>1 DEF FlightInv, CallersTyped
<1>9. OwnAwaits'
  BY <1>1, <1>5 DEF FlightInv, OwnAwaits, ClientAwaits, TaskAwaits, Tasks
<1>10. LockInv'
  <2>1. Others(c)
    BY <1>1, <1>5 DEF Others, Stands, Calling
  <2>2. ~Stands(c)'
    BY <1>1, <1>5 DEF Stands, Calling
  <2> QED
    BY <1>2, <1>4, <2>1, <2>2, LockLeft DEF FlightInv
<1>11. Stages'
  <2>1. \A d \in Clients : d # c => pc[d] # "exchange"
    BY <1>2, Alone DEF Calling
  <2> QED
    BY <1>1, <1>2, <1>4, <1>5, <2>1 DEF FlightInv, Stages
<1>12. FatalFirst'
  BY <1>1, <1>2, <1>5 DEF FlightInv, FatalFirst, Stages
<1>13. ExecInv'
  BY <1>1, <1>2, <1>4, <1>5, ExecKept DEF FlightInv, Calling
<1>14. ResultsFit'
  BY <1>1, <1>2, <1>4, <1>5 DEF FlightInv, ResultsFit, Tasks
<1>15. Buried' /\ Dying' /\ ProcOpen'
  BY <1>4, BuriedKept DEF Head1
<1>16. Greeted'
  <2>1. Up' => Up /\ ~lost
    BY <1>1, <1>2, <1>5 DEF FlightInv, Stages, Up, Tasks
  <2>2. ~lost => \A x \in Callers : result[x] = Lost => result'[x] = Lost
    <3>1. Lost.kind # "reply"
      BY MessageFacts
    <3> QED
      BY <1>3, <1>5, <3>1
  <2> QED
    BY <1>4, <2>1, <2>2, GreetedKept DEF Asked, Head1
<1>17. PipeInv' /\ HeadInv'
  BY <1>4, <1>5, PipesKept DEF FlightInv
<1>18. RunsInv'
  <2>1. \A d \in Clients : /\ answer'[d] = IF d = c THEN result[c] ELSE answer[d]
                           /\ pc'[d] = IF d = c THEN "done" ELSE pc[d]
                           /\ result'[d] = IF d = c THEN None ELSE result[d]
    <3>1. \A d \in Clients : answer'[d] = IF d = c THEN result[c] ELSE answer[d]
      BY <1>4 DEF FlightInv, CallersTyped
    <3> QED
      BY <1>1, <1>5, <3>1
  <2>2. result[c] # None /\ Lost # None
    BY <1>2, MessageFacts
  <2>3. \A d \in Clients : Standing(d)
    BY DEF FlightInv, RunsInv
  <2>4. \A d \in Clients : Standing(d)'
    BY <1>2, <1>3, <1>4, <2>1, <2>2, <2>3 DEF Standing
  <2>5. UnsentNeverRan'
    BY <1>4 DEF FlightInv, RunsInv, UnsentNeverRan, Head1
  <2>6. result[c] \in {None, Lost} => result[c] = Lost
    BY <2>2
  <2>7. InPipes'
    BY <1>2, <1>4, <2>1, <2>6 DEF FlightInv, RunsInv, InPipes
  <2> QED
    BY <2>4, <2>5, <2>7 DEF RunsInv
<1> QED
  BY <1>7, <1>8, <1>9, <1>10, <1>11, <1>12, <1>13, <1>14, <1>15, <1>16, <1>17, <1>18
     DEF FlightInv

-----------------------------------------------------------------------------
(* A bring-up task: what is known where it runs, and how it moves.           *)

\* A task in the middle of a bring-up has the flight to itself, but for the reap
\* behind a fatal first hello.
LEMMA TaskFacts ==
    ASSUME FlightInv, NEW t \in Tasks, pc[t] \notin {"off", "fatalReap"}
    PROVE  /\ state = IF t = "startup" THEN "STARTING" ELSE "RESTARTING"
           /\ t = "startup" => pc["restart"] = "off"
           /\ t = "restart" => pc["startup"] \in {"off", "fatalReap"}
           /\ \A c \in Clients : pc[c] # "exchange"
           /\ t = "restart" /\ pc[t] \notin {"created", "lock"} => lockQ[1] = t /\ Stands(t)
           /\ \A y \in Callers : y # t /\ Waiting(y) =>
                 /\ y = "startup" /\ t = "restart" /\ pc[y] = "fatalReap"
                 /\ pc[t] \in {"created", "lock", "backoff", "reap"} /\ result[t] = None
<1>1. t \in {"startup", "restart"}
  BY DEF Tasks
<1>2. state = IF t = "startup" THEN "STARTING" ELSE "RESTARTING"
  BY <1>1 DEF FlightInv, Stages, FrontTyped
<1>3. /\ t = "startup" => pc["restart"] = "off"
      /\ t = "restart" => pc["startup"] \in {"off", "fatalReap"}
      /\ \A c \in Clients : pc[c] # "exchange"
  BY <1>1, <1>2 DEF FlightInv, Stages
<1>4. t = "restart" /\ pc[t] \notin {"created", "lock"} => lockQ[1] = t /\ Stands(t)
  BY DEF FlightInv, OwnAwaits, TaskAwaits, LockInv, InLock, Stands, Calling
<1>5. ASSUME NEW y \in Callers, y # t, Waiting(y)
      PROVE  /\ y = "startup" /\ t = "restart" /\ pc[y] = "fatalReap"
             /\ pc[t] \in {"created", "lock", "backoff", "reap"} /\ result[t] = None
  <2>1. y \notin Clients
    BY <1>3, <1>5 DEF FlightInv, OwnAwaits, ClientAwaits, Waiting, Calling
  <2>2. y = "startup" /\ t = "restart" /\ pc[y] = "fatalReap"
    BY <1>1, <1>3, <1>5, <2>1, CallerFacts DEF Waiting, Calling
  <2> QED
    BY <1>5, <2>2 DEF FlightInv, FatalFirst, Waiting
<1> QED
  BY <1>2, <1>3, <1>4, <1>5

\* One task moves; requests that wait for the bring-up may be woken.
TaskMoved(t, w) ==
    /\ pc' \in [Callers -> ClientAwaits \cup TaskAwaits]
    /\ pc'[t] = w
    /\ \A x \in Callers : \/ x = t
                          \/ pc'[x] = pc[x]
                          \/ pc[x] = "waiting" /\ pc'[x] = "woken"

\* Parking at an await, with or without waking the requests, is such a move.
LEMMA TaskParks ==
    ASSUME CallersTyped, NEW t \in Tasks, NEW w \in TaskAwaits,
           \/ pc' = [pc EXCEPT ![t] = w]
           \/ pc' = SetReady([pc EXCEPT ![t] = w])
    PROVE  TaskMoved(t, w)
<1>1. t \in Callers /\ w # "waiting"
  BY CallerFacts DEF TaskAwaits
<1> DEFINE at == [pc EXCEPT ![t] = w]
<1>2. /\ at \in [Callers -> ClientAwaits \cup TaskAwaits]
      /\ \A x \in Callers : at[x] = IF x = t THEN w ELSE pc[x]
  BY <1>1 DEF CallersTyped
<1>3. pc' = at \/ pc' = SetReady(at)
  OBVIOUS
<1> HIDE DEF at
<1>4. CASE pc' = at
  BY <1>1, <1>2, <1>4 DEF TaskMoved
<1>5. CASE pc' = SetReady(at)
  <2>1. \A x \in Callers : pc'[x] = IF at[x] = "waiting" THEN "woken" ELSE at[x]
    BY <1>5 DEF SetReady
  <2>2. pc' \in [Callers -> ClientAwaits \cup TaskAwaits]
    BY <1>2, <1>5 DEF SetReady, ClientAwaits
  <2> QED
    BY <1>1, <1>2, <2>1, <2>2 DEF TaskMoved
<1> QED
  BY <1>3, <1>4, <1>5

\* The task has taken what its call came back with, and nobody else's is touched.
Taken(t) ==
    /\ result' \in [Callers -> Message \cup {None}]
    /\ \A x \in Callers : result'[x] = IF x = t THEN None ELSE result[x]

\* Taking a result, or having none to take, touches no other call.
LEMMA Takes ==
    ASSUME CallersTyped, NEW t \in Callers, Take(t) \/ (result' = result /\ result[t] = None)
    PROVE  Taken(t)
<1> QED
  BY DEF CallersTyped, Taken, Take

\* The requests are where they were, and so is what is in the pipes for them.
LEMMA RequestsKept ==
    ASSUME FlightInv, NEW t \in Tasks, NEW w, TaskMoved(t, w), Taken(t), UNCHANGED <<answer, runs>>
    PROVE  /\ \A c \in Clients : Standing(c)'
           /\ children' = children => InPipes'
<1>1. \A c \in Clients : /\ c \in Callers /\ c # t /\ result'[c] = result[c]
                         /\ pc'[c] = pc[c] \/ (pc[c] = "waiting" /\ pc'[c] = "woken")
  BY CallerFacts DEF TaskMoved, Taken
<1>2. \A c \in Clients : Standing(c)'
  BY <1>1 DEF FlightInv, RunsInv, Standing
<1>3. ASSUME children' = children PROVE InPipes'
  BY <1>1, <1>3 DEF FlightInv, RunsInv, InPipes
<1> QED
  BY <1>2, <1>3

\* A task's move keeps the types and the results of the others.
LEMMA TaskMoves ==
    ASSUME FlightInv, NEW t \in Tasks, NEW w \in TaskAwaits, t = "startup" => w # "lock",
           TaskMoved(t, w), Taken(t), UNCHANGED <<answer, runs>>, state # "STOPPING",
           proc' = proc \/ \A u \in Tasks : u # t => pc[u] # "reap"
    PROVE  CallersTyped' /\ OwnAwaits' /\ ResultsFit'
<1>1. \A x \in Callers : pc[x] = "waiting" => x \in Clients
  BY CallerFacts DEF FlightInv, OwnAwaits, TaskAwaits
<1>2. CallersTyped'
  BY DEF FlightInv, CallersTyped, TaskMoved, Taken
<1>3. OwnAwaits'
  BY <1>1, CallerFacts DEF FlightInv, OwnAwaits, TaskMoved, ClientAwaits
<1>4. \A c \in Clients : result'[c] # None =>
          /\ pc'[c] = "exchange"
          /\ result'[c] = Lost \/ (result'[c] = Reply(c, result'[c].ok) /\ runs'[c] = 1)
  <2>1. \A c \in Clients : /\ result'[c] = result[c]
                           /\ pc[c] = "exchange" => pc'[c] = "exchange"
    BY CallerFacts DEF TaskMoved, Taken
  <2> QED
    BY <2>1 DEF FlightInv, ResultsFit
<1>5. \A u \in Tasks : result'[u] # None =>
          \/ pc'[u] = "reap" /\ result'[u] = Done /\ proc' = 0
          \/ pc'[u] = "fatalReap" /\ result'[u] = Done
          \/ pc'[u] = "hello" /\ result'[u] \in {Hello, Fatal, Lost}
          \/ pc'[u] = "reprime" /\ (result'[u] = Lost \/ result'[u].kind = "reply")
  <2>1. \A u \in Tasks : result'[u] # None =>
            u # t /\ pc'[u] = pc[u] /\ result'[u] = result[u]
    BY <1>1, CallerFacts DEF TaskMoved, Taken
  <2> QED
    BY <2>1 DEF FlightInv, ResultsFit
<1> QED
  BY <1>2, <1>3, <1>4, <1>5 DEF ResultsFit

\* A task that ends lets go of the lock, if it is the one that had it.
LEMMA TaskLeaves ==
    ASSUME FlightInv, NEW t \in Tasks, TaskMoved(t, "off"), Leave(t),
           t = "restart" => Stands(t) /\ lockQ[1] = t
    PROVE  LockInv'
<1>1. \A x \in Clients \cup {"restart"} : x # t =>
         (Stands(x)' <=> Stands(x)) /\ (pc'[x] = "lock" <=> pc[x] = "lock")
  BY CallerFacts DEF TaskMoved, Stands, Calling
<1>2. CASE t = "restart"
  <2>1. ~Stands(t)' /\ lockQ' = Tail(lockQ) /\ Others(t)
    BY <1>1, <1>2 DEF Leave, TaskMoved, Stands, Calling, Others
  <2> QED
    BY <1>2, <2>1, LockLeft DEF FlightInv
<1>3. CASE t # "restart"
  <2>1. \A x \in Clients \cup {"restart"} : x # t
    BY <1>3, CallerFacts
  <2>2. lockQ' = lockQ
    BY <1>3 DEF Leave
  <2> QED
    BY <1>1, <2>1, <2>2, LockKept DEF FlightInv
<1> QED
  BY <1>2, <1>3

\* A task that goes on keeps the lock, if it is the one that has it.
LEMMA TaskStays ==
    ASSUME FlightInv, NEW t \in Tasks, NEW w, TaskMoved(t, w), lockQ' = lockQ,
           w \in {"backoff"} \cup Calling,
           t = "restart" => Stands(t) /\ lockQ[1] = t
    PROVE  LockInv'
<1>1. \A x \in Clients \cup {"restart"} : x # t =>
         (Stands(x)' <=> Stands(x)) /\ (pc'[x] = "lock" <=> pc[x] = "lock")
  BY CallerFacts DEF TaskMoved, Stands, Calling
<1>2. CASE t = "restart"
  <2>1. Stands(t)' /\ Others(t)
    BY <1>1, <1>2 DEF TaskMoved, Stands, Calling, Others
  <2> QED
    BY <1>2, <2>1, LockHeld DEF FlightInv
<1>3. CASE t # "restart"
  <2>1. \A x \in Clients \cup {"restart"} : x # t
    BY <1>3, CallerFacts
  <2> QED
    BY <1>1, <2>1, LockKept DEF FlightInv
<1> QED
  BY <1>2, <1>3

\* A task submits a reap: it is alone, or behind that of a fatal first bring-up.
LEMMA ReapSubmitted ==
    ASSUME FlightInv, NEW t \in Tasks, pc[t] \notin {"off", "fatalReap"}, ~Waiting(t),
           NEW w \in {"reap", "fatalReap"}, TaskMoved(t, w), Taken(t),
           w = "fatalReap" => result[t] # None,
           execQ' = Append(execQ, ReapFor(t)), UNCHANGED <<proc, children>>,
           state' # "STOPPING"
    PROVE  /\ ExecInv' /\ PipeInv' /\ HeadInv' /\ UnsentNeverRan'
           /\ execQ' # <<>> /\ Head1'.kind = "reap"
<1> DEFINE item == ReapFor(t)
<1>1. state # "STOPPING"
  BY TaskFacts
<1>2. \A y \in Callers : y # t /\ Waiting(y) =>
                 /\ y = "startup" /\ t = "restart" /\ pc[y] = "fatalReap" /\ result[t] = None
  BY TaskFacts
<1>3. \A y \in Callers : y # t /\ Waiting(y)' => Waiting(y)
  BY DEF TaskMoved, Taken, Waiting, Calling
<1>4. item.kind = "reap" /\ item.by = t /\ item \in ExecItem' /\ t \in Callers
  BY CallerFacts DEF ReapFor, ExecItem
<1>5. result'[t] = None /\ Fits("reap", t)'
  BY <1>4 DEF Taken, Fits, TaskMoved
<1>6. ExecInv' /\ execQ' # <<>> /\ Head1'.kind = "reap" /\ (execQ = <<>> \/ Head1.kind = "reap")
  <2>1. CASE \A y \in Callers : ~Waiting(y)
    <3>1. execQ = <<>>
      BY <1>1, <2>1, NobodyWaits DEF FlightInv
    <3>2. execQ' = Append(execQ, item) /\ \A y \in Callers : y # t => ~Waiting(y)'
      BY <1>3, <2>1
    <3> HIDE DEF item
    <3>3. ExecInv' /\ execQ' # <<>> /\ Head1' = item
      BY <1>4, <1>5, <3>1, <3>2, ExecStarts
    <3> QED
      BY <1>4, <3>1, <3>3
  <2>2. CASE \E y \in Callers : Waiting(y)
    <3>1. /\ t = "restart" /\ pc["startup"] = "fatalReap" /\ w = "reap"
          /\ Waiting("startup") /\ \A y \in Callers : Waiting(y) => y = "startup"
      BY <1>2, <2>2
    <3>2. execQ = <<>> \/ execQ = <<ReapFor("startup")>>
      BY <1>1, <3>1, OnlyTheFatalReap DEF FlightInv
    <3>3. execQ = <<ReapFor("startup")>>
      <4>1. "startup" \in Callers
        BY CallerFacts
      <4>2. \E i \in DOMAIN execQ : execQ[i].by = "startup"
        BY <3>1, <4>1 DEF FlightInv, ExecInv
      <4>3. execQ # <<>>
        BY <4>2
      <4> QED
        BY <3>2, <4>3
    <3>4. execQ' = <<ReapFor("startup"), ReapFor("restart")>>
      <4>1. execQ' = Append(<<ReapFor("startup")>>, ReapFor("restart"))
        BY <3>1, <3>3
      <4> QED
        BY ONLY <4>1, QueueOfTwo
    <3>5. /\ DOMAIN execQ' = {1, 2} /\ execQ' # <<>>
          /\ execQ'[1] = ReapFor("startup") /\ execQ'[2] = ReapFor("restart")
      BY <3>4
    <3>6. /\ Fits("reap", "startup")' /\ result'["startup"] = None
          /\ Fits("reap", "restart")' /\ result'["restart"] = None
      <4>1. pc'["startup"] = "fatalReap" /\ result'["startup"] = None
        BY <3>1, CallerFacts DEF TaskMoved, Taken, Waiting
      <4> QED
        BY <1>5, <3>1, <4>1 DEF Fits
    <3>7. ExecShape'
      BY <3>4 DEF ExecShape, ReapFor
    <3>8. \A i \in DOMAIN execQ' : /\ result'[execQ'[i].by] = None
                                   /\ execQ'[i].kind = "reap"
                                   /\ pc'[execQ'[i].by] \in {"reap", "fatalReap"}
      BY <3>5, <3>6 DEF ReapFor, Fits
    <3>9. \A x \in Callers : Waiting(x)' => x = "startup" \/ x = "restart"
      BY <1>3, <3>1
    <3>10. \A x \in Callers : Waiting(x)' => \E i \in DOMAIN execQ' : execQ'[i].by = x
      BY <3>5, <3>9 DEF ReapFor
    <3>11. ExecInv'
      BY <3>7, <3>8, <3>10 DEF ExecInv, Fits
    <3> QED
      BY <3>3, <3>5, <3>11 DEF Head1, ReapFor
  <2> QED
    BY <2>1, <2>2
<1>7. PipeInv'
  <2>1. \A i \in DOMAIN children :
           children[i].life # "dead" =>
              /\ children[i].inbox = None
              /\ children[i].outbox # None => children[i].outbox.kind # "reply"
    BY <1>1, <1>6, Quiet
  <2> QED
    BY <2>1 DEF FlightInv, PipeInv
<1>8. HeadInv' /\ UnsentNeverRan'
  BY <1>6 DEF HeadInv, ExchangeInv, UnsentNeverRan
<1> QED
  BY <1>6, <1>7, <1>8

\* A task off the executor: what its move leaves of the calls, stages and pipes.
LEMMA TaskOffExecutor ==
    ASSUME FlightInv, NEW t \in Tasks, pc[t] \notin {"off", "fatalReap"}, ~Waiting(t),
           NEW w \in {"off", "backoff"}, TaskMoved(t, w), Taken(t),
           UNCHANGED <<proc, children, execQ>>, state' # "STOPPING"
    PROVE  ExecInv' /\ PipeInv' /\ HeadInv' /\ UnsentNeverRan'
<1>1. state # "STOPPING"
  BY TaskFacts
<1>2. \A x \in Callers : \/ pc'[x] = pc[x] /\ result'[x] = result[x]
                         \/ pc[x] \notin Calling /\ pc'[x] \notin Calling
                         \/ result[x] # None /\ (result'[x] # None \/ pc'[x] \notin Calling)
  BY DEF TaskMoved, Taken, Waiting, Calling
<1>3. ExecInv'
  BY <1>1, <1>2, ExecKept DEF FlightInv
<1>4. PipeInv' /\ HeadInv'
  BY <1>1, PipesKept DEF FlightInv
<1>5. UnsentNeverRan'
  <2>1. \A c \in Clients : pc[c] # "exchange"
    BY TaskFacts
  <2>2. ~(execQ # <<>> /\ Head1.kind = "exchange" /\ Head1.by \in Clients)
    BY <1>1, <2>1, HeadAwaited DEF FlightInv
  <2> QED
    BY <2>2 DEF UnsentNeverRan, Head1
<1> QED
  BY <1>3, <1>4, <1>5

\* Where a task comes to the top of _bring_up's loop.
AtTurn(t) ==
    \/ t = "startup" /\ pc[t] = "created"
    \/ t = "restart" /\ pc[t] = "lock" /\ lockQ[1] = t
    \/ pc[t] \in {"hello", "reprime"} /\ result[t] # None

\* One turn of the loop: the flight is given up, reaped at once or after a backoff.
LEMMA TurnStep ==
    ASSUME FlightInv, NEW t \in Tasks, AtTurn(t), Turn(t), Taken(t),
           provokedBy' \in {"prepare", "push", None}, primedArgs' = primedArgs,
           UNCHANGED <<proc, children, answer, runs, exiting, closed, faults, doomed>>
    PROVE  FlightInv'
<1>1. /\ pc[t] \notin {"off", "fatalReap"} /\ t \in Callers /\ t \in {"startup", "restart"}
      /\ state # "STOPPING"
  BY TaskFacts, CallerFacts DEF AtTurn
<1>2. ~Waiting(t) /\ (t = "restart" => Stands(t) /\ lockQ[1] = t)
  BY TaskFacts DEF AtTurn, Waiting, Stands, Calling
<1>3. PICK w \in {"off", "reap", "backoff"} :
         /\ TaskMoved(t, w)
         /\ w = "off" => state' = "DEGRADED" /\ Leave(t) /\ UNCHANGED <<attempts, execQ>>
         /\ w # "off" => /\ state' = state /\ lockQ' = lockQ
                         /\ attempts' = attempts + 1 /\ attempts < MAX_RESTART_ATTEMPTS
         /\ w = "reap" => execQ' = Append(execQ, ReapFor(t))
         /\ w = "backoff" => execQ' = execQ
  <2>1. CallersTyped
    BY DEF FlightInv
  <2>2. CASE attempts >= MAX_RESTART_ATTEMPTS
    <3>1. /\ TaskMoved(t, "off")
          /\ state' = "DEGRADED" /\ Leave(t) /\ UNCHANGED <<attempts, execQ>>
      <4>1. pc' = SetReady([pc EXCEPT ![t] = "off"])
        BY <2>2, FlightAssumption DEF FlightAssumption, Turn, FlightInv, FrontTyped
      <4>2. TaskMoved(t, "off")
        BY <2>1, <4>1, TaskParks DEF TaskAwaits
      <4> QED
        BY <2>2, <4>2, FlightAssumption DEF FlightAssumption, Turn, FlightInv, FrontTyped
    <3> QED
      BY <3>1
  <2>3. CASE attempts < MAX_RESTART_ATTEMPTS
    <3>1. /\ state' = state /\ lockQ' = lockQ
          /\ attempts' = attempts + 1 /\ attempts < MAX_RESTART_ATTEMPTS
          /\ IF attempts = 0 THEN execQ' = Append(execQ, ReapFor(t)) /\ pc' = [pc EXCEPT ![t] = "reap"]
             ELSE execQ' = execQ /\ pc' = [pc EXCEPT ![t] = "backoff"]
      BY <2>3, FlightAssumption DEF FlightAssumption, Turn, Submit, FlightInv, FrontTyped
    <3>2. CASE attempts = 0
      <4>1. TaskMoved(t, "reap")
        BY <2>1, <3>1, <3>2, TaskParks DEF TaskAwaits
      <4> QED
        BY <3>1, <3>2, <4>1
    <3>3. CASE attempts # 0
      <4>1. TaskMoved(t, "backoff")
        BY <2>1, <3>1, <3>3, TaskParks DEF TaskAwaits
      <4> QED
        BY <3>1, <3>3, <4>1
    <3> QED
      BY <3>2, <3>3
  <2> QED
    BY <2>2, <2>3 DEF Turn
<1>4. FrontTyped' /\ PipesTyped'
  BY <1>3, FlightAssumption DEF FlightAssumption, FlightInv, FrontTyped, PipesTyped
<1>5. CallersTyped' /\ OwnAwaits' /\ ResultsFit'
  <2>1. w \in TaskAwaits /\ w # "lock" /\ TaskMoved(t, w)
    BY <1>3 DEF TaskAwaits
  <2> QED
    BY <1>1, <2>1, TaskMoves
<1>6. LockInv'
  <2>1. CASE w = "off"
    BY <1>2, <1>3, <2>1, TaskLeaves
  <2>2. CASE w # "off"
    <3>1. w \in {"backoff"} \cup Calling /\ TaskMoved(t, w) /\ lockQ' = lockQ
      BY <1>3, <2>2 DEF Calling
    <3> QED
      BY <1>2, <3>1, TaskStays
  <2> QED
    BY <2>1, <2>2
<1>7. state' # "STOPPING"
  BY <1>1, <1>3
<1>8. Stages'
  <2>1. /\ state = IF t = "startup" THEN "STARTING" ELSE "RESTARTING"
        /\ t = "startup" => pc["restart"] = "off"
        /\ t = "restart" => pc["startup"] \in {"off", "fatalReap"}
        /\ \A c \in Clients : pc[c] # "exchange"
    BY <1>1, TaskFacts
  <2>2. /\ pc'[t] = w
        /\ t = "startup" => pc'["restart"] = pc["restart"]
        /\ t = "restart" => pc'["startup"] = pc["startup"]
        /\ \A c \in Clients : pc'[c] # "exchange"
    BY <1>3, <2>1, CallerFacts DEF TaskMoved
  <2>3. closed' => closed
    OBVIOUS
  <2> QED
    BY <1>1, <1>3, <2>1, <2>2, <2>3 DEF FlightInv, Stages
<1>9. FatalFirst'
  <2>1. /\ pc'["startup"] = "fatalReap" => t = "restart" /\ pc["startup"] = "fatalReap"
        /\ t = "restart" => result'["startup"] = result["startup"] /\ result'["restart"] = None
    BY <1>1, <1>3, CallerFacts DEF TaskMoved, Taken
  <2>2. state' \in {"DEGRADED", "RESTARTING"} \/ t = "startup"
    BY <1>1, <1>3, TaskFacts
  <2>3. pc'[t] \in {"off", "backoff", "reap"}
    BY <1>3 DEF TaskMoved
  <2> QED
    BY <2>1, <2>2, <2>3 DEF FatalFirst
<1>10. /\ ExecInv' /\ PipeInv' /\ HeadInv' /\ UnsentNeverRan'
       /\ execQ' = execQ \/ (execQ' # <<>> /\ Head1'.kind = "reap")
  <2>1. CASE w = "reap"
    <3>1. w \in {"reap", "fatalReap"} /\ TaskMoved(t, w) /\ execQ' = Append(execQ, ReapFor(t))
      BY <1>3, <2>1
    <3> QED
      BY <1>1, <1>2, <1>7, <2>1, <3>1, ReapSubmitted
  <2>2. CASE w \in {"off", "backoff"}
    <3>1. TaskMoved(t, w) /\ execQ' = execQ
      BY <1>3, <2>2
    <3> QED
      BY <1>1, <1>2, <1>7, <2>2, <3>1, TaskOffExecutor
  <2> QED
    BY <2>1, <2>2
<1>11. Buried' /\ Dying' /\ ProcOpen'
  BY <1>10, BuriedKept DEF Head1
<1>12. Greeted'
  <2>1. state' # "READY" /\ pc'[t] \notin {"hello", "reprime"}
    BY <1>1, <1>3, TaskFacts DEF TaskMoved
  <2>2. \A u \in Tasks : u # t => pc'[u] \notin {"hello", "reprime"}
    BY <1>1, <1>3, TaskFacts, CallerFacts DEF TaskMoved
  <2> QED
    BY <2>1, <2>2 DEF Greeted, Up
<1>13. RunsInv'
  BY <1>3, <1>10, RequestsKept DEF RunsInv
<1> QED
  BY <1>4, <1>5, <1>6, <1>8, <1>9, <1>10, <1>11, <1>12, <1>13 DEF FlightInv

\* A bring-up begins: start()'s, or a restart's once it has the lock.
LEMMA BeginStep ==
    ASSUME FlightInv, NEW t \in Tasks, Begin(t)
    PROVE  FlightInv'
<1>1. AtTurn(t) /\ Turn(t) /\ UNCHANGED <<provokedBy, primedArgs, proc, children, result, answer,
                                          runs, exiting, closed, faults, doomed>>
  BY DEF Begin, AtTurn, side
<1>2. t \in Callers /\ result[t] = None
  <2>1. pc[t] \in {"created", "lock"} /\ state # "STOPPING"
    BY TaskFacts DEF Begin
  <2> QED
    BY <2>1, CallerFacts DEF FlightInv, ResultsFit
<1>3. Taken(t)
  BY <1>1, <1>2, Takes DEF FlightInv
<1>4. provokedBy' \in {"prepare", "push", None}
  BY <1>1 DEF FlightInv, FrontTyped
<1> QED
  BY <1>1, <1>3, <1>4, TurnStep

\* A restart queues for the lock.
LEMMA RestartQueuesStep ==
    ASSUME FlightInv, RestartQueues
    PROVE  FlightInv'
<1> DEFINE t == "restart"
<1>1. /\ t \in Tasks /\ t \in Callers /\ pc[t] = "created" /\ state = "RESTARTING"
      /\ UNCHANGED <<state, attempts, provokedBy, primedArgs, proc, children, execQ, result,
                     answer, runs, exiting, closed, faults, doomed>>
      /\ lockQ' = Append(lockQ, t)
  BY TaskFacts, CallerFacts DEF RestartQueues, front, side
<1>2. TaskMoved(t, "lock") /\ Taken(t)
  <2>1. CallersTyped /\ "lock" \in TaskAwaits /\ pc' = [pc EXCEPT ![t] = "lock"]
    BY DEF FlightInv, RestartQueues, TaskAwaits
  <2>2. result[t] = None
    BY <1>1 DEF FlightInv, ResultsFit
  <2> QED
    BY <1>1, <2>1, <2>2, TaskParks, Takes
<1>3. FrontTyped' /\ PipesTyped'
  BY <1>1 DEF FlightInv, FrontTyped, PipesTyped
<1>4. CallersTyped' /\ OwnAwaits' /\ ResultsFit'
  <2>1. "lock" \in TaskAwaits /\ t # "startup" /\ state # "STOPPING"
    BY <1>1 DEF TaskAwaits
  <2> QED
    BY <1>1, <1>2, <2>1, TaskMoves
<1>5. LockInv'
  <2>1. ~Stands(t) /\ pc'[t] = "lock" /\ Others(t)
    BY <1>1, <1>2, CallerFacts DEF Stands, Calling, TaskMoved, Others
  <2> QED
    BY <1>1, <2>1, LockJoined DEF FlightInv
<1>6. Stages' /\ FatalFirst'
  <2>1. /\ pc'["startup"] = pc["startup"] /\ result'["startup"] = result["startup"]
        /\ pc'[t] = "lock" /\ result'[t] = None
        /\ \A c \in Clients : pc'[c] # "exchange"
        /\ pc["startup"] \in {"off", "fatalReap"}
    BY <1>1, <1>2, CallerFacts, TaskFacts DEF TaskMoved, Taken
  <2> QED
    BY <1>1, <2>1 DEF FlightInv, Stages, FatalFirst
<1>7. ExecInv'
  <2>1. \A x \in Callers : \/ pc'[x] = pc[x] /\ result'[x] = result[x]
                           \/ pc[x] \notin Calling /\ pc'[x] \notin Calling
    BY <1>1, <1>2 DEF TaskMoved, Taken, Calling
  <2> QED
    BY <1>1, <2>1, ExecKept DEF FlightInv
<1>8. PipeInv' /\ HeadInv'
  BY <1>1, PipesKept DEF FlightInv
<1>9. Buried' /\ Dying' /\ ProcOpen' /\ Greeted'
  <2>1. \A u \in Tasks : /\ pc'[u] \in {"hello", "reprime"} => pc'[u] = pc[u]
                         /\ result'[u] = result[u]
    BY <1>1, <1>2, CallerFacts DEF TaskMoved
  <2>2. Buried' /\ Dying' /\ ProcOpen'
    BY <1>1, BuriedKept DEF Head1
  <2>3. Greeted'
    BY <1>1, <2>1, GreetedKept DEF Up, Asked, Head1
  <2> QED
    BY <2>2, <2>3
<1>10. RunsInv'
  <2>1. UnsentNeverRan'
    BY <1>1 DEF FlightInv, RunsInv, UnsentNeverRan, Head1
  <2> QED
    BY <1>1, <1>2, <2>1, RequestsKept DEF RunsInv
<1> QED
  BY <1>3, <1>4, <1>5, <1>6, <1>7, <1>8, <1>9, <1>10 DEF FlightInv

\* A backoff is over: the last attempt's child is reaped.
LEMMA BackoffOverStep ==
    ASSUME FlightInv, NEW t \in Tasks, BackoffOver(t)
    PROVE  FlightInv'
<1>1. /\ t \in Callers /\ t \in {"startup", "restart"} /\ pc[t] = "backoff" /\ state # "STOPPING"
      /\ UNCHANGED <<state, attempts, provokedBy, primedArgs, proc, children, lockQ, result,
                     answer, runs, exiting, closed, faults, doomed>>
      /\ execQ' = Append(execQ, ReapFor(t))
  BY TaskFacts, CallerFacts DEF BackoffOver, front, side, Submit
<1>2. /\ pc[t] \notin {"off", "fatalReap"} /\ ~Waiting(t)
      /\ t = "restart" => Stands(t) /\ lockQ[1] = t
  BY <1>1, TaskFacts DEF Waiting, Calling
<1>3. TaskMoved(t, "reap") /\ Taken(t)
  <2>1. CallersTyped /\ "reap" \in TaskAwaits /\ pc' = [pc EXCEPT ![t] = "reap"]
    BY DEF FlightInv, BackoffOver, TaskAwaits
  <2>2. result[t] = None
    BY <1>1 DEF FlightInv, ResultsFit
  <2> QED
    BY <1>1, <2>1, <2>2, TaskParks, Takes
<1>4. FrontTyped' /\ PipesTyped'
  BY <1>1 DEF FlightInv, FrontTyped, PipesTyped
<1>5. CallersTyped' /\ OwnAwaits' /\ ResultsFit'
  BY <1>1, <1>3, TaskMoves DEF TaskAwaits
<1>6. LockInv'
  BY <1>1, <1>2, <1>3, TaskStays DEF Calling
<1>7. Stages' /\ FatalFirst'
  <2>1. /\ state = IF t = "startup" THEN "STARTING" ELSE "RESTARTING"
        /\ t = "startup" => pc["restart"] = "off"
        /\ t = "restart" => pc["startup"] \in {"off", "fatalReap"}
        /\ \A c \in Clients : pc[c] # "exchange"
    BY <1>2, TaskFacts
  <2>2. /\ pc'[t] = "reap" /\ result'[t] = None
        /\ t = "startup" => pc'["restart"] = pc["restart"]
        /\ t = "restart" => pc'["startup"] = pc["startup"] /\ result'["startup"] = result["startup"]
        /\ \A c \in Clients : pc'[c] # "exchange"
    BY <1>3, <2>1, CallerFacts DEF TaskMoved, Taken
  <2> QED
    BY <1>1, <2>1, <2>2 DEF FlightInv, Stages, FatalFirst
<1>8. /\ ExecInv' /\ PipeInv' /\ HeadInv' /\ UnsentNeverRan'
      /\ execQ' # <<>> /\ Head1'.kind = "reap"
  BY <1>1, <1>2, <1>3, ReapSubmitted
<1>9. Buried' /\ Dying' /\ ProcOpen'
  BY <1>1, <1>8, BuriedKept
<1>10. Greeted'
  <2>1. state' # "READY" /\ \A u \in Tasks : pc'[u] \notin {"hello", "reprime"}
    BY <1>1, <1>2, <1>3, TaskFacts, CallerFacts DEF TaskMoved
  <2> QED
    BY <2>1 DEF Greeted, Up
<1>11. RunsInv'
  BY <1>1, <1>3, <1>8, RequestsKept DEF RunsInv
<1> QED
  BY <1>4, <1>5, <1>6, <1>7, <1>8, <1>9, <1>10, <1>11 DEF FlightInv

\* A task whose call is back finds the executor idle.
LEMMA TaskIsBack ==
    ASSUME FlightInv, NEW t \in Tasks, pc[t] \in {"reap", "hello", "reprime"}, result[t] # None
    PROVE  /\ state # "STOPPING" /\ execQ = <<>>
           /\ \A y \in Callers : ~Waiting(y)
           /\ t = "restart" => Stands(t) /\ lockQ[1] = t
<1>1. state # "STOPPING" /\ \A y \in Callers : ~Waiting(y)
  <2>1. pc[t] \notin {"off", "fatalReap"}
    OBVIOUS
  <2> QED
    BY <2>1, TaskFacts DEF Waiting
<1>2. execQ = <<>>
  BY <1>1, NobodyWaits DEF FlightInv
<1>3. t = "restart" => Stands(t) /\ lockQ[1] = t
  BY TaskFacts
<1> QED
  BY <1>1, <1>2, <1>3

\* Who waits for the executor after a task took its result: the task, if at all.
LEMMA OnlyItself ==
    ASSUME FlightInv, NEW t \in Tasks, pc[t] \in {"reap", "hello", "reprime"}, result[t] # None,
           NEW w, TaskMoved(t, w), Taken(t)
    PROVE  \A y \in Callers : y # t => ~Waiting(y)'
<1>1. \A y \in Callers : ~Waiting(y)
  BY TaskIsBack
<1> QED
  BY <1>1 DEF TaskMoved, Taken, Waiting, Calling

\* When its call did not lose the child, nobody's did: no reply is left in the pipe.
LEMMA NobodyHasLost ==
    ASSUME FlightInv, NEW t \in Tasks, pc[t] \in {"reap", "hello", "reprime"}, result[t] # None,
           result[t] # Lost
    PROVE  /\ \A y \in Callers : result[y] # Lost
           /\ Up => children[proc].outbox = None \/ children[proc].outbox.kind # "reply"
<1>1. /\ Callers = Clients \cup {"startup", "restart"} /\ t \in {"startup", "restart"}
      /\ Lost # None /\ Lost # Done
  BY CallerFacts, MessageFacts DEF Lost, Done
<1>2. /\ \A c \in Clients : pc[c] # "exchange"
      /\ \A u \in Tasks : u # t => pc[u] \in {"off", "created", "lock", "backoff", "fatalReap"}
      /\ state # "STOPPING" /\ execQ = <<>>
  BY <1>1, TaskFacts, TaskIsBack, CallerFacts
<1>3. \A c \in Clients : result[c] = None
  BY <1>2 DEF FlightInv, ResultsFit
<1>4. \A u \in Tasks : u # t => result[u] \in {None, Done}
  BY <1>2 DEF FlightInv, ResultsFit
<1>5. \A y \in Callers : result[y] # Lost
  BY <1>1, <1>3, <1>4, CallerFacts
<1>6. ASSUME Up, children[proc].outbox # None, children[proc].outbox.kind = "reply" PROVE FALSE
  <2>1. proc # 0 /\ Unread(proc)
    BY <1>6 DEF FlightInv, Greeted
  <2>2. children[proc] \in Child
    BY <2>1, PipesFacts DEF FlightInv
  <2>3. children[proc].outbox.to \in Callers
    BY <1>6, <2>2, ChildFacts, MessageFacts
  <2> QED
    BY <1>2, <1>5, <1>6, <2>1, <2>3 DEF Unread, Asked
<1> QED
  BY <1>5, <1>6

\* The last attempt's child is buried, and a new one is spawned and listened to.
LEMMA SpawnStep ==
    ASSUME FlightInv, NEW t \in Tasks, Spawn(t)
    PROVE  FlightInv'
<1> DEFINE n == Len(children) + 1
           item == [kind |-> "hello", by |-> t, child |-> n]
<1>1. /\ t \in Callers /\ t \in {"startup", "restart"} /\ pc[t] = "reap" /\ result[t] # None
      /\ UNCHANGED <<state, attempts, provokedBy, primedArgs, lockQ, answer, runs, exiting,
                     closed, faults, doomed>>
      /\ children' = Append(children, FreshChild) /\ proc' = n
      /\ execQ' = Append(execQ, item)
      /\ Take(t) /\ pc' = [pc EXCEPT ![t] = "hello"]
  BY CallerFacts DEF Spawn, front, side, Submit
<1>2. /\ pc[t] \notin {"off", "fatalReap"} /\ ~Waiting(t)
      /\ state # "STOPPING" /\ execQ = <<>>
      /\ t = "restart" => Stands(t) /\ lockQ[1] = t
  BY <1>1, TaskIsBack DEF Waiting
<1>3. TaskMoved(t, "hello") /\ Taken(t)
  <2>1. CallersTyped /\ "hello" \in TaskAwaits
    BY DEF FlightInv, TaskAwaits
  <2> QED
    BY <1>1, <2>1, TaskParks, Takes
<1>4. FreshChild \in Child
  BY MessageFacts DEF FreshChild, Child
<1>5. /\ children \in Seq(Child) /\ children' \in Seq(Child) /\ Len(children) \in Nat
      /\ Len(children') = n /\ DOMAIN children = 1..Len(children) /\ DOMAIN children' = 1..n
      /\ \A i \in DOMAIN children : children'[i] = children[i]
      /\ children'[n] = FreshChild
  BY <1>1, <1>4, LastOfAppend DEF FlightInv, PipesTyped
<1>6. \A i \in DOMAIN children' : i = n \/ i \in DOMAIN children
  BY <1>5
<1>7. /\ proc = 0 /\ doomed = 0
      /\ \A i \in DOMAIN children : /\ children[i].life = "dead" /\ ~children[i].open
                                    /\ children[i].inbox = None /\ children[i].outbox = None
  BY <1>1, <1>2, <1>5 DEF FlightInv, ResultsFit, Buried, Dying
<1>8. /\ children'[n].life = "booting" /\ children'[n].open
      /\ children'[n].inbox = None /\ children'[n].outbox = None
  BY <1>5 DEF FreshChild
<1>9. FrontTyped' /\ PipesTyped'
  BY <1>1, <1>5 DEF FlightInv, FrontTyped, PipesTyped
<1>10. \A u \in Tasks : u # t => pc[u] \notin {"reap", "hello", "reprime"}
  BY <1>1, <1>2, TaskFacts, CallerFacts
<1>11. CallersTyped' /\ OwnAwaits' /\ ResultsFit'
  BY <1>1, <1>2, <1>3, <1>10, TaskMoves DEF TaskAwaits
<1>12. LockInv'
  BY <1>1, <1>2, <1>3, TaskStays DEF Calling
<1>13. Stages' /\ FatalFirst'
  <2>1. /\ state = IF t = "startup" THEN "STARTING" ELSE "RESTARTING"
        /\ t = "startup" => pc["restart"] = "off"
        /\ t = "restart" => pc["startup"] \in {"off", "fatalReap"} /\ ~Waiting("startup")
        /\ \A c \in Clients : pc[c] # "exchange"
    BY <1>1, <1>2, TaskFacts, TaskIsBack, CallerFacts
  <2>2. /\ pc'[t] = "hello"
        /\ t = "startup" => pc'["restart"] = pc["restart"]
        /\ t = "restart" => pc'["startup"] = pc["startup"] /\ result'["startup"] = result["startup"]
        /\ \A c \in Clients : pc'[c] # "exchange"
    BY <1>3, <2>1, CallerFacts DEF TaskMoved, Taken
  <2> QED
    BY <1>1, <2>1, <2>2 DEF FlightInv, Stages, FatalFirst, Waiting, Calling
<1>14. ExecInv' /\ execQ' # <<>> /\ Head1' = item
  <2>1. item \in ExecItem' /\ item.kind = "hello" /\ item.by = t /\ item.child = proc'
    BY <1>1, <1>5 DEF ExecItem
  <2>2. result'[t] = None /\ Fits("hello", t)'
    BY <1>1, <1>3 DEF Taken, TaskMoved, Fits
  <2>3. \A y \in Callers : y # t => ~Waiting(y)'
    BY <1>1, <1>3, OnlyItself
  <2>4. execQ' = Append(execQ, item)
    BY <1>1
  <2> HIDE DEF item
  <2> QED
    BY <1>2, <2>1, <2>2, <2>3, <2>4, ExecStarts
<1>15. Buried' /\ Dying' /\ ProcOpen'
  <2>1. closed' => FALSE
    BY <1>1, <1>2 DEF FlightInv, Stages
  <2> QED
    BY <1>1, <1>5, <1>6, <1>7, <1>8, <2>1 DEF Buried, Dying, ProcOpen
<1>16. Greeted'
  <2>1. state' # "READY" /\ result'[t] = None /\ pc'[t] = "hello"
    BY <1>1, <1>2, <1>3, TaskFacts DEF TaskMoved, Taken
  <2>2. \A u \in Tasks : u # t => pc'[u] \notin {"hello", "reprime"}
    BY <1>3, <1>10, CallerFacts DEF TaskMoved
  <2> QED
    BY <2>1, <2>2, MessageFacts DEF Greeted, Up
<1>17. PipeInv'
  BY <1>5, <1>6, <1>7, <1>8 DEF PipeInv
<1>18. HeadInv' /\ UnsentNeverRan'
  BY <1>8, <1>14, MessageFacts DEF HeadInv, ExchangeInv, UnsentNeverRan
<1>19. RunsInv'
  <2>1. InPipes'
    BY <1>5, <1>6, <1>7, <1>8 DEF InPipes
  <2> QED
    BY <1>1, <1>3, <1>18, <2>1, RequestsKept DEF RunsInv
<1> QED
  BY <1>9, <1>11, <1>12, <1>13, <1>14, <1>15, <1>16, <1>17, <1>18, <1>19 DEF FlightInv

\* A spawn raises: the task is gone, and the flight stays as it is.
LEMMA SpawnRaisesStep ==
    ASSUME FlightInv, NEW t \in Tasks, SpawnRaises(t)
    PROVE  FlightInv'
<1>1. /\ t \in Callers /\ t \in {"startup", "restart"} /\ pc[t] = "reap" /\ result[t] # None
      /\ pc[t] \notin {"off", "fatalReap"} /\ pc' = [pc EXCEPT ![t] = "off"]
      /\ Take(t) /\ Leave(t) /\ faults < MaxFaults /\ faults' = faults + 1
      /\ UNCHANGED <<state, attempts, provokedBy, primedArgs, proc, children, execQ, answer,
                     runs, exiting, closed, doomed>>
  BY CallerFacts DEF SpawnRaises, front
<1>2. /\ ~Waiting(t) /\ state # "STOPPING" /\ execQ = <<>>
      /\ t = "restart" => Stands(t) /\ lockQ[1] = t
  BY <1>1, TaskIsBack DEF Waiting
<1>3. TaskMoved(t, "off") /\ Taken(t)
  <2>1. CallersTyped /\ "off" \in TaskAwaits
    BY DEF FlightInv, TaskAwaits
  <2> QED
    BY <1>1, <2>1, TaskParks, Takes
<1>4. FrontTyped' /\ PipesTyped'
  BY <1>1, FlightAssumption DEF FlightAssumption, FlightInv, FrontTyped, PipesTyped
<1>5. CallersTyped' /\ OwnAwaits' /\ ResultsFit'
  BY <1>1, <1>2, <1>3, TaskMoves DEF TaskAwaits
<1>6. LockInv'
  BY <1>1, <1>2, <1>3, TaskLeaves
<1>7. /\ state = IF t = "startup" THEN "STARTING" ELSE "RESTARTING"
      /\ t = "startup" => pc["restart"] = "off"
      /\ t = "restart" => pc["startup"] \in {"off", "fatalReap"} /\ ~Waiting("startup")
      /\ \A c \in Clients : pc[c] # "exchange"
  BY <1>1, TaskFacts, TaskIsBack, CallerFacts
<1>8. /\ pc'[t] = "off"
      /\ t = "startup" => pc'["restart"] = pc["restart"]
      /\ t = "restart" => pc'["startup"] = pc["startup"] /\ result'["startup"] = result["startup"]
      /\ \A c \in Clients : pc'[c] # "exchange"
  BY <1>3, <1>7, CallerFacts DEF TaskMoved, Taken
<1>9. Stages' /\ FatalFirst'
  BY <1>1, <1>7, <1>8 DEF FlightInv, Stages, FatalFirst, Waiting, Calling
<1>10. ExecInv' /\ PipeInv' /\ HeadInv' /\ UnsentNeverRan'
  BY <1>1, <1>2, <1>3, TaskOffExecutor
<1>11. Buried' /\ Dying' /\ ProcOpen'
  BY <1>1, <1>2, BuriedKept
<1>12. Greeted'
  <2>1. \A u \in Tasks : pc'[u] \notin {"hello", "reprime"}
    BY <1>1, <1>7, <1>8, CallerFacts
  <2> QED
    BY <1>1, <1>7, <2>1 DEF Greeted, Up
<1>13. RunsInv'
  BY <1>1, <1>3, <1>10, RequestsKept DEF RunsInv
<1> QED
  BY <1>4, <1>5, <1>6, <1>9, <1>10, <1>11, <1>12, <1>13 DEF FlightInv

\* A bring-up that ends well: the flight is READY and has a child that is greeted.
LEMMA BecomeReadyStep ==
    ASSUME FlightInv, NEW t \in Tasks, result[t] # None,
           pc[t] = "reprime" \/ (pc[t] = "hello" /\ result[t] = Hello), result[t] # Lost,
           Take(t), BecomeReady(t), attempts' \in 0..MAX_RESTART_ATTEMPTS,
           primedArgs' \in Configs \cup {None},
           UNCHANGED <<execQ, proc, children, answer, runs, exiting, closed, faults, doomed>>
    PROVE  FlightInv'
<1>1. /\ t \in Callers /\ t \in {"startup", "restart"} /\ pc[t] \in {"reap", "hello", "reprime"}
      /\ pc[t] \notin {"off", "fatalReap"} /\ ~Waiting(t)
      /\ state' = "READY" /\ provokedBy' = None /\ Leave(t)
      /\ state # "STOPPING" /\ execQ = <<>> /\ \A y \in Callers : ~Waiting(y)
      /\ t = "restart" => Stands(t) /\ lockQ[1] = t
  BY TaskIsBack, CallerFacts DEF BecomeReady, Waiting
<1>2. TaskMoved(t, "off") /\ Taken(t)
  <2>1. CallersTyped /\ "off" \in TaskAwaits /\ pc' = SetReady([pc EXCEPT ![t] = "off"])
    BY DEF FlightInv, TaskAwaits, BecomeReady
  <2> QED
    BY <1>1, <2>1, TaskParks, Takes
<1>3. /\ proc # 0 /\ children[proc].life # "booting"
      /\ children[proc].outbox \notin {Hello, Fatal}
      /\ children[proc].outbox = None \/ children[proc].outbox.kind # "reply"
  BY <1>1, NobodyHasLost DEF FlightInv, Greeted, Up
<1>4. FrontTyped' /\ PipesTyped'
  BY <1>1 DEF FlightInv, FrontTyped, PipesTyped
<1>5. CallersTyped' /\ OwnAwaits' /\ ResultsFit'
  BY <1>1, <1>2, TaskMoves DEF TaskAwaits
<1>6. LockInv'
  BY <1>1, <1>2, TaskLeaves
<1>7. Stages' /\ FatalFirst'
  <2>1. /\ t = "startup" => pc["restart"] = "off"
        /\ t = "restart" => pc["startup"] \in {"off", "fatalReap"} /\ ~Waiting("startup")
        /\ \A c \in Clients : pc[c] # "exchange"
        /\ ~closed
    BY <1>1, TaskFacts, CallerFacts DEF FlightInv, Stages
  <2>2. /\ pc'[t] = "off"
        /\ t = "startup" => pc'["restart"] = pc["restart"]
        /\ t = "restart" => pc'["startup"] = pc["startup"] /\ result'["startup"] = result["startup"]
        /\ \A c \in Clients : pc'[c] # "exchange"
    BY <1>2, <2>1, CallerFacts DEF TaskMoved, Taken
  <2> QED
    BY <1>1, <2>1, <2>2 DEF Stages, FatalFirst, Waiting, Calling
<1>8. ExecInv' /\ PipeInv' /\ HeadInv' /\ UnsentNeverRan'
  BY <1>1, <1>2, TaskOffExecutor
<1>9. Buried' /\ Dying' /\ ProcOpen'
  BY <1>1, BuriedKept
<1>10. Greeted'
  BY <1>3 DEF Greeted, Unread
<1>11. RunsInv'
  BY <1>2, <1>8, RequestsKept DEF RunsInv
<1> QED
  BY <1>4, <1>5, <1>6, <1>7, <1>8, <1>9, <1>10, <1>11 DEF FlightInv

\* A fatal hello: the flight is given up, and the child that said it reaped.
LEMMA FatalHello ==
    ASSUME FlightInv, NEW t \in Tasks, pc[t] = "hello", result[t] # None, Take(t),
           state' = "DEGRADED", Submit(ReapFor(t)), pc' = [pc EXCEPT ![t] = "fatalReap"],
           UNCHANGED <<attempts, provokedBy, primedArgs, lockQ, proc, children, answer, runs,
                       exiting, closed, faults, doomed>>
    PROVE  FlightInv'
<1>1. /\ t \in Callers /\ t \in {"startup", "restart"} /\ pc[t] \in {"reap", "hello", "reprime"}
      /\ pc[t] \notin {"off", "fatalReap"} /\ ~Waiting(t)
      /\ state # "STOPPING" /\ state' # "STOPPING" /\ \A y \in Callers : ~Waiting(y)
      /\ t = "restart" => Stands(t) /\ lockQ[1] = t
      /\ execQ' = Append(execQ, ReapFor(t))
  BY TaskIsBack, CallerFacts DEF Submit, Waiting
<1>2. TaskMoved(t, "fatalReap") /\ Taken(t)
  <2>1. CallersTyped /\ "fatalReap" \in TaskAwaits
    BY DEF FlightInv, TaskAwaits
  <2> QED
    BY <1>1, <2>1, TaskParks, Takes
<1>3. FrontTyped' /\ PipesTyped'
  BY DEF FlightInv, FrontTyped, PipesTyped
<1>4. CallersTyped' /\ OwnAwaits' /\ ResultsFit'
  BY <1>1, <1>2, TaskMoves DEF TaskAwaits
<1>5. LockInv'
  BY <1>1, <1>2, TaskStays DEF Calling
<1>6. Stages' /\ FatalFirst'
  <2>1. /\ t = "startup" => pc["restart"] = "off"
        /\ t = "restart" => pc["startup"] \in {"off", "fatalReap"} /\ ~Waiting("startup")
        /\ pc["restart"] = "off" => result["restart"] = None
        /\ \A c \in Clients : pc[c] # "exchange"
        /\ ~closed
    BY <1>1, TaskFacts, CallerFacts DEF FlightInv, Stages, ResultsFit
  <2>2. /\ pc'[t] = "fatalReap" /\ result'[t] = None
        /\ t = "startup" => pc'["restart"] = pc["restart"] /\ result'["restart"] = result["restart"]
        /\ t = "restart" => pc'["startup"] = pc["startup"] /\ result'["startup"] = result["startup"]
        /\ \A c \in Clients : pc'[c] # "exchange"
    BY <1>2, <2>1, CallerFacts DEF TaskMoved, Taken
  <2> QED
    BY <1>1, <2>1, <2>2 DEF Stages, FatalFirst, Waiting, Calling
<1>7. /\ ExecInv' /\ PipeInv' /\ HeadInv' /\ UnsentNeverRan'
      /\ execQ' # <<>> /\ Head1'.kind = "reap"
  BY <1>1, <1>2, ReapSubmitted
<1>8. Buried' /\ Dying' /\ ProcOpen'
  BY <1>7, BuriedKept
<1>9. Greeted'
  <2>1. \A u \in Tasks : pc'[u] \notin {"hello", "reprime"}
    BY <1>1, <1>2, TaskFacts, CallerFacts DEF TaskMoved
  <2> QED
    BY <2>1 DEF Greeted, Up
<1>10. RunsInv'
  BY <1>2, <1>7, RequestsKept DEF RunsInv
<1> QED
  BY <1>3, <1>4, <1>5, <1>6, <1>7, <1>8, <1>9, <1>10 DEF FlightInv

\* The hello came and the last prepare is replayed.
LEMMA Replays ==
    ASSUME FlightInv, NEW t \in Tasks, pc[t] = "hello", result[t] = Hello, Take(t),
           primedArgs # None, attempts' = 0,
           Submit(ExchangeFor(t)), pc' = [pc EXCEPT ![t] = "reprime"],
           UNCHANGED <<state, provokedBy, primedArgs, lockQ, proc, children, answer, runs,
                       exiting, closed, faults, doomed>>
    PROVE  FlightInv'
<1>1. /\ t \in Callers /\ t \in {"startup", "restart"} /\ pc[t] \in {"reap", "hello", "reprime"}
      /\ t \notin Clients /\ pc[t] \notin {"off", "fatalReap"} /\ result[t] # None
      /\ state # "STOPPING" /\ \A y \in Callers : ~Waiting(y)
      /\ t = "restart" => Stands(t) /\ lockQ[1] = t
      /\ execQ = <<>> /\ execQ' = Append(execQ, ExchangeFor(t))
  BY TaskIsBack, CallerFacts, MessageFacts DEF Submit
<1>2. TaskMoved(t, "reprime") /\ Taken(t)
  <2>1. CallersTyped /\ "reprime" \in TaskAwaits
    BY DEF FlightInv, TaskAwaits
  <2> QED
    BY <1>1, <2>1, TaskParks, Takes
<1>3. /\ proc # 0 /\ children[proc].life # "booting"
      /\ children[proc].outbox \notin {Hello, Fatal} /\ Unread(proc)
      /\ children[proc].outbox = None \/ children[proc].outbox.kind # "reply"
      /\ \A y \in Callers : result[y] # Lost
  <2>1. result[t] # Lost
    BY MessageFacts DEF Hello, Lost
  <2> QED
    BY <1>1, <2>1, NobodyHasLost DEF FlightInv, Greeted, Up
<1>4. FrontTyped' /\ PipesTyped'
  BY FlightAssumption DEF FlightAssumption, FlightInv, FrontTyped, PipesTyped
<1>5. CallersTyped' /\ OwnAwaits' /\ ResultsFit'
  BY <1>1, <1>2, TaskMoves DEF TaskAwaits
<1>6. LockInv'
  BY <1>1, <1>2, TaskStays DEF Calling
<1>7. Stages' /\ FatalFirst'
  <2>1. /\ state = IF t = "startup" THEN "STARTING" ELSE "RESTARTING"
        /\ t = "startup" => pc["restart"] = "off"
        /\ t = "restart" => pc["startup"] \in {"off", "fatalReap"} /\ ~Waiting("startup")
        /\ \A c \in Clients : pc[c] # "exchange"
    BY <1>1, TaskFacts, CallerFacts
  <2>2. /\ pc'[t] = "reprime"
        /\ t = "startup" => pc'["restart"] = pc["restart"]
        /\ t = "restart" => pc'["startup"] = pc["startup"] /\ result'["startup"] = result["startup"]
        /\ \A c \in Clients : pc'[c] # "exchange"
    BY <1>2, <2>1, CallerFacts DEF TaskMoved, Taken
  <2> QED
    BY <1>1, <2>1, <2>2 DEF FlightInv, Stages, FatalFirst, Waiting, Calling
<1>8. ExecInv' /\ PipeInv' /\ HeadInv' /\ UnsentNeverRan' /\ InPipes'
  <2>1. CommandFor(t) \in Command
    BY <1>1 DEF CommandFor, Command, FlightInv, FrontTyped
  <2>2. pc'[t] = "reprime" /\ result'[t] = None /\ \A y \in Callers : y # t => ~Waiting(y)'
    BY <1>1, <1>2, OnlyItself DEF TaskMoved, Taken
  <2> QED
    BY <1>1, <1>3, <2>1, <2>2, ExchangeSubmitted
<1>9. Buried' /\ Dying' /\ ProcOpen'
  BY <1>1, BuriedKept
<1>10. Greeted'
  BY <1>3 DEF Greeted, Unread
<1>11. RunsInv'
  BY <1>2, <1>8, RequestsKept DEF RunsInv
<1> QED
  BY <1>4, <1>5, <1>6, <1>7, <1>8, <1>9, <1>10, <1>11 DEF FlightInv

\* The hello read is back.
LEMMA HelloReturnedStep ==
    ASSUME FlightInv, NEW t \in Tasks, HelloReturned(t)
    PROVE  FlightInv'
<1>1. /\ pc[t] = "hello" /\ result[t] # None /\ Take(t) /\ t \in Callers
      /\ UNCHANGED <<primedArgs, proc, children, answer, runs, exiting, closed, faults, doomed>>
      /\ result[t] \in {Hello, Fatal, Lost} /\ state # "STOPPING"
  BY TaskIsBack, CallerFacts DEF HelloReturned, FlightInv, ResultsFit, side
<1>2. CASE result[t] = Lost
  <2>1. Turn(t) /\ UNCHANGED provokedBy
    BY <1>2, MessageFacts DEF HelloReturned
  <2>2. AtTurn(t) /\ Taken(t)
    BY <1>1, Takes DEF AtTurn, FlightInv
  <2>3. provokedBy' \in {"prepare", "push", None}
    BY <2>1 DEF FlightInv, FrontTyped
  <2> QED
    BY <1>1, <2>1, <2>2, <2>3, TurnStep
<1>3. CASE result[t] = Fatal
  <2>1. /\ state' = "DEGRADED" /\ Submit(ReapFor(t)) /\ pc' = [pc EXCEPT ![t] = "fatalReap"]
        /\ UNCHANGED <<attempts, provokedBy, lockQ>>
    BY <1>3, MessageFacts DEF HelloReturned
  <2> QED
    BY <1>1, <2>1, FatalHello
<1>4. CASE result[t] = Hello
  <2>1. proc # 0
    BY <1>1, <1>4 DEF FlightInv, Greeted, Up
  <2>2. HelloCame(t)
    BY <1>4, <2>1, MessageFacts DEF HelloReturned
  <2>3. CASE primedArgs = None \/ provokedBy = "prepare"
    <3>1. BecomeReady(t) /\ execQ' = execQ /\ attempts' \in 0..MAX_RESTART_ATTEMPTS
      BY <2>2, <2>3, FlightAssumption DEF HelloCame, FlightAssumption
    <3>2. primedArgs' \in Configs \cup {None}
      BY <1>1 DEF FlightInv, FrontTyped
    <3>3. result[t] # Lost
      BY <1>4, MessageFacts DEF Hello, Lost
    <3> QED
      BY <1>1, <1>4, <3>1, <3>2, <3>3, BecomeReadyStep
  <2>4. CASE ~(primedArgs = None \/ provokedBy = "prepare")
    <3>1. /\ attempts' = 0 /\ Submit(ExchangeFor(t)) /\ pc' = [pc EXCEPT ![t] = "reprime"]
          /\ UNCHANGED <<state, provokedBy, lockQ>>
      BY <2>2, <2>4 DEF HelloCame
    <3> QED
      BY <1>1, <1>4, <2>4, <3>1, Replays
  <2> QED
    BY <2>3, <2>4
<1> QED
  BY <1>1, <1>2, <1>3, <1>4

\* The replayed prepare is back.
LEMMA ReprimeReturnedStep ==
    ASSUME FlightInv, NEW t \in Tasks, ReprimeReturned(t)
    PROVE  FlightInv'
<1>1. /\ pc[t] = "reprime" /\ result[t] # None /\ Take(t) /\ t \in Callers
      /\ UNCHANGED <<proc, children, answer, runs, exiting, closed, faults, doomed>>
  BY CallerFacts DEF ReprimeReturned, side
<1>2. CASE result[t].kind = "lost"
  <2>1. Turn(t) /\ provokedBy' = "prepare" /\ primedArgs' = primedArgs
    BY <1>2 DEF ReprimeReturned
  <2>2. AtTurn(t) /\ Taken(t)
    BY <1>1, Takes DEF AtTurn, FlightInv
  <2> QED
    BY <1>1, <2>1, <2>2, TurnStep
<1>3. CASE result[t].kind # "lost"
  <2>1. /\ primedArgs' = IF Succeeded(result[t]) THEN primedArgs ELSE None
        /\ BecomeReady(t) /\ UNCHANGED <<attempts, execQ>>
    BY <1>3 DEF ReprimeReturned
  <2>2. attempts' \in 0..MAX_RESTART_ATTEMPTS /\ primedArgs' \in Configs \cup {None}
    BY <2>1 DEF FlightInv, FrontTyped
  <2>3. result[t] # Lost
    BY <1>3, MessageFacts
  <2> QED
    BY <1>1, <2>1, <2>2, <2>3, BecomeReadyStep
<1> QED
  BY <1>2, <1>3

\* The child of a fatal hello is reaped: the task ends, and the process will.
LEMMA FatalReapDoneStep ==
    ASSUME FlightInv, NEW t \in Tasks, FatalReapDone(t)
    PROVE  FlightInv'
<1>0. /\ pc[t] = "fatalReap" /\ result[t] # None /\ exiting' = TRUE /\ Leave(t)
      /\ UNCHANGED <<state, attempts, provokedBy, primedArgs, proc, children, execQ, answer, runs,
                     closed, faults, doomed>>
  BY DEF FatalReapDone, front, side
<1>a. t \in Callers /\ t \in {"startup", "restart"} /\ Stands(t)
  BY <1>0, CallerFacts DEF Stands, Calling
<1>b. state \in {"READY", "DEGRADED", "RESTARTING"}
  BY <1>0, <1>a DEF FlightInv, FrontTyped, Stages
<1>c. t = "restart" => lockQ[1] = t
  <2>1. t = "restart" => t \in InLock
    BY <1>a DEF InLock, Stands
  <2> QED
    BY <1>0, <2>1 DEF FlightInv, LockInv
<1>1. /\ t \in Callers /\ t \in {"startup", "restart"} /\ pc[t] = "fatalReap" /\ result[t] # None
      /\ state \in {"READY", "DEGRADED", "RESTARTING"} /\ state' = state
      /\ UNCHANGED <<attempts, provokedBy, primedArgs, proc, children, execQ, answer, runs,
                     closed, faults, doomed>>
      /\ exiting' = TRUE /\ Leave(t)
      /\ t = "restart" => Stands(t) /\ lockQ[1] = t
  BY <1>0, <1>a, <1>b, <1>c
<1>2. TaskMoved(t, "off") /\ Taken(t)
  <2>1. CallersTyped /\ "off" \in TaskAwaits /\ pc' = SetReady([pc EXCEPT ![t] = "off"])
    BY DEF FlightInv, TaskAwaits, FatalReapDone
  <2>2. Take(t)
    BY DEF FatalReapDone
  <2> QED
    BY <1>1, <2>1, <2>2, TaskParks, Takes
<1>3. FrontTyped' /\ PipesTyped'
  BY <1>1 DEF FlightInv, FrontTyped, PipesTyped
<1>4. CallersTyped' /\ OwnAwaits' /\ ResultsFit'
  BY <1>1, <1>2, TaskMoves DEF TaskAwaits
<1>5. LockInv'
  BY <1>1, <1>2, TaskLeaves
<1>6. Stages' /\ FatalFirst'
  <2>1. /\ pc'[t] = "off"
        /\ t = "startup" => pc'["restart"] = pc["restart"] \/ pc["restart"] = "waiting"
        /\ t = "restart" => /\ pc'["startup"] = pc["startup"] \/ pc["startup"] = "waiting"
                            /\ result'["startup"] = result["startup"]
        /\ result["restart"] = None => result'["restart"] = None
        /\ \A c \in Clients : pc'[c] = "exchange" => pc[c] = "exchange"
    BY <1>1, <1>2, CallerFacts DEF TaskMoved, Taken
  <2>2. pc["restart"] # "waiting" /\ pc["startup"] # "waiting"
    BY DEF FlightInv, OwnAwaits, TaskAwaits, Tasks
  <2> QED
    BY <1>1, <2>1, <2>2 DEF FlightInv, Stages, FatalFirst
<1>7. ExecInv'
  <2>1. \A x \in Callers : \/ pc'[x] = pc[x] /\ result'[x] = result[x]
                           \/ pc[x] \notin Calling /\ pc'[x] \notin Calling
                           \/ result[x] # None /\ (result'[x] # None \/ pc'[x] \notin Calling)
    BY <1>1, <1>2 DEF TaskMoved, Taken, Calling
  <2> QED
    BY <1>1, <2>1, ExecKept DEF FlightInv
<1>8. PipeInv' /\ HeadInv'
  BY <1>1, PipesKept DEF FlightInv
<1>9. Buried' /\ Dying' /\ ProcOpen'
  BY <1>1, BuriedKept DEF Head1
<1>10. Greeted'
  <2>1. \A u \in Tasks : pc'[u] \in {"hello", "reprime"} =>
            pc'[u] = pc[u] /\ result'[u] = result[u]
    BY <1>1, <1>2, CallerFacts DEF TaskMoved, Taken
  <2>2. \A x \in Callers : result[x] = Lost => result'[x] = Lost
    <3>1. result[t] = Done /\ Done # Lost
      BY <1>1, MessageFacts DEF FlightInv, ResultsFit, Done, Lost
    <3> QED
      BY <1>2, <3>1 DEF Taken
  <2> QED
    BY <1>1, <2>1, <2>2, GreetedKept DEF Up, Asked, Head1
<1>11. RunsInv'
  <2>1. UnsentNeverRan'
    BY <1>1 DEF FlightInv, RunsInv, UnsentNeverRan, Head1
  <2> QED
    BY <1>1, <1>2, <2>1, RequestsKept DEF RunsInv
<1> QED
  BY <1>3, <1>4, <1>5, <1>6, <1>7, <1>8, <1>9, <1>10, <1>11 DEF FlightInv

\* A step that leaves alone all that FlightInv speaks of.
LEMMA SameKeepsFlight ==
    ASSUME FlightInv, UNCHANGED <<front, proc, children, lockQ, execQ, result, pc, answer, runs,
                                  exiting, closed, faults, doomed>>
    PROVE  FlightInv'
<1>1. UNCHANGED <<state, attempts, provokedBy, primedArgs, proc, children, lockQ, execQ, result,
                  pc, answer, runs, exiting, closed, faults, doomed>> /\ Head1' = Head1
  BY DEF front, Head1
<1>2. FrontTyped' /\ PipesTyped' /\ CallersTyped' /\ OwnAwaits'
  BY <1>1 DEF FlightInv, FrontTyped, PipesTyped, CallersTyped, OwnAwaits
<1>3. LockInv'
  <2>1. InLock' = InLock
    BY <1>1 DEF InLock
  <2> QED
    BY <1>1, <2>1 DEF FlightInv, LockInv
<1>4. Stages' /\ FatalFirst' /\ ResultsFit'
  BY <1>1 DEF FlightInv, Stages, FatalFirst, ResultsFit
<1>5. ExecInv'
  BY <1>1, ExecKept DEF FlightInv
<1>6. Buried' /\ Dying' /\ ProcOpen'
  BY <1>1, BuriedKept
<1>7. Greeted'
  BY <1>1, GreetedKept DEF Up, Asked
<1>8. PipeInv' /\ HeadInv'
  BY <1>1, PipesKept DEF FlightInv
<1>9. RunsInv'
  <2>1. \A c \in Clients : Standing(c)'
    BY <1>1 DEF FlightInv, RunsInv, Standing
  <2>2. UnsentNeverRan' /\ InPipes'
    BY <1>1 DEF FlightInv, RunsInv, UnsentNeverRan, InPipes
  <2> QED
    BY <2>1, <2>2 DEF RunsInv
<1> QED
  BY <1>2, <1>3, <1>4, <1>5, <1>6, <1>7, <1>8, <1>9 DEF FlightInv

-----------------------------------------------------------------------------
(* The executor's thread.                                                  *)

\* What it finishes a call with: a message its caller can make something of.
Fitting(value) ==
    /\ value \in Message
    /\ Head1.by \in Clients =>
          value = Lost \/ (value = Reply(Head1.by, value.ok) /\ runs[Head1.by] = 1)
    /\ Head1.by \in Tasks /\ state # "STOPPING" =>
          \/ Head1.kind = "reap" /\ value = Done
          \/ Head1.kind = "hello" /\ value \in {Hello, Fatal, Lost}
          \/ Head1.kind = "exchange" /\ (value = Lost \/ value.kind = "reply")

\* The thread finishes a call: the caller has its result, the others' are kept.
LEMMA Finishes ==
    ASSUME FlightInv, execQ # <<>>, NEW value, Fitting(value), Finish(value),
           UNCHANGED <<state, attempts, provokedBy, primedArgs, lockQ, pc, answer, runs,
                       exiting, closed>>,
           faults' \in 0..MaxFaults, PipesTyped',
           DOMAIN children' = DOMAIN children,
           proc' = proc, Head1.kind = "reap" => proc = 0
    PROVE  /\ FrontTyped' /\ CallersTyped' /\ OwnAwaits' /\ LockInv' /\ Stages' /\ FatalFirst'
           /\ ExecInv' /\ ResultsFit'
           /\ \A c \in Clients : Standing(c)'
           /\ execQ' = <<>> \/ (execQ' # <<>> /\ Head1' = ReapFor("restart") /\ Head1.kind = "reap")
<1> DEFINE x == Head1.by
<1>1. /\ Head1 \in ExecItem /\ x \in Callers /\ Head1.kind \in {"reap", "hello", "exchange"}
      /\ Head1.kind \in {"reap", "hello"} => x \in Tasks
      /\ execQ' = Tail(execQ) /\ value # None /\ value \in Message
  BY ExecFacts, ItemFacts, FlightAssumption DEF FlightInv, ExecInv, Finish, Fitting,
                                                FlightAssumption
<1>2. /\ \A y \in Callers : result'[y] = IF y = x THEN value ELSE result[y]
      /\ result' \in [Callers -> Message \cup {None}]
  BY <1>1 DEF FlightInv, CallersTyped, Finish
<1>3. \/ DOMAIN execQ = {1} /\ execQ' = <<>>
      \/ /\ DOMAIN execQ = {1, 2} /\ Head1 = ReapFor("startup") /\ execQ[2] = ReapFor("restart")
         /\ execQ' = <<ReapFor("restart")>>
  BY <1>1, ExecFacts DEF FlightInv, ExecInv
<1>4. x \in Clients \/ state # "STOPPING" =>
         /\ Waiting(x) /\ Fits(Head1.kind, x)
  BY HeadAwaited DEF FlightInv
<1>5. ReapFor("restart").kind = "reap" /\ ReapFor("restart").by = "restart"
      /\ ReapFor("startup").kind = "reap" /\ ReapFor("startup").by = "startup"
  BY DEF ReapFor
<1> HIDE DEF x
<1>6. FrontTyped' /\ CallersTyped' /\ OwnAwaits'
  BY <1>2 DEF FlightInv, FrontTyped, CallersTyped, OwnAwaits
<1>7. LockInv'
  <2>1. InLock' = InLock
    BY DEF InLock
  <2> QED
    BY <2>1 DEF FlightInv, LockInv
<1>8. Stages'
  BY DEF FlightInv, Stages
<1>9. ASSUME pc["startup"] = "fatalReap", result'["startup"] = None
      PROVE  x = "startup" \/ x # "restart"
  <2>1. "startup" \in Callers
    BY CallerFacts
  <2>2. x # "startup" => Waiting("startup")
    BY <1>2, <1>9, <2>1 DEF Waiting, Calling
  <2>3. x # "startup" => \E i \in DOMAIN execQ : execQ[i].by = "startup"
    BY <2>1, <2>2 DEF FlightInv, ExecInv
  <2> QED
    BY <1>3, <1>5, <2>3 DEF Head1, x
<1>10. FatalFirst'
  BY <1>1, <1>2, <1>9, CallerFacts DEF FlightInv, FatalFirst
<1>11. ExecInv' /\ (execQ' = <<>> \/ (execQ' # <<>> /\ Head1' = ReapFor("restart") /\ Head1.kind = "reap"))
  <2>1. CASE DOMAIN execQ = {1} /\ execQ' = <<>>
    <3>1. \A y \in Callers : Waiting(y) => y = x
      BY <2>1 DEF FlightInv, ExecInv, Head1, x
    <3>2. \A y \in Callers : ~Waiting(y)'
      BY <1>1, <1>2, <3>1 DEF Waiting
    <3>3. DOMAIN execQ' = {}
      BY <2>1
    <3> QED
      BY <2>1, <3>2, <3>3 DEF ExecInv, ExecShape
  <2>2. CASE /\ DOMAIN execQ = {1, 2} /\ Head1 = ReapFor("startup")
             /\ execQ[2] = ReapFor("restart") /\ execQ' = <<ReapFor("restart")>>
    <3>1. /\ DOMAIN execQ' = {1} /\ execQ'[1] = ReapFor("restart") /\ execQ' # <<>>
      BY <2>2
    <3>2. x = "startup" /\ Head1.kind = "reap"
      BY <1>5, <2>2 DEF x
    <3>3. /\ state # "STOPPING" => result["restart"] = None /\ Fits("reap", "restart")
          /\ "restart" \notin Clients /\ "restart" \in Callers
      BY <1>5, <2>2, CallerFacts DEF FlightInv, ExecInv
    <3>4. state' # "STOPPING" => result'["restart"] = None /\ Fits("reap", "restart")'
      BY <1>2, <3>2, <3>3 DEF Fits
    <3>5. \A y \in Callers : Waiting(y)' => y = "restart"
      <4>1. \A y \in Callers : Waiting(y)' => Waiting(y) /\ y # x
        BY <1>1, <1>2 DEF Waiting
      <4>2. \A y \in Callers : Waiting(y) => y = "startup" \/ y = "restart"
        BY <1>5, <2>2 DEF FlightInv, ExecInv, Head1
      <4> QED
        BY <3>2, <4>1, <4>2
    <3>6. ReapFor("restart") \in ExecItem'
      BY DEF ReapFor, ExecItem, Tasks
    <3>7. ExecShape'
      <4> HIDE DEF ExecItem
      <4> QED
        BY <2>2, <3>6 DEF ExecShape
    <3>8. ExecInv'
      <4>1. \A i \in DOMAIN execQ' : execQ'[i].by = "restart" /\ execQ'[i].kind = "reap"
        BY <1>5, <3>1
      <4>2. \A i \in DOMAIN execQ' :
               /\ execQ'[i].by \in Clients \/ state' # "STOPPING" =>
                     result'[execQ'[i].by] = None /\ pc'[execQ'[i].by] \in {"reap", "fatalReap"}
               /\ execQ'[i].kind = "reap"
        BY <3>3, <3>4, <4>1 DEF Fits
      <4>3. \A y \in Callers : Waiting(y)' => \E i \in DOMAIN execQ' : execQ'[i].by = y
        BY <3>1, <3>5, <4>1
      <4> QED
        BY <3>7, <4>2, <4>3 DEF ExecInv, Fits
    <3> QED
      BY <3>1, <3>2, <3>8 DEF Head1
  <2> QED
    BY <1>3, <2>1, <2>2
<1>12. ResultsFit'
  <2>1. ASSUME NEW c \in Clients, result'[c] # None
        PROVE  /\ pc'[c] = "exchange"
               /\ result'[c] = Lost \/ (result'[c] = Reply(c, result'[c].ok) /\ runs'[c] = 1)
    <3>1. CASE c = x
      <4>1. pc[x] = "exchange"
        BY <1>4, <3>1, CallerFacts DEF FlightInv, OwnAwaits, ClientAwaits, Waiting, Calling
      <4>2. value = Lost \/ (value = Reply(x, value.ok) /\ runs[x] = 1)
        BY <3>1 DEF Fitting, x
      <4> QED
        BY <1>1, <1>2, <3>1, <4>1, <4>2
    <3>2. CASE c # x
      BY <1>2, <2>1, <3>2, CallerFacts DEF FlightInv, ResultsFit
    <3> QED
      BY <3>1, <3>2
  <2>2. ASSUME state' # "STOPPING", NEW t \in Tasks, result'[t] # None
        PROVE  \/ pc'[t] = "reap" /\ result'[t] = Done /\ proc' = 0
               \/ pc'[t] = "fatalReap" /\ result'[t] = Done
               \/ pc'[t] = "hello" /\ result'[t] \in {Hello, Fatal, Lost}
               \/ pc'[t] = "reprime" /\ (result'[t] = Lost \/ result'[t].kind = "reply")
    <3>1. CASE t = x
      <4>1. Fits(Head1.kind, x) /\ x \notin Clients /\ result'[t] = value
        BY <1>1, <1>2, <1>4, <2>2, <3>1, CallerFacts
      <4>2. \/ Head1.kind = "reap" /\ value = Done
            \/ Head1.kind = "hello" /\ value \in {Hello, Fatal, Lost}
            \/ Head1.kind = "exchange" /\ (value = Lost \/ value.kind = "reply")
        BY <2>2, <3>1 DEF Fitting, x
      <4> QED
        BY <3>1, <4>1, <4>2 DEF Fits
    <3>2. CASE t # x
      BY <1>2, <2>2, <3>2, CallerFacts DEF FlightInv, ResultsFit
    <3> QED
      BY <3>1, <3>2
  <2> QED
    BY <2>1, <2>2 DEF ResultsFit
<1>13. \A c \in Clients : Standing(c)'
  BY DEF FlightInv, RunsInv, Standing
<1> QED
  BY <1>6, <1>7, <1>8, <1>10, <1>11, <1>12, <1>13

\* With the executor idle, or at a reap, nothing is on its way to a child.
LEMMA NothingSent ==
    ASSUME execQ' = <<>> \/ (execQ' # <<>> /\ Head1' = ReapFor("restart"))
    PROVE  HeadInv' /\ UnsentNeverRan'
<1>1. ReapFor("restart").kind = "reap"
  BY DEF ReapFor
<1> QED
  BY <1>1 DEF HeadInv, ExchangeInv, UnsentNeverRan

\* The one child left is reaped: no child lives, no pipe is open and none holds anything.
LEMMA AllBuried ==
    ASSUME PipesTyped, Buried, NEW last \in {0} \cup DOMAIN children,
           {proc, doomed} \subseteq {0, last}, proc' = 0,
           children' = IF last = 0 THEN children ELSE Reaped(last)
    PROVE  /\ PipesTyped' /\ DOMAIN children' = DOMAIN children
           /\ \A i \in DOMAIN children' :
                 /\ children'[i].life = "dead" /\ ~children'[i].open
                 /\ children'[i].inbox = None /\ children'[i].outbox = None
           /\ Buried' /\ PipeInv' /\ InPipes'
<1>0. \A i \in DOMAIN children : i # 0
  BY PipesFacts
<1>1. /\ PipesTyped' /\ DOMAIN children' = DOMAIN children
      /\ \A i \in DOMAIN children' :
            /\ children'[i].life = "dead" /\ ~children'[i].open
            /\ children'[i].inbox = None /\ children'[i].outbox = None
  <2>1. CASE last = 0
    <3>1. children' = children /\ proc' = proc
      BY <2>1
    <3> QED
      BY <1>0, <2>1, <3>1, PipesFacts DEF PipesTyped, Buried
  <2>2. CASE last # 0
    <3> DEFINE r == [children[last] EXCEPT !.life = "dead", !.open = FALSE,
                                           !.inbox = None, !.outbox = None]
    <3>1. last \in DOMAIN children /\ children[last] \in Child
      BY <2>2, PipesFacts
    <3>2. None \in (Message \cup {None}) \ {Done, Lost, Unavailable, Raised}
      BY MessageFacts
    <3>3. r \in Child /\ r.life = "dead" /\ ~r.open /\ r.inbox = None /\ r.outbox = None
      BY <3>1, <3>2 DEF Child
    <3>4. children' = [children EXCEPT ![last] = r]
      BY <2>2 DEF Reaped
    <3> HIDE DEF r
    <3>5. Changed(last, r)
      BY ONLY PipesTyped, <3>1, <3>3, <3>4, ChildChanges
    <3>6. Len(children') \in Nat
      BY <3>5, PipesFacts DEF Changed
    <3>7. \A i \in DOMAIN children : i # last => i \notin {proc, doomed}
      BY <1>0
    <3> QED
      BY <3>3, <3>5, <3>6, <3>7 DEF Changed, PipesTyped, Buried
  <2> QED
    BY <2>1, <2>2
<1>2. PipeInv' /\ InPipes'
  BY <1>1 DEF PipeInv, InPipes
<1> QED
  BY <1>1, <1>2 DEF Buried

\* Nobody has a child to speak to while the thread is at a reap.
LEMMA NotUpWhileReaping ==
    ASSUME FlightInv, execQ # <<>>, Head1.kind = "reap"
    PROVE  state # "READY" /\ \A u \in Tasks : pc[u] \notin {"hello", "reprime"}
<1>1. Head1.by \in Tasks
  BY ExecFacts, ItemFacts DEF FlightInv, ExecInv
<1>2. state # "STOPPING" => Waiting(Head1.by) /\ pc[Head1.by] \in {"reap", "fatalReap"}
  BY HeadAwaited DEF FlightInv
<1> QED
  BY <1>1, <1>2 DEF FlightInv, Stages, FatalFirst, Waiting, Tasks

\* _reap takes the child from the flight: there is no other.
LEMMA DetachStep ==
    ASSUME FlightInv, Detach
    PROVE  FlightInv'
<1>1. /\ execQ # <<>> /\ Head1.kind = "reap" /\ proc # 0 /\ doomed' = proc /\ proc' = 0
      /\ UNCHANGED <<state, attempts, provokedBy, primedArgs, children, lockQ, execQ, result, pc,
                     answer, runs, exiting, closed, faults>>
  BY DEF Detach, front
<1>2. doomed = 0 /\ proc \in DOMAIN children /\ \A i \in DOMAIN children : i # 0
  BY <1>1, PipesFacts DEF FlightInv, Dying
<1>3. FrontTyped' /\ PipesTyped' /\ CallersTyped' /\ OwnAwaits'
  BY <1>1, PipesFacts DEF FlightInv, FrontTyped, PipesTyped, CallersTyped, OwnAwaits
<1>4. LockInv'
  <2>1. InLock' = InLock
    BY <1>1 DEF InLock
  <2> QED
    BY <1>1, <2>1 DEF FlightInv, LockInv
<1>5. Stages' /\ FatalFirst' /\ ResultsFit'
  BY <1>1 DEF FlightInv, Stages, FatalFirst, ResultsFit
<1>6. ExecInv'
  <2>1. \A i \in DOMAIN execQ : execQ[i].kind = "reap"
    <3>1. ReapFor("restart").kind = "reap"
      BY DEF ReapFor
    <3> QED
      BY <1>1, <3>1, ExecFacts DEF FlightInv, ExecInv, Head1
  <2>2. ExecShape'
    <3>1. ExecItem' = ExecItem
      BY <1>1 DEF ExecItem
    <3> QED
      BY <1>1, <3>1 DEF FlightInv, ExecInv, ExecShape
  <2> QED
    BY <1>1, <2>1, <2>2 DEF FlightInv, ExecInv, Fits, Waiting
<1>7. Buried' /\ Dying' /\ ProcOpen'
  <2>1. Head1' = Head1
    BY <1>1 DEF Head1
  <2> QED
    BY <1>1, <1>2, <2>1 DEF FlightInv, Buried, Dying, ProcOpen
<1>8. Greeted'
  BY <1>1, NotUpWhileReaping DEF Greeted, Up
<1>9. PipeInv' /\ HeadInv'
  BY <1>1, PipesKept DEF FlightInv
<1>10. RunsInv'
  <2>1. \A c \in Clients : Standing(c)'
    BY <1>1 DEF FlightInv, RunsInv, Standing
  <2>2. UnsentNeverRan' /\ InPipes'
    BY <1>1 DEF FlightInv, RunsInv, UnsentNeverRan, InPipes, Head1
  <2> QED
    BY <2>1, <2>2 DEF RunsInv
<1> QED
  BY <1>3, <1>4, <1>5, <1>6, <1>7, <1>8, <1>9, <1>10 DEF FlightInv

\* _reap is done: the child it took, if there was one, is dead and closed.
LEMMA ReapStep ==
    ASSUME FlightInv, Reap
    PROVE  FlightInv'
<1>1. /\ execQ # <<>> /\ Head1.kind = "reap" /\ proc = 0 /\ proc' = 0 /\ doomed' = 0
      /\ Finish(Done)
      /\ children' = IF doomed = 0 THEN children ELSE Reaped(doomed)
      /\ UNCHANGED <<state, attempts, provokedBy, primedArgs, lockQ, pc, answer, runs,
                     exiting, closed, faults>>
  BY DEF Reap, front
<1>2. Head1 \in ExecItem /\ Head1.by \in Tasks
  BY <1>1, ExecFacts, ItemFacts DEF FlightInv, ExecInv
<1>3. /\ PipesTyped' /\ DOMAIN children' = DOMAIN children /\ Buried'
      /\ PipeInv' /\ InPipes' /\ Dying' /\ ProcOpen'
  <2>1. PipesTyped /\ Buried /\ doomed \in {0} \cup DOMAIN children
    BY DEF FlightInv, Dying
  <2>2. {proc, doomed} \subseteq {0, doomed}
    BY <1>1
  <2>3. /\ PipesTyped' /\ DOMAIN children' = DOMAIN children /\ Buried'
        /\ PipeInv' /\ InPipes'
    BY <1>1, <2>1, <2>2, AllBuried
  <2> QED
    BY <1>1, <2>3 DEF Dying, ProcOpen
<1>4. Fitting(Done)
  <2>1. Head1.by \notin Clients
    BY <1>2, CallerFacts
  <2> QED
    BY <1>1, <2>1, MessageFacts DEF Fitting
<1>5. faults' \in 0..MaxFaults
  BY <1>1 DEF FlightInv, FrontTyped
<1>6. /\ FrontTyped' /\ CallersTyped' /\ OwnAwaits' /\ LockInv' /\ Stages' /\ FatalFirst'
      /\ ExecInv' /\ ResultsFit'
      /\ \A c \in Clients : Standing(c)'
      /\ execQ' = <<>> \/ (execQ' # <<>> /\ Head1' = ReapFor("restart") /\ Head1.kind = "reap")
  BY <1>1, <1>3, <1>4, <1>5, Finishes
<1>7. HeadInv' /\ UnsentNeverRan'
  BY <1>6, NothingSent
<1>8. Greeted'
  BY <1>1, NotUpWhileReaping DEF Greeted, Up
<1> QED
  BY <1>3, <1>6, <1>7, <1>8 DEF FlightInv, RunsInv

\* The call the thread is at, when it is a read or a send: it is about the flight's
\* own child, or about one that is buried.
LEMMA HeadChild ==
    ASSUME FlightInv, execQ # <<>>, Head1.kind # "reap"
    PROVE  /\ Head1 \in ExecItem /\ Head1.by \in Callers /\ Head1.kind \in {"hello", "exchange"}
           /\ DOMAIN execQ = {1} /\ execQ = <<Head1>> /\ 1 \in DOMAIN execQ
           /\ Head1.child \in DOMAIN children /\ children[Head1.child] \in Child
           /\ doomed = 0
           /\ \/ proc # 0 /\ Head1.child = proc
              \/ state = "STOPPING" /\ proc = 0 /\ Head1.child # proc /\ Head1.by \in Tasks
           /\ children[Head1.child].open => proc # 0 /\ Head1.child = proc
<1>1. Head1 \in ExecItem /\ Head1.kind \in {"hello", "exchange"} /\ Head1.by \in Callers
      /\ Head1.child \in DOMAIN children
  BY ExecFacts, ItemFacts DEF FlightInv, ExecInv
<1>2. DOMAIN execQ = {1} /\ execQ = <<Head1>>
  <2>1. ReapFor("startup").kind = "reap"
    BY DEF ReapFor
  <2> QED
    BY <2>1, ExecFacts DEF FlightInv, ExecInv
<1>3. /\ children[Head1.child] \in Child /\ Head1.child # 0
      /\ Head1.child = proc \/ (state = "STOPPING" /\ proc = 0 /\ Head1.by \in Tasks)
  BY <1>1, <1>2, PipesFacts DEF FlightInv, ExecInv, Head1
<1> QED
  BY <1>1, <1>2, <1>3 DEF FlightInv, Buried, Dying

\* A send or a read comes back with CoordinatorLost, or that of a cancelled task with an
\* exception: nothing that was asked is left for anybody in a living child's pipe.
LEMMA ReadLost ==
    ASSUME FlightInv, execQ # <<>>, Head1.kind # "reap", NEW value, Finish(value),
           value = Lost \/ (value = Raised /\ state = "STOPPING" /\ Head1.by \in Tasks),
           \/ state = "STOPPING"
           \/ Head1.kind = "hello"
           \/ ~Head1.sent
           \/ children[Head1.child].life = "dead",
           UNCHANGED <<state, attempts, provokedBy, primedArgs, proc, children, lockQ, pc, answer,
                       runs, exiting, closed, doomed>>,
           faults' \in 0..MaxFaults
    PROVE  FlightInv'
<1>1. /\ Head1 \in ExecItem /\ Head1.by \in Callers /\ Head1.kind \in {"hello", "exchange"}
      /\ \/ proc # 0 /\ Head1.child = proc
         \/ state = "STOPPING" /\ proc = 0 /\ Head1.child # proc
  BY HeadChild
<1>2. Fitting(value)
  <2>1. Head1.by \in Tasks => Head1.by \notin Clients
    BY CallerFacts
  <2> QED
    BY <1>1, <2>1, MessageFacts DEF Fitting
<1>3. PipesTyped' /\ Buried' /\ Dying' /\ ProcOpen'
  <2>1. PipesTyped'
    BY DEF FlightInv, PipesTyped
  <2> QED
    BY <2>1, BuriedKept
<1>4. /\ FrontTyped' /\ CallersTyped' /\ OwnAwaits' /\ LockInv' /\ Stages' /\ FatalFirst'
      /\ ExecInv' /\ ResultsFit'
      /\ \A c \in Clients : Standing(c)'
      /\ execQ' = <<>> \/ (execQ' # <<>> /\ Head1' = ReapFor("restart") /\ Head1.kind = "reap")
  BY <1>1, <1>2, <1>3, Finishes
<1>5. HeadInv' /\ UnsentNeverRan'
  BY <1>4, NothingSent
<1>6. \A y \in Callers : result'[y] = IF y = Head1.by THEN value ELSE result[y]
  BY <1>1 DEF Finish, FlightInv, CallersTyped
<1>7. Greeted'
  <2> SUFFICES ASSUME Up' PROVE Greeted'
    BY DEF Greeted
  <2>1. Lost # Hello /\ Raised # Hello
    BY DEF Lost, Hello, Raised
  <2>2. Up /\ state # "STOPPING"
    BY <1>6, <2>1, CallerFacts DEF Up, FlightInv, Stages, Tasks
  <2>3. /\ proc # 0 /\ children[proc].life # "booting"
        /\ children[proc].outbox \notin {Hello, Fatal} /\ Unread(proc)
    BY <2>2 DEF FlightInv, Greeted
  <2> DEFINE said == children[proc].outbox
  <2>4. said # None /\ said.kind = "reply" =>
           children[proc].life = "dead" /\ result'[said.to] = Lost
    <3> SUFFICES ASSUME said # None, said.kind = "reply"
                 PROVE  children[proc].life = "dead" /\ result'[said.to] = Lost
      OBVIOUS
    <3>1. children[proc] \in Child /\ said.to \in Callers
      BY <2>3, PipesFacts, ChildFacts, MessageFacts DEF FlightInv
    <3>2. CASE Asked(proc, said.to)
      BY <1>6, <2>2, <3>1, <3>2 DEF Asked
    <3>3. CASE children[proc].life = "dead" /\ result[said.to] = Lost
      BY <1>6, <2>2, <3>1, <3>3
    <3> QED
      BY <2>3, <3>2, <3>3 DEF Unread
  <2> QED
    BY <2>3, <2>4 DEF Greeted, Unread
<1>8. PipeInv'
  <2>1. ASSUME NEW i \in DOMAIN children, state # "STOPPING", children[i].life # "dead"
        PROVE  /\ children[i].inbox = None
               /\ children[i].outbox # None => children[i].outbox.kind # "reply"
    BY <1>1, <2>1 DEF FlightInv, PipeInv, Asked
  <2> QED
    BY <2>1 DEF FlightInv, PipeInv
<1>9. InPipes'
  <2>1. \A c \in Clients : result[c] \in {None, Lost} => result'[c] \in {None, Lost}
    BY <1>6, CallerFacts
  <2> QED
    BY <2>1 DEF FlightInv, RunsInv, InPipes
<1> QED
  BY <1>3, <1>4, <1>5, <1>7, <1>8, <1>9 DEF FlightInv, RunsInv

\* An abort, or the end of the pipe; the child read from is never one already closed
\* unless the flight is closing, so nothing is raised.
LEMMA NoticeLossStep ==
    ASSUME FlightInv, NoticeLoss
    PROVE  FlightInv'
<1>1. /\ execQ # <<>> /\ Head1.kind # "reap"
      /\ UNCHANGED <<state, attempts, provokedBy, primedArgs, proc, children, lockQ, pc, answer,
                     runs, exiting, closed, faults, doomed>>
  BY DEF NoticeLoss, Reading, front, side
<1>2. faults' \in 0..MaxFaults
  BY <1>1 DEF FlightInv, FrontTyped
<1>3. ~(state # "STOPPING" /\ ~children[Head1.child].open)
  BY <1>1, HeadChild DEF FlightInv, ProcOpen
<1>4. state = "STOPPING" \/ children[Head1.child].life = "dead"
  BY <1>3 DEF NoticeLoss
<1>5. Finish(Lost)
  BY <1>3 DEF NoticeLoss
<1> QED
  BY <1>1, <1>2, <1>4, <1>5, ReadLost

\* The reader looks at the child: it goes on waiting, or the child is dead and the
\* call over, whatever the child said before it died.
LEMMA LookAtChildStep ==
    ASSUME FlightInv, LookAtChild
    PROVE  FlightInv'
<1>1. /\ execQ # <<>> /\ Head1.kind # "reap"
      /\ UNCHANGED <<state, attempts, provokedBy, primedArgs, proc, children, lockQ, pc, answer,
                     runs, exiting, closed, faults, doomed>>
  BY DEF LookAtChild, Reading, front
<1>2. faults' \in 0..MaxFaults
  BY <1>1 DEF FlightInv, FrontTyped
<1>3. CASE children[Head1.child].life = "dead"
  <2> DEFINE value == IF children[Head1.child].open THEN Lost ELSE Raised
  <2>1. Finish(value) /\ (value = Lost \/ (value = Raised /\ ~children[Head1.child].open))
    BY <1>3 DEF LookAtChild
  <2> HIDE DEF value
  <2>2. ~children[Head1.child].open => state = "STOPPING" /\ Head1.by \in Tasks
    BY <1>1, HeadChild DEF FlightInv, ProcOpen
  <2> QED
    BY <1>1, <1>2, <1>3, <2>1, <2>2, ReadLost
<1>4. CASE children[Head1.child].life # "dead"
  <2>1. UNCHANGED <<front, proc, children, lockQ, execQ, result, pc, answer, runs, exiting,
                    closed, faults, doomed>>
    BY <1>4 DEF LookAtChild
  <2> QED
    BY <2>1, SameKeepsFlight
<1> QED
  BY <1>3, <1>4

\* A slice is over: the reader looks at the child next.
LEMMA SliceOverStep ==
    ASSUME FlightInv, SliceOver
    PROVE  FlightInv'
<1>1. UNCHANGED <<front, proc, children, lockQ, execQ, result, pc, answer, runs, exiting,
                  closed, faults, doomed>>
  BY DEF SliceOver
<1> QED
  BY <1>1, SameKeepsFlight

\* A hung child: the hello read gives up.
LEMMA HelloTimeoutStep ==
    ASSUME FlightInv, HelloTimeout
    PROVE  FlightInv'
<1>1. /\ execQ # <<>> /\ Head1.kind = "hello" /\ Finish(Lost)
      /\ faults < MaxFaults /\ faults' = faults + 1
      /\ UNCHANGED <<state, attempts, provokedBy, primedArgs, proc, children, lockQ, pc, answer,
                     runs, exiting, closed, doomed>>
  BY DEF HelloTimeout, Reading, front
<1>2. faults' \in 0..MaxFaults
  BY <1>1, FlightAssumption DEF FlightAssumption, FlightInv, FrontTyped
<1> QED
  BY <1>1, <1>2, ReadLost

\* The thread marks its call sent and goes on to read.
LEMMA MarkedSent ==
    ASSUME execQ = <<Head1>>, Head1 \in ExecItem, Head1.kind = "exchange",
           execQ' = [execQ EXCEPT ![1].sent = TRUE], DOMAIN children' = DOMAIN children
    PROVE  /\ execQ' # <<>> /\ DOMAIN execQ' = {1} /\ execQ' = <<Head1'>> /\ Head1' = execQ'[1]
           /\ Head1'.kind = "exchange" /\ Head1'.by = Head1.by /\ Head1'.child = Head1.child
           /\ Head1'.sent = TRUE /\ Head1' \in ExecItem'
<1> DEFINE e == [Head1 EXCEPT !.sent = TRUE]
<1>1. /\ e.kind = "exchange" /\ e.by = Head1.by /\ e.child = Head1.child
      /\ e.sent = TRUE /\ e \in ExecItem
  BY DEF ExecItem
<1>2. execQ' = [execQ EXCEPT ![1] = e]
  BY DEF Head1
<1> HIDE DEF e
<1>3. execQ' = <<e>>
  <2>1. DOMAIN execQ = {1}
    OBVIOUS
  <2>2. [execQ EXCEPT ![1] = e] = [j \in {1} |-> e]
    BY <2>1
  <2>3. <<e>> = [j \in {1} |-> e]
    OBVIOUS
  <2> QED
    BY <1>2, <2>2, <2>3
<1>4. Head1' = e /\ DOMAIN execQ' = {1} /\ execQ' # <<>>
  BY <1>3 DEF Head1
<1>5. ExecItem' = ExecItem
  BY DEF ExecItem
<1>6. Head1' = execQ'[1]
  BY DEF Head1
<1> QED
  BY <1>1, <1>3, <1>4, <1>5, <1>6

\* A message is read: the pipe is empty, and the message is one for its reader.
LEMMA ReceiveStep ==
    ASSUME FlightInv, Receive
    PROVE  FlightInv'
<1> DEFINE h == Head1.child
           value == children[h].outbox
           r == [children[h] EXCEPT !.outbox = None]
<1>1. /\ execQ # <<>> /\ Head1.kind # "reap"
      /\ Head1.kind = "exchange" => Head1.sent
      /\ children[h].open /\ value # None /\ Finish(value)
      /\ children' = [children EXCEPT ![h] = r]
      /\ UNCHANGED <<state, attempts, provokedBy, primedArgs, proc, lockQ, pc, answer, runs,
                     exiting, closed, faults, doomed>>
  BY DEF Receive, Reading, front, side
<1>2. /\ Head1.by \in Callers /\ Head1.kind \in {"hello", "exchange"}
      /\ Head1.kind = "hello" => Head1.by \in Tasks
      /\ h \in DOMAIN children /\ children[h] \in Child /\ proc # 0 /\ h = proc /\ doomed = 0
  BY <1>1, HeadChild, ItemFacts
<1>3. /\ r \in Child /\ r.outbox = None /\ r.life = children[h].life /\ r.open = children[h].open
      /\ r.inbox = children[h].inbox
  <2>1. None \in (Message \cup {None}) \ {Done, Lost, Unavailable, Raised}
    BY MessageFacts
  <2> QED
    BY <1>2, <2>1 DEF Child
<1>4. value \in Message /\ value \notin {Done, Lost, Unavailable, Raised}
  BY <1>1, <1>2, ChildFacts
<1>5. Changed(h, r) /\ PipesTyped'
  <2> HIDE DEF r
  <2>0. PipesTyped
    BY DEF FlightInv
  <2>1. Changed(h, r)
    BY ONLY <2>0, <1>1, <1>2, <1>3, ChildChanges
  <2>2. Len(children') \in Nat /\ Len(children') = Len(children) /\ children' \in Seq(Child)
    BY <2>0, <2>1, PipesFacts DEF Changed
  <2> QED
    BY <2>0, <2>1, <2>2, <1>1 DEF PipesTyped
<1> HIDE DEF r
<1>6. /\ Head1.kind = "exchange" => value.kind = "reply" /\ value = Reply(Head1.by, value.ok)
      /\ Head1.kind = "hello" /\ state # "STOPPING" => value \in {Hello, Fatal}
  <2>1. value.kind = "reply" => value = Reply(value.to, value.ok)
    BY <1>4, MessageFacts
  <2>2. value \in {Hello, Fatal} \/ value.kind = "reply"
    BY <1>4, MessageFacts
  <2>3. Head1.kind = "exchange" => value \notin {Hello, Fatal} /\ value.to = Head1.by
    BY <1>1 DEF FlightInv, HeadInv, ExchangeInv
  <2>4. Head1.kind = "hello" => value \in {Hello, Fatal}
    BY <1>1, <1>2 DEF FlightInv, HeadInv
  <2> QED
    BY <2>1, <2>2, <2>3, <2>4
<1>7. Fitting(value)
  <2>1. ASSUME Head1.by \in Clients
        PROVE  value = Reply(Head1.by, value.ok) /\ runs[Head1.by] = 1
    <3>1. Head1.kind = "exchange"
      BY <1>2, <2>1, CallerFacts
    <3>2. value.kind = "reply" /\ value.to = Head1.by
      BY <1>1, <1>6, <3>1 DEF FlightInv, HeadInv, ExchangeInv
    <3> QED
      BY <1>1, <1>2, <1>6, <2>1, <3>1, <3>2 DEF FlightInv, RunsInv, InPipes
  <2> QED
    BY <1>2, <1>4, <1>6, <2>1 DEF Fitting
<1>8. faults' \in 0..MaxFaults /\ DOMAIN children' = DOMAIN children
  BY <1>1, <1>5 DEF FlightInv, FrontTyped, Changed
<1>9. /\ FrontTyped' /\ CallersTyped' /\ OwnAwaits' /\ LockInv' /\ Stages' /\ FatalFirst'
      /\ ExecInv' /\ ResultsFit'
      /\ \A c \in Clients : Standing(c)'
      /\ execQ' = <<>> \/ (execQ' # <<>> /\ Head1' = ReapFor("restart") /\ Head1.kind = "reap")
  <2> HIDE DEF value
  <2> QED
    BY ONLY FlightInv, <1>1, <1>2, <1>5, <1>7, <1>8, Finishes
<1>10. HeadInv' /\ UnsentNeverRan'
  BY <1>9, NothingSent
<1>11. Buried' /\ Dying' /\ ProcOpen'
  BY <1>1, <1>2, <1>3, <1>5 DEF FlightInv, Buried, Dying, ProcOpen, Changed
<1>12. children[h].life # "booting" /\ (children[h].life = "dead" \/ children[h].inbox = None)
  BY <1>1, <1>2 DEF FlightInv, PipeInv
<1>13. Greeted'
  <2>1. None \notin {Hello, Fatal}
    BY MessageFacts
  <2> QED
    BY <1>1, <1>2, <1>3, <1>5, <1>12, <2>1 DEF Greeted, Unread, Changed
<1>14. PipeInv'
  <2>1. ASSUME NEW i \in DOMAIN children
        PROVE  /\ children'[i].outbox = None
               /\ children'[i].life = "dead" \/ children'[i].inbox = None
               /\ children'[i].life = children[i].life /\ children'[i].inbox = children[i].inbox
    BY <1>2, <1>3, <1>5, <1>12, <2>1 DEF Changed, FlightInv, Buried
  <2> QED
    BY <1>8, <2>1 DEF FlightInv, PipeInv
<1>15. InPipes'
  <2>1. ASSUME NEW i \in DOMAIN children
        PROVE  /\ children'[i].outbox = None
               /\ children'[i].life = "dead" \/ children'[i].inbox = None
    BY <1>2, <1>3, <1>5, <1>12, <2>1 DEF Changed, FlightInv, Buried
  <2> QED
    BY <1>8, <2>1 DEF InPipes
<1> QED
  BY <1>5, <1>9, <1>10, <1>11, <1>13, <1>14, <1>15 DEF FlightInv, RunsInv

\* conn.send: the job is in the pipe of the flight's child, or its loss is known.
LEMMA SendStep ==
    ASSUME FlightInv, Send
    PROVE  FlightInv'
<1> DEFINE h == Head1.child
           job == [by |-> Head1.by, command |-> Head1.command]
           r == [children[h] EXCEPT !.inbox = job]
<1>1. /\ execQ # <<>> /\ Head1.kind = "exchange" /\ Head1.kind # "reap" /\ ~Head1.sent
      /\ UNCHANGED <<state, attempts, provokedBy, primedArgs, proc, lockQ, pc, answer, runs,
                     exiting, closed, faults, doomed>>
  BY DEF Send, front, side
<1>2. CASE children[h].life = "dead" /\ Finish(Lost) /\ UNCHANGED children
  <2>1. faults' \in 0..MaxFaults
    BY <1>1 DEF FlightInv, FrontTyped
  <2> QED
    BY <1>1, <1>2, <2>1, ReadLost
<1>3. CASE /\ children[h].open
           /\ children' = IF children[h].life = "dead" THEN children ELSE [children EXCEPT ![h] = r]
           /\ execQ' = [execQ EXCEPT ![1].sent = TRUE]
           /\ UNCHANGED result
  <2>1. /\ Head1 \in ExecItem /\ Head1.by \in Callers /\ execQ = <<Head1>> /\ DOMAIN execQ = {1}
        /\ h \in DOMAIN children /\ children[h] \in Child /\ proc # 0 /\ h = proc /\ doomed = 0
        /\ Head1.command \in Command
    BY <1>1, <1>3, HeadChild, ItemFacts
  <2>2. job \in Job /\ job.by = Head1.by /\ job # None
    BY <2>1, MessageFacts DEF Job
  <2> HIDE DEF job
  <2>3. /\ r \in Child /\ r.outbox = children[h].outbox /\ r.life = children[h].life
        /\ r.open = children[h].open /\ r.inbox = job
    BY <2>1, <2>2 DEF Child
  <2>4. /\ DOMAIN children' = DOMAIN children /\ PipesTyped'
        /\ \A i \in DOMAIN children :
              /\ children'[i].life = children[i].life /\ children'[i].open = children[i].open
              /\ children'[i].outbox = children[i].outbox
              /\ children'[i].inbox = IF i = h /\ children[h].life # "dead" THEN job
                                      ELSE children[i].inbox
    <3> HIDE DEF r
    <3>0. PipesTyped
      BY DEF FlightInv
    <3>1. CASE children[h].life = "dead"
      <4>1. children' = children
        BY <1>3, <3>1
      <4> QED
        BY <1>1, <3>0, <3>1, <4>1 DEF PipesTyped
    <3>2. CASE children[h].life # "dead"
      <4>1. children' = [children EXCEPT ![h] = r]
        BY <1>3, <3>2
      <4>2. Changed(h, r)
        BY ONLY <3>0, <2>1, <2>3, <4>1, ChildChanges
      <4>3. Len(children') \in Nat /\ Len(children') = Len(children) /\ children' \in Seq(Child)
        BY <3>0, <4>2, PipesFacts DEF Changed
      <4>4. PipesTyped'
        BY <3>0, <4>3, <1>1 DEF PipesTyped
      <4> QED
        BY <2>3, <3>2, <4>2, <4>4 DEF Changed
    <3> QED
      BY <3>1, <3>2
  <2> HIDE DEF r
  <2>5. /\ execQ' # <<>> /\ DOMAIN execQ' = {1} /\ execQ' = <<Head1'>> /\ Head1' = execQ'[1]
        /\ Head1'.kind = "exchange" /\ Head1'.by = Head1.by /\ Head1'.child = h
        /\ Head1'.sent = TRUE /\ Head1' \in ExecItem'
    BY ONLY <1>1, <1>3, <2>1, <2>4, MarkedSent
  <2>6. /\ FrontTyped' /\ CallersTyped' /\ OwnAwaits' /\ LockInv' /\ Stages' /\ FatalFirst'
        /\ ResultsFit' /\ (\A c \in Clients : Standing(c)')
    <3>1. FrontTyped' /\ CallersTyped' /\ OwnAwaits'
      BY <1>1, <1>3 DEF FlightInv, FrontTyped, CallersTyped, OwnAwaits
    <3>2. LockInv'
      <4>1. InLock' = InLock
        BY <1>1 DEF InLock
      <4> QED
        BY <1>1, <4>1 DEF FlightInv, LockInv
    <3>3. Stages' /\ FatalFirst' /\ ResultsFit'
      BY <1>1, <1>3 DEF FlightInv, Stages, FatalFirst, ResultsFit
    <3>4. \A c \in Clients : Standing(c)'
      BY <1>1 DEF FlightInv, RunsInv, Standing
    <3> QED
      BY <3>1, <3>2, <3>3, <3>4
  <2>7. ExecInv'
    <3>1. ExecShape'
      <4> HIDE DEF ExecItem
      <4> QED
        BY <2>5 DEF ExecShape
    <3>2. /\ Head1.by \in Clients \/ state # "STOPPING" =>
                result[Head1.by] = None /\ Fits("exchange", Head1.by)
          /\ h = proc
      BY <1>1, <2>1 DEF FlightInv, ExecInv, Head1
    <3>3. \A i \in DOMAIN execQ' :
             /\ execQ'[i].by = Head1.by /\ execQ'[i].kind = "exchange" /\ execQ'[i].child = h
      BY <2>5
    <3>4. \A i \in DOMAIN execQ' :
             /\ execQ'[i].by \in Clients \/ state' # "STOPPING" =>
                   result'[execQ'[i].by] = None /\ Fits(execQ[i].kind, execQ[i].by)'
             /\ execQ'[i].kind # "reap" => execQ'[i].child = proc'
      BY <1>1, <1>3, <3>2, <3>3 DEF Fits
    <3>5. \A x \in Callers : Waiting(x)' => x = Head1.by
      BY <1>1, <1>3, <2>1 DEF FlightInv, ExecInv, Waiting, Head1
    <3>6. \A x \in Callers : Waiting(x)' => \E i \in DOMAIN execQ' : execQ'[i].by = x
      BY <2>5, <3>3, <3>5
    <3> QED
      BY <3>1, <3>4, <3>6 DEF ExecInv
  <2>8. /\ children[h].life # "booting" /\ children[h].outbox = None
        /\ children[h].life = "dead" \/ children[h].inbox = None
        /\ children[h].life # "working" \/ children[h].inbox # None
    BY <1>1, <2>1 DEF FlightInv, HeadInv, ExchangeInv, PipeInv
  <2>9. Buried' /\ Dying' /\ ProcOpen' /\ Greeted'
    <3>1. Buried' /\ Dying' /\ ProcOpen'
      BY <1>1, <2>1, <2>4 DEF FlightInv, Buried, Dying, ProcOpen
    <3>2. Greeted'
      BY <1>1, <1>3, <2>1, <2>4, <2>8, MessageFacts DEF Greeted, Unread
    <3> QED
      BY <3>1, <3>2
  <2>10. HeadInv' /\ UnsentNeverRan'
    <3>1. HeadInv'
      BY <2>1, <2>2, <2>4, <2>5, <2>8, MessageFacts DEF HeadInv, ExchangeInv
    <3>2. UnsentNeverRan'
      BY <2>5 DEF UnsentNeverRan
    <3> QED
      BY <3>1, <3>2
  <2>11. PipeInv'
    <3>1. ASSUME NEW i \in DOMAIN children, i # h
          PROVE  /\ children'[i].life = "dead" /\ children'[i].inbox = None
                 /\ children'[i].outbox = None
      <4>1. i \notin {proc, doomed}
        BY <2>1, <3>1, PipesFacts DEF FlightInv
      <4> QED
        BY <2>4, <3>1, <4>1 DEF FlightInv, Buried
    <3>2. ASSUME NEW i \in DOMAIN children, i = h
          PROVE  /\ children'[i].life # "booting" /\ children'[i].outbox = None
                 /\ children'[i].life # "dead" =>
                       children'[i].inbox.by = Head1.by /\ children'[i].inbox # None
      BY <2>1, <2>2, <2>4, <2>8, <3>2
    <3> QED
      BY <2>4, <2>5, <3>1, <3>2 DEF PipeInv, Asked
  <2>12. InPipes'
    <3>1. ASSUME Head1.by \in Clients
          PROVE  runs[Head1.by] = 0 /\ pc[Head1.by] = "exchange" /\ result[Head1.by] = None
      BY <1>1, <3>1, HeadAwaited DEF FlightInv, RunsInv, UnsentNeverRan, Waiting
    <3>2. \A i \in DOMAIN children : /\ children'[i].outbox = None
                                     /\ children'[i].life # "dead" => i = h
      <4>1. \A i \in DOMAIN children : i # h => i \notin {proc, doomed}
        BY <2>1, PipesFacts DEF FlightInv
      <4> QED
        BY <2>1, <2>4, <2>8, <4>1 DEF FlightInv, Buried
    <3>3. children'[h].life # "dead" => children'[h].inbox.by = Head1.by
                                        /\ children'[h].life # "working"
      BY <2>1, <2>2, <2>4, <2>8
    <3> QED
      BY <1>1, <1>3, <2>4, <3>1, <3>2, <3>3 DEF InPipes
  <2> QED
    BY <2>4, <2>6, <2>7, <2>9, <2>10, <2>11, <2>12 DEF FlightInv, RunsInv
<1> QED
  BY <1>2, <1>3 DEF Send

-----------------------------------------------------------------------------
(* The child, and the operator who kills it.                               *)

\* A child that lives is the flight's own, or the one its thread is putting down; any
\* other keeps still.
LEMMA OwnChild ==
    ASSUME FlightInv
    PROVE  /\ \A i \in DOMAIN children : children[i] \in Child
           /\ \A i \in DOMAIN children : children[i].life # "dead" =>
                 /\ i \in {proc, doomed} /\ i # 0
                 /\ proc # 0 => i = proc
                 /\ execQ # <<>> /\ Head1.kind # "reap" => Head1.child = i /\ i = proc
           /\ \A i, j \in DOMAIN children : children[i].life # "dead" /\ j # i =>
                 /\ children[j].life = "dead" /\ ~children[j].open
                 /\ children[j].inbox = None /\ children[j].outbox = None
<1>1. PipesTyped
  BY DEF FlightInv
<1>2. \A i \in DOMAIN children : i # 0 /\ children[i] \in Child
  BY <1>1, PipesFacts
<1>3. proc # 0 => doomed = 0
  BY DEF FlightInv, Dying
<1>4. \A i \in DOMAIN children : children[i].life # "dead" => i \in {proc, doomed}
  BY DEF FlightInv, Buried
<1>5. execQ # <<>> /\ Head1.kind # "reap" => doomed = 0 /\ (proc # 0 => Head1.child = proc)
  BY HeadChild
<1>6. ASSUME NEW i \in DOMAIN children, children[i].life # "dead",
             NEW j \in DOMAIN children, j # i
      PROVE  j \notin {proc, doomed}
  BY <1>2, <1>3, <1>4, <1>6
<1> QED
  BY <1>2, <1>3, <1>4, <1>5, <1>6 DEF FlightInv, Buried

\* One child's record changes, and nothing beside it that the callers see.
LEMMA ChildMoves ==
    ASSUME FlightInv, NEW i \in DOMAIN children, children[i].life # "dead",
           NEW r \in Child, children' = [children EXCEPT ![i] = r], r.open = children[i].open,
           UNCHANGED <<state, attempts, provokedBy, primedArgs, proc, lockQ, execQ, result, pc,
                       answer, exiting, closed, doomed>>,
           faults' \in 0..MaxFaults
    PROVE  /\ Changed(i, r)
           /\ FrontTyped' /\ PipesTyped' /\ OwnAwaits' /\ LockInv' /\ Stages' /\ FatalFirst'
           /\ ExecInv' /\ Buried' /\ Dying' /\ ProcOpen'
           /\ Head1' = Head1 /\ \A j \in DOMAIN children : \A x : Asked(j, x)' <=> Asked(j, x)
<1>1. PipesTyped /\ i \in {proc, doomed}
  BY OwnChild DEF FlightInv
<1>2. Changed(i, r)
  BY ONLY <1>1, i \in DOMAIN children, r \in Child, children' = [children EXCEPT ![i] = r],
          ChildChanges
<1>3. PipesTyped'
  <2>1. Len(children') \in Nat /\ Len(children') = Len(children) /\ children' \in Seq(Child)
    BY <1>1, <1>2, PipesFacts DEF Changed
  <2> QED
    BY <1>1, <2>1 DEF PipesTyped
<1>4. FrontTyped' /\ OwnAwaits' /\ Stages' /\ FatalFirst'
  BY DEF FlightInv, FrontTyped, OwnAwaits, Stages, FatalFirst
<1>5. LockInv'
  <2>1. InLock' = InLock
    BY DEF InLock
  <2> QED
    BY <2>1 DEF FlightInv, LockInv
<1>6. ExecInv'
  BY <1>2, ExecKept DEF FlightInv, Changed
<1>7. Head1' = Head1 /\ \A j \in DOMAIN children : \A x : Asked(j, x)' <=> Asked(j, x)
  BY DEF Asked, Head1
<1>8. Buried' /\ Dying' /\ ProcOpen'
  <2>1. Buried'
    BY <1>1, <1>2 DEF FlightInv, Buried, Changed
  <2>2. Dying'
    BY <1>2, <1>7 DEF FlightInv, Dying, Changed
  <2>3. ProcOpen'
    BY <1>1, <1>2, PipesFacts DEF FlightInv, ProcOpen, Changed
  <2> QED
    BY <2>1, <2>2, <2>3
<1> QED
  BY <1>1, <1>2, <1>3, <1>4, <1>5, <1>6, <1>7, <1>8

\* The child comes up, or is fatal: its first words are the first in its pipe.
LEMMA BootStep ==
    ASSUME FlightInv, NEW i \in DOMAIN children, Boot(i)
    PROVE  FlightInv'
<1>1. /\ children[i].life = "booting"
      /\ UNCHANGED <<state, attempts, provokedBy, primedArgs, proc, lockQ, execQ, result, pc,
                     answer, runs, exiting, closed, doomed>>
  BY DEF Boot, front, side
<1>2. PICK life \in {"serving", "dead"}, word \in {Hello, Fatal} :
         children' = [children EXCEPT ![i].life = life, ![i].outbox = word]
  BY DEF Boot
<1>3. faults' \in 0..MaxFaults
  BY FlightAssumption DEF Boot, FlightAssumption, FlightInv, FrontTyped
<1> DEFINE r == [children[i] EXCEPT !.life = life, !.outbox = word]
<1>4. /\ children[i] \in Child /\ children[i].inbox = None
      /\ proc # 0 => i = proc
      /\ execQ # <<>> /\ Head1.kind # "reap" => Head1.child = i
      /\ \A j \in DOMAIN children : j # i =>
            /\ children[j].life = "dead" /\ children[j].inbox = None
            /\ children[j].outbox = None
  BY <1>1, OwnChild DEF FlightInv, PipeInv
<1>5. /\ r \in Child /\ r.life = life /\ r.outbox = word /\ r.inbox = None
      /\ r.open = children[i].open
  <2>1. word \in (Message \cup {None}) \ {Done, Lost, Unavailable, Raised}
    BY <1>2, MessageFacts DEF Hello, Fatal, Done, Lost, Unavailable, Raised
  <2> QED
    BY <1>2, <1>4, <2>1 DEF Child
<1>6. children' = [children EXCEPT ![i] = r]
  BY <1>2
<1> HIDE DEF r
<1>7. /\ Changed(i, r)
      /\ FrontTyped' /\ PipesTyped' /\ OwnAwaits' /\ LockInv' /\ Stages' /\ FatalFirst'
      /\ ExecInv' /\ Buried' /\ Dying' /\ ProcOpen'
      /\ Head1' = Head1 /\ \A j \in DOMAIN children : \A x : Asked(j, x)' <=> Asked(j, x)
  BY <1>1, <1>3, <1>5, <1>6, ChildMoves
<1>8. CallersTyped' /\ ResultsFit' /\ UnsentNeverRan'
  BY <1>1, <1>7 DEF FlightInv, CallersTyped, ResultsFit, RunsInv, UnsentNeverRan
<1>9. ~(execQ # <<>> /\ Head1.kind = "exchange")
  BY <1>1, <1>4 DEF FlightInv, HeadInv, ExchangeInv
<1>10. Greeted' /\ HeadInv'
  <2>1. Greeted'
    BY <1>1, <1>4 DEF FlightInv, Greeted, Up
  <2>2. HeadInv'
    BY <1>1, <1>2, <1>4, <1>5, <1>7, <1>9 DEF HeadInv, ExchangeInv, Changed
  <2> QED
    BY <2>1, <2>2
<1>11. \A j \in DOMAIN children :
          /\ children'[j].inbox = None /\ children'[j].life \notin {"booting", "working"}
          /\ children'[j].outbox # None => children'[j].outbox.kind # "reply"
  BY <1>2, <1>4, <1>5, <1>7, MessageFacts DEF Changed
<1>12. PipeInv' /\ InPipes'
  BY <1>7, <1>11 DEF PipeInv, InPipes, Changed
<1>13. \A c \in Clients : Standing(c)'
  BY <1>1 DEF FlightInv, RunsInv, Standing
<1> QED
  BY <1>7, <1>8, <1>10, <1>12, <1>13 DEF FlightInv, RunsInv

\* The child takes the job from its pipe and runs it.
LEMMA RunCommandStep ==
    ASSUME FlightInv, NEW i \in DOMAIN children, RunCommand(i)
    PROVE  FlightInv'
<1> DEFINE r == [children[i] EXCEPT !.life = "working"]
           by == children[i].inbox.by
<1>1. /\ children[i].life = "serving" /\ children[i].inbox # None
      /\ children' = [children EXCEPT ![i] = r]
      /\ runs' = IF by \in Clients THEN [runs EXCEPT ![by] = @ + 1] ELSE runs
      /\ UNCHANGED <<state, attempts, provokedBy, primedArgs, proc, lockQ, execQ, result, pc,
                     answer, exiting, closed, faults, doomed>>
  BY DEF RunCommand, front, side
<1>2. /\ children[i] \in Child /\ children[i].outbox = None
      /\ (state = "STOPPING" \/ Asked(i, by))
      /\ proc # 0 => i = proc
      /\ execQ # <<>> /\ Head1.kind # "reap" => Head1.child = i
      /\ \A j \in DOMAIN children : j # i =>
            /\ children[j].life = "dead" /\ children[j].inbox = None
            /\ children[j].outbox = None
  BY <1>1, OwnChild DEF FlightInv, PipeInv
<1>3. /\ r \in Child /\ r.life = "working" /\ r.outbox = None /\ r.inbox = children[i].inbox
      /\ r.open = children[i].open
  BY <1>2 DEF Child
<1>4. faults' \in 0..MaxFaults
  BY <1>1 DEF FlightInv, FrontTyped
<1> HIDE DEF r
<1>5. /\ Changed(i, r)
      /\ FrontTyped' /\ PipesTyped' /\ OwnAwaits' /\ LockInv' /\ Stages' /\ FatalFirst'
      /\ ExecInv' /\ Buried' /\ Dying' /\ ProcOpen'
      /\ Head1' = Head1 /\ \A j \in DOMAIN children : \A x : Asked(j, x)' <=> Asked(j, x)
  BY <1>1, <1>3, <1>4, ChildMoves
<1>6. /\ \A j \in DOMAIN children : j # i => children'[j] = children[j]
      /\ children'[i] = r /\ DOMAIN children' = DOMAIN children
  BY <1>5 DEF Changed
<1>7. \A c \in Clients :
         /\ runs'[c] = IF c = by THEN 1 ELSE runs[c]
         /\ c = by => \/ pc[c] = "exchange" /\ result[c] \in {None, Lost}
                      \/ pc[c] = "done" /\ answer[c] = Lost
  <2>1. \A c \in Clients : c = by =>
           /\ runs[c] = 0
           /\ \/ pc[c] = "exchange" /\ result[c] \in {None, Lost}
              \/ pc[c] = "done" /\ answer[c] = Lost
    BY <1>1 DEF FlightInv, RunsInv, InPipes
  <2>2. runs \in [Clients -> Nat]
    BY DEF FlightInv, CallersTyped
  <2> HIDE DEF by
  <2> QED
    BY <1>1, <2>1, <2>2
<1>8. CallersTyped'
  <2>1. runs \in [Clients -> Nat]
    BY DEF FlightInv, CallersTyped
  <2>2. runs' \in [Clients -> Nat]
    <3> HIDE DEF by
    <3> QED
      BY <1>1, <2>1
  <2> QED
    BY <1>1, <2>2 DEF FlightInv, CallersTyped
<1>9. ResultsFit'
  <2>1. \A c \in Clients : result[c] # None /\ result[c] # Lost => runs[c] = 1 /\ runs'[c] = 1
    BY <1>7 DEF FlightInv, ResultsFit
  <2> QED
    BY <1>1, <2>1 DEF FlightInv, ResultsFit
<1>10. Greeted'
  <2>1. None \notin {Hello, Fatal}
    BY MessageFacts
  <2> QED
    BY <1>1, <1>2, <1>3, <1>6, <2>1 DEF FlightInv, Greeted, Up, Unread
<1>11. PipeInv'
  BY <1>1, <1>2, <1>3, <1>5, <1>6 DEF FlightInv, PipeInv
<1>12. HeadInv'
  BY <1>1, <1>2, <1>3, <1>5, <1>6 DEF FlightInv, HeadInv, ExchangeInv
<1>13. UnsentNeverRan'
  <2>1. ~(execQ # <<>> /\ Head1.kind = "exchange" /\ ~Head1.sent)
    BY <1>1, <1>2 DEF FlightInv, HeadInv, ExchangeInv
  <2> QED
    BY <1>1, <1>5, <2>1 DEF UnsentNeverRan
<1>14. InPipes'
  <2>1. \A j \in DOMAIN children : j # i => children'[j].life = "dead" /\ children'[j].outbox = None
    BY <1>2, <1>6
  <2> QED
    BY <1>1, <1>3, <1>6, <1>7, <2>1 DEF InPipes
<1>15. ASSUME NEW c \in Clients PROVE Standing(c)'
  <2>1. Standing(c) /\ Lost # None
    BY MessageFacts DEF FlightInv, RunsInv
  <2>2. CASE c = by
    <3>1. /\ runs'[c] = 1 /\ pc'[c] \in {"exchange", "done"} /\ pc'[c] = pc[c]
          /\ answer'[c] = answer[c]
      BY <1>1, <1>7, <2>2
    <3>2. pc[c] = "done" => answer[c] = Lost
      BY <1>7, <2>2
    <3>3. answer[c] # None <=> pc[c] = "done"
      BY <2>1 DEF Standing
    <3> HIDE DEF by
    <3> QED
      BY <3>1, <3>2, <3>3 DEF Standing
  <2>3. CASE c # by
    <3>1. runs'[c] = runs[c] /\ pc'[c] = pc[c] /\ answer'[c] = answer[c]
      BY <1>1, <1>7, <2>3
    <3> QED
      BY <2>1, <3>1 DEF Standing
  <2> QED
    BY <2>2, <2>3
<1> QED
  BY <1>5, <1>8, <1>9, <1>10, <1>11, <1>12, <1>13, <1>14, <1>15 DEF FlightInv, RunsInv

\* The child answers: the reply goes to the call it has the job of.
LEMMA RespondStep ==
    ASSUME FlightInv, NEW i \in DOMAIN children, Respond(i)
    PROVE  FlightInv'
<1> DEFINE job == children[i].inbox
<1>1. /\ children[i].life = "working"
      /\ UNCHANGED <<state, attempts, provokedBy, primedArgs, proc, lockQ, execQ, result, pc,
                     answer, runs, exiting, closed, faults, doomed>>
  BY DEF Respond, front, side
<1>2. PICK ok \in BOOLEAN :
         children' = [children EXCEPT
                  ![i].life = "serving",
                  ![i].inbox = None,
                  ![i].outbox = Reply(job.by, ok),
                  ![i].loaded = IF ok /\ job.command.cmd = "prepare"
                                THEN @ \cup {job.command.args} ELSE @]
  BY DEF Respond
<1> DEFINE word == Reply(job.by, ok)
           more == IF ok /\ job.command.cmd = "prepare"
                   THEN children[i].loaded \cup {job.command.args} ELSE children[i].loaded
           r == [children[i] EXCEPT !.life = "serving", !.inbox = None, !.outbox = word,
                                    !.loaded = more]
<1>3. /\ children[i] \in Child /\ job # None /\ job \in Job
      /\ (state = "STOPPING" \/ Asked(i, job.by))
      /\ proc # 0 => i = proc
      /\ execQ # <<>> /\ Head1.kind # "reap" => Head1.child = i
      /\ \A j \in DOMAIN children : j # i =>
            /\ children[j].life = "dead" /\ children[j].inbox = None
            /\ children[j].outbox = None
  BY <1>1, OwnChild, ChildFacts DEF FlightInv, PipeInv
<1>4. /\ word \in (Message \cup {None}) \ {Done, Lost, Unavailable, Raised}
      /\ word # None /\ word.kind = "reply" /\ word.to = job.by /\ word \notin {Hello, Fatal}
  <2>1. job.by \in Callers
    BY <1>3, MessageFacts
  <2>2. word \in Message /\ word # None /\ word.kind = "reply" /\ word.to = job.by
    BY <1>2, <2>1, MessageFacts
  <2> HIDE DEF word
  <2> QED
    BY <2>2, MessageFacts
<1>5. more \subseteq Configs
  <2>1. job.command \in Command /\ children[i].loaded \subseteq Configs
    BY <1>3, MessageFacts, ChildFacts
  <2> QED
    BY <2>1 DEF Command
<1>6. children' = [children EXCEPT ![i] = r]
  BY <1>2
<1> HIDE DEF word, more
<1>7. /\ r \in Child /\ r.life = "serving" /\ r.inbox = None /\ r.outbox = word
      /\ r.open = children[i].open
  <2>1. None \in Job \cup {None}
    OBVIOUS
  <2> QED
    BY <1>3, <1>4, <1>5 DEF Child
<1>8. faults' \in 0..MaxFaults
  BY <1>1 DEF FlightInv, FrontTyped
<1> HIDE DEF r
<1>9. /\ Changed(i, r)
      /\ FrontTyped' /\ PipesTyped' /\ OwnAwaits' /\ LockInv' /\ Stages' /\ FatalFirst'
      /\ ExecInv' /\ Buried' /\ Dying' /\ ProcOpen'
      /\ Head1' = Head1 /\ \A j \in DOMAIN children : \A x : Asked(j, x)' <=> Asked(j, x)
  BY <1>1, <1>6, <1>7, <1>8, ChildMoves
<1>10. /\ \A j \in DOMAIN children : j # i => children'[j] = children[j]
       /\ children'[i] = r /\ DOMAIN children' = DOMAIN children
  BY <1>9 DEF Changed
<1>11. CallersTyped' /\ ResultsFit' /\ UnsentNeverRan'
  BY <1>1, <1>9 DEF FlightInv, CallersTyped, ResultsFit, RunsInv, UnsentNeverRan
<1>12. Greeted'
  <2> SUFFICES ASSUME Up' PROVE Greeted'
    BY DEF Greeted
  <2>1. Up /\ state # "STOPPING"
    BY <1>1 DEF Up, FlightInv, Stages, Tasks
  <2>2. proc # 0 /\ i = proc
    BY <1>3, <2>1 DEF FlightInv, Greeted
  <2>3. PICK x : x = job.by
    OBVIOUS
  <2>4. Asked(i, x)'
    BY <1>3, <1>9, <2>1, <2>3
  <2>5. children'[proc'].outbox.to = x /\ children'[proc'].life = "serving"
    BY <1>1, <1>4, <1>7, <1>10, <2>2, <2>3
  <2>6. Unread(proc)'
    BY <1>1, <2>2, <2>4, <2>5 DEF Unread
  <2> QED
    BY <1>1, <1>4, <1>7, <1>10, <2>2, <2>6 DEF Greeted
<1>13. PipeInv'
  <2>1. ASSUME NEW j \in DOMAIN children
        PROVE  /\ children'[j].inbox = None /\ children'[j].life \notin {"booting", "working"}
               /\ children'[j].outbox # None => j = i /\ children'[j].outbox.to = job.by
    BY <1>3, <1>4, <1>7, <1>10
  <2> QED
    BY <1>1, <1>3, <1>9, <1>10, <2>1 DEF PipeInv, Asked
<1>14. HeadInv'
  <2>1. execQ # <<>> /\ Head1.kind = "exchange" =>
           Head1.child = i /\ Head1.sent /\ job.by = Head1.by
    BY <1>1, <1>3 DEF FlightInv, HeadInv, ExchangeInv
  <2>2. ~(execQ # <<>> /\ Head1.kind = "hello")
    BY <1>3 DEF FlightInv, HeadInv
  <2> QED
    BY <1>1, <1>4, <1>7, <1>9, <1>10, <2>1, <2>2 DEF HeadInv, ExchangeInv
<1>15. InPipes'
  <2>1. \A c \in Clients : job.by = c => runs[c] = 1
    BY <1>1, <1>3 DEF FlightInv, RunsInv, InPipes
  <2>2. ASSUME NEW j \in DOMAIN children
        PROVE  /\ children'[j].inbox = None
               /\ children'[j].outbox # None => children'[j].outbox.to = job.by
    BY <1>3, <1>4, <1>7, <1>10
  <2> QED
    BY <1>1, <1>10, <2>1, <2>2 DEF InPipes
<1>16. \A c \in Clients : Standing(c)'
  BY <1>1 DEF FlightInv, RunsInv, Standing
<1> QED
  BY <1>9, <1>11, <1>12, <1>13, <1>14, <1>15, <1>16 DEF FlightInv, RunsInv

\* A child is killed, or not: its pipe is as it was, and what it was asked stays unread.
LEMMA ChildKilled ==
    ASSUME FlightInv,
           \/ children' = children
           \/ \E i \in DOMAIN children : children' = [children EXCEPT ![i].life = "dead"],
           UNCHANGED <<proc, execQ, result, runs, answer, closed, doomed>>,
           \A c \in Clients : pc'[c] = pc[c],
           state' = "STOPPING" <=> state = "STOPPING"
    PROVE  /\ DOMAIN children' = DOMAIN children
           /\ \A j \in DOMAIN children :
                 /\ children'[j].outbox = children[j].outbox
                 /\ children[j].life # "booting" => children'[j].life # "booting"
                 /\ children[j].life = "dead" => children'[j].life = "dead"
           /\ PipesTyped' /\ Buried' /\ Dying' /\ ProcOpen' /\ PipeInv' /\ HeadInv'
           /\ UnsentNeverRan' /\ InPipes'
<1>1. /\ DOMAIN children' = DOMAIN children /\ PipesTyped'
      /\ \A j \in DOMAIN children :
            /\ children'[j].outbox = children[j].outbox /\ children'[j].inbox = children[j].inbox
            /\ children'[j].open = children[j].open
            /\ children'[j].life \in {children[j].life, "dead"}
  <2>0. PipesTyped
    BY DEF FlightInv
  <2>1. CASE children' = children
    BY <2>0, <2>1 DEF PipesTyped
  <2>2. CASE \E i \in DOMAIN children : children' = [children EXCEPT ![i].life = "dead"]
    <3>1. PICK i \in DOMAIN children : children' = [children EXCEPT ![i].life = "dead"]
      BY <2>2
    <3> DEFINE r == [children[i] EXCEPT !.life = "dead"]
    <3>2. children' = [children EXCEPT ![i] = r]
      BY <3>1
    <3>3. /\ r \in Child /\ r.life = "dead" /\ r.outbox = children[i].outbox
          /\ r.inbox = children[i].inbox /\ r.open = children[i].open
      <4>1. children[i] \in Child
        BY <2>0, <3>1, PipesFacts
      <4> QED
        BY <4>1 DEF Child
    <3> HIDE DEF r
    <3>4. Changed(i, r)
      BY ONLY <2>0, <3>1, <3>2, <3>3, ChildChanges
    <3>5. Len(children') \in Nat /\ Len(children') = Len(children) /\ children' \in Seq(Child)
      BY <2>0, <3>4, PipesFacts DEF Changed
    <3> QED
      BY <2>0, <3>3, <3>4, <3>5 DEF Changed, PipesTyped
  <2> QED
    BY <2>1, <2>2
<1>2. Head1' = Head1 /\ \A j \in DOMAIN children : \A x : Asked(j, x)' <=> Asked(j, x)
  BY DEF Asked, Head1
<1>3. Buried' /\ Dying' /\ ProcOpen'
  <2>1. proc # 0 => proc \in DOMAIN children
    BY PipesFacts DEF FlightInv
  <2>2. Buried'
    BY <1>1 DEF FlightInv, Buried
  <2>3. Dying'
    BY <1>1, <1>2 DEF FlightInv, Dying
  <2>4. ProcOpen'
    BY <1>1, <2>1 DEF FlightInv, ProcOpen
  <2> QED
    BY <2>2, <2>3, <2>4
<1>4. PipeInv'
  <2>1. \A i \in DOMAIN children : children'[i].life # "dead" => children'[i].life = children[i].life
    BY <1>1
  <2>2. ASSUME NEW i \in DOMAIN children'
        PROVE  /\ children'[i].life = "booting" => children'[i].inbox = None /\ children'[i].outbox = None
               /\ children'[i].life = "working" => children'[i].inbox # None
    BY <1>1, <2>1, <2>2 DEF FlightInv, PipeInv
  <2>3. ASSUME NEW i \in DOMAIN children'
        PROVE  /\ children'[i].life # "dead" /\ children'[i].inbox # None =>
                    children'[i].outbox = None /\ (state' = "STOPPING" \/ Asked(i, children[i].inbox.by))
               /\ children'[i].outbox # None /\ children'[i].outbox.kind = "reply" =>
                    \/ state' = "STOPPING" \/ children'[i].life = "dead"
                    \/ Asked(i, children[i].outbox.to)
    BY <1>1, <2>1, <2>3 DEF FlightInv, PipeInv
  <2>4. ASSUME NEW i \in DOMAIN children'
        PROVE  children'[i].inbox = children[i].inbox /\ children'[i].outbox = children[i].outbox
    BY <1>1, <2>4
  <2> QED
    BY <1>1, <1>2, <2>2, <2>3, <2>4 DEF PipeInv, Asked
<1>5. HeadInv'
  <2>1. ASSUME execQ # <<>>, Head1.kind # "reap" PROVE Head1.child \in DOMAIN children
    BY <2>1, HeadChild
  <2>2. ASSUME NEW i \in DOMAIN children
        PROVE  /\ children'[i].outbox = children[i].outbox /\ children'[i].inbox = children[i].inbox
               /\ children'[i].life = children[i].life \/ children'[i].life = "dead"
    BY <1>1
  <2> QED
    BY <1>2, <2>1, <2>2 DEF FlightInv, HeadInv, ExchangeInv
<1>6. UnsentNeverRan'
  BY <1>2 DEF FlightInv, RunsInv, UnsentNeverRan
<1>7. InPipes'
  BY <1>1 DEF FlightInv, RunsInv, InPipes
<1> QED
  BY <1>1, <1>3, <1>4, <1>5, <1>6, <1>7

\* The child dies by itself.
LEMMA CrashStep ==
    ASSUME FlightInv, NEW i \in DOMAIN children, Crash(i)
    PROVE  FlightInv'
<1>1. /\ children' = [children EXCEPT ![i].life = "dead"]
      /\ faults < MaxFaults /\ faults' = faults + 1
      /\ UNCHANGED <<state, attempts, provokedBy, primedArgs, proc, lockQ, execQ, result, pc,
                     answer, runs, exiting, closed, doomed>>
  BY DEF Crash, front, side
<1>2. /\ DOMAIN children' = DOMAIN children
      /\ \A j \in DOMAIN children :
            /\ children'[j].outbox = children[j].outbox
            /\ children[j].life # "booting" => children'[j].life # "booting"
            /\ children[j].life = "dead" => children'[j].life = "dead"
      /\ PipesTyped' /\ Buried' /\ Dying' /\ ProcOpen' /\ PipeInv' /\ HeadInv'
      /\ UnsentNeverRan' /\ InPipes'
  BY <1>1, ChildKilled
<1>3. FrontTyped'
  BY <1>1, FlightAssumption DEF FlightAssumption, FlightInv, FrontTyped
<1>4. CallersTyped' /\ OwnAwaits' /\ Stages' /\ FatalFirst' /\ ResultsFit'
  BY <1>1 DEF FlightInv, CallersTyped, OwnAwaits, Stages, FatalFirst, ResultsFit
<1>5. LockInv'
  <2>1. InLock' = InLock
    BY <1>1 DEF InLock
  <2> QED
    BY <1>1, <2>1 DEF FlightInv, LockInv
<1>6. ExecInv'
  BY <1>1, <1>2, ExecKept DEF FlightInv
<1>7. Greeted'
  BY <1>1, <1>2, GreetedStill DEF Up
<1>8. \A c \in Clients : Standing(c)'
  BY <1>1 DEF FlightInv, RunsInv, Standing
<1> QED
  BY <1>2, <1>3, <1>4, <1>5, <1>6, <1>7, <1>8 DEF FlightInv, RunsInv

\* request_restart: the child is killed, and a restart begun unless a reader will
\* notice and begin it.
LEMMA RequestRestartStep ==
    ASSUME FlightInv, ~RestartWhileStarting, RequestRestart
    PROVE  FlightInv'
<1> DEFINE begins == pc["restart"] = "off"
<1>1. /\ faults < MaxFaults /\ faults' = faults + 1
      /\ UNCHANGED <<primedArgs, proc, lockQ, execQ, result, answer, runs, exiting, closed, doomed>>
      /\ state \in {"STARTING", "READY", "RESTARTING", "DEGRADED"}
      /\ state = "STARTING" => pc["startup"] = "off"
  BY DEF RequestRestart, Serving, FlightInv, FrontTyped, side
<1>2. /\ children' = children \/ children' = Killed
      /\ attempts' \in 0..MAX_RESTART_ATTEMPTS /\ provokedBy' \in {"prepare", "push", None}
      /\ \/ UNCHANGED <<state, pc>>
         \/ StartRestart(pc) /\ (state = "DEGRADED" \/ ~InFlight)
  BY FlightAssumption DEF RequestRestart, FlightAssumption, FlightInv, FrontTyped
<1>3. /\ \/ children' = children
         \/ \E i \in DOMAIN children : children' = [children EXCEPT ![i].life = "dead"]
  <2>1. proc # 0 => proc \in DOMAIN children
    BY PipesFacts DEF FlightInv
  <2> QED
    BY <1>2, <2>1 DEF Killed, Usable
<1>4. \/ state' = state /\ pc' = pc
      \/ /\ state' = "RESTARTING" /\ \A c \in Clients : pc[c] # "exchange"
         /\ pc' = IF begins THEN [pc EXCEPT !["restart"] = "created"] ELSE pc
  <2>1. state = "DEGRADED" \/ ~InFlight => \A c \in Clients : pc[c] # "exchange"
    BY CallerFacts DEF InFlight, FlightInv, Stages
  <2> QED
    BY <1>1, <1>2, <2>1 DEF StartRestart
<1>5. /\ \A x \in Callers : pc'[x] = pc[x] \/ (x = "restart" /\ begins /\ pc'[x] = "created")
      /\ pc' \in [Callers -> ClientAwaits \cup TaskAwaits]
  <2>1. pc \in [Callers -> ClientAwaits \cup TaskAwaits] /\ "created" \in TaskAwaits
    BY DEF FlightInv, CallersTyped, TaskAwaits
  <2> QED
    BY <1>4, <2>1, CallerFacts
<1>6. \A c \in Clients : pc'[c] = pc[c]
  BY <1>5, CallerFacts
<1>7. state' # "STOPPING" /\ state # "STOPPING"
  BY <1>1, <1>4
<1>8. /\ DOMAIN children' = DOMAIN children
      /\ \A j \in DOMAIN children :
            /\ children'[j].outbox = children[j].outbox
            /\ children[j].life # "booting" => children'[j].life # "booting"
            /\ children[j].life = "dead" => children'[j].life = "dead"
      /\ PipesTyped' /\ Buried' /\ Dying' /\ ProcOpen' /\ PipeInv' /\ HeadInv'
      /\ UnsentNeverRan' /\ InPipes'
  BY <1>1, <1>3, <1>6, <1>7, ChildKilled
<1>9. FrontTyped'
  BY <1>1, <1>2, <1>4, FlightAssumption DEF FlightAssumption, FlightInv, FrontTyped
<1>10. CallersTyped' /\ OwnAwaits'
  BY <1>1, <1>5, <1>6, CallerFacts DEF FlightInv, CallersTyped, OwnAwaits, TaskAwaits
<1>11. result["restart"] = None \/ ~begins
  BY <1>7, CallerFacts DEF FlightInv, ResultsFit
<1>12. Stages'
  BY <1>1, <1>4, <1>5, <1>6, CallerFacts DEF FlightInv, Stages
<1>13. FatalFirst'
  BY <1>1, <1>4, <1>5, CallerFacts DEF FlightInv, FatalFirst
<1>14. LockInv'
  BY <1>1, <1>5, CallerFacts, LockKept DEF FlightInv, Stands, Calling
<1>15. ExecInv'
  BY <1>1, <1>5, <1>7, <1>8, ExecKept DEF FlightInv, Calling
<1>16. ResultsFit'
  BY <1>1, <1>5, <1>6, <1>7, <1>11, CallerFacts DEF FlightInv, ResultsFit
<1>17. Greeted'
  <2>2. \A u \in Tasks : pc'[u] \in {"hello", "reprime"} => pc[u] = pc'[u]
    BY <1>5, CallerFacts
  <2>3. state' = "READY" => state = "READY"
    BY <1>4
  <2> QED
    BY <1>1, <1>8, <2>2, <2>3, GreetedStill DEF Up
<1>18. \A c \in Clients : Standing(c)'
  BY <1>1, <1>6 DEF FlightInv, RunsInv, Standing
<1> QED
  BY <1>8, <1>9, <1>10, <1>12, <1>13, <1>14, <1>15, <1>16, <1>17, <1>18 DEF FlightInv, RunsInv

-----------------------------------------------------------------------------
(* The end of the flight: both tasks are cancelled, and the child is reaped.  *)

\* With both tasks' calls gone nothing is left behind the call the thread is at.
LEMMA NoneBehind ==
    ASSUME ExecShape, execQ # <<>>
    PROVE  <<Head1>> \o WithoutTasks(Tail(execQ)) = <<Head1>>
<1>1. WithoutTasks(<<>>) = <<>>
  BY DEF WithoutTasks, RemoveFirstMatch
<1>2. WithoutTasks(<<ReapFor("restart")>>) = <<>>
  <2> DEFINE q == <<ReapFor("restart")>>
  <2>1. Len(q) = 1 /\ q[1].by = "restart" /\ 1 \in 1..1
    BY DEF ReapFor
  <2>2. RemoveFirstMatch(q, LAMBDA e : e.by = "startup") = q
    BY <2>1 DEF RemoveFirstMatch
  <2>3. SelectInSeq(q, LAMBDA e : e.by = "restart") = 1
    <3>1. {i \in 1..Len(q) : q[i].by = "restart"} = {1}
      BY <2>1
    <3>2. Min({1}) = 1
      BY DEF Min
    <3> QED
      BY <3>1, <3>2 DEF SelectInSeq
  <2>4. RemoveAt(q, 1) = <<>>
    <3>1. SubSeq(q, 1, 1 - 1) = <<>> /\ SubSeq(q, 1 + 1, 1) = <<>>
      BY SubSeqEmpty
    <3>2. <<>> \o <<>> = <<>>
      BY EmptySeq, ConcatEmptySeq
    <3> QED
      BY <2>1, <3>1, <3>2 DEF RemoveAt
  <2>5. RemoveFirstMatch(q, LAMBDA e : e.by = "restart") = RemoveAt(q, 1)
    BY <2>1, <2>3 DEF RemoveFirstMatch
  <2> HIDE DEF q
  <2> QED
    BY <2>2, <2>4, <2>5 DEF WithoutTasks, q
<1>3. Tail(execQ) = <<>> \/ Tail(execQ) = <<ReapFor("restart")>>
  BY ExecFacts
<1>4. <<Head1>> \o <<>> = <<Head1>>
  OBVIOUS
<1> QED
  BY <1>1, <1>2, <1>3, <1>4

\* aclose: whoever waits wakes, and the bring-up tasks are gone, from the lock and
\* from the executor too.
LEMMA AcloseStep ==
    ASSUME FlightInv, Aclose
    PROVE  FlightInv'
<1>1. /\ state # "STOPPING" /\ state' = "STOPPING"
      /\ lockQ' = RemoveFirst(lockQ, "restart")
      /\ execQ' = IF execQ = <<>> THEN execQ ELSE <<Head1>> \o WithoutTasks(Tail(execQ))
      /\ UNCHANGED <<attempts, provokedBy, primedArgs, proc, children, result, answer, runs,
                     exiting, closed, faults, doomed>>
  BY DEF Aclose, side
<1>2. /\ pc' \in [Callers -> ClientAwaits \cup TaskAwaits]
      /\ pc'["startup"] = "off" /\ pc'["restart"] = "off"
      /\ \A c \in Clients : pc'[c] = IF pc[c] = "waiting" THEN "woken" ELSE pc[c]
  <2> DEFINE at == [pc EXCEPT !["startup"] = "off", !["restart"] = "off"]
  <2>1. /\ at \in [Callers -> ClientAwaits \cup TaskAwaits]
        /\ at["startup"] = "off" /\ at["restart"] = "off"
        /\ \A c \in Clients : at[c] = pc[c]
    BY CallerFacts DEF FlightInv, CallersTyped, TaskAwaits
  <2>2. pc' = [x \in Callers |-> IF at[x] = "waiting" THEN "woken" ELSE at[x]]
    BY DEF Aclose, SetReady
  <2> HIDE DEF at
  <2> QED
    BY <2>1, <2>2, CallerFacts DEF ClientAwaits
<1>3. /\ execQ = <<>> => execQ' = <<>>
      /\ execQ # <<>> => execQ' = <<Head1>> /\ execQ' # <<>> /\ DOMAIN execQ' = {1}
                         /\ execQ'[1] = Head1 /\ Head1' = Head1
  <2>1. execQ # <<>> => execQ' = <<Head1>>
    BY <1>1, NoneBehind DEF FlightInv, ExecInv
  <2>2. execQ # <<>> => execQ' # <<>> /\ DOMAIN execQ' = {1} /\ execQ'[1] = Head1
    BY <2>1
  <2>3. Head1' = execQ'[1]
    BY DEF Head1
  <2> QED
    BY <1>1, <2>1, <2>2, <2>3
<1>4. FrontTyped' /\ PipesTyped' /\ CallersTyped'
  BY <1>1, <1>2 DEF FlightInv, FrontTyped, PipesTyped, CallersTyped
<1>5. OwnAwaits'
  BY <1>2, CallerFacts DEF FlightInv, OwnAwaits, ClientAwaits, TaskAwaits
<1>6. LockInv'
  <2>1. InLock' = InLock \ {"restart"}
    BY <1>2, CallerFacts DEF InLock, Calling
  <2>2. Lists(lockQ, InLock)
    BY DEF FlightInv, LockInv
  <2>3. /\ Lists(RemoveFirst(lockQ, "restart"), InLock \ {"restart"})
        /\ InLock # {} /\ lockQ[1] # "restart" =>
              RemoveFirst(lockQ, "restart")[1] = lockQ[1]
    <3> HIDE DEF InLock
    <3> QED
      BY <2>2, QueueWithout
  <2>4. ASSUME NEW x \in InLock', pc'[x] # "lock" PROVE lockQ'[1] = x
    <3>1. x \in Clients /\ x \in InLock /\ x # "restart"
      BY <2>1, <2>4 DEF InLock
    <3>2. pc[x] # "lock"
      BY <1>2, <2>4, <3>1
    <3>3. lockQ[1] = x
      BY <3>1, <3>2 DEF FlightInv, LockInv
    <3> QED
      BY <1>1, <2>3, <3>1, <3>3
  <2> HIDE DEF InLock
  <2> QED
    BY <1>1, <2>1, <2>3, <2>4 DEF LockInv
<1>7. Stages' /\ FatalFirst'
  BY <1>1, <1>2 DEF FlightInv, Stages, FatalFirst
<1>8. ASSUME execQ # <<>>
      PROVE  /\ Head1 \in ExecItem /\ Head1.by \in Callers
             /\ Head1.kind # "reap" => Head1.child = proc
             /\ Head1.by \in Clients => result[Head1.by] = None /\ Fits(Head1.kind, Head1.by)'
             /\ \A i \in DOMAIN execQ : i = 1 \/ execQ[i].by = "restart"
  <2>1. /\ Head1 \in ExecItem /\ Head1.by \in Callers
        /\ Head1.kind \in {"reap", "hello", "exchange"}
        /\ Head1.kind \in {"reap", "hello"} => Head1.by \in Tasks
    BY <1>8, ExecFacts, ItemFacts DEF FlightInv, ExecInv
  <2>2. ReapFor("restart").by = "restart"
    BY DEF ReapFor
  <2>3. \A i \in DOMAIN execQ : i = 1 \/ execQ[i].by = "restart"
    BY <1>8, <2>2, ExecFacts DEF FlightInv, ExecInv
  <2>4. 1 \in DOMAIN execQ
    BY <1>8, ExecFacts DEF FlightInv, ExecInv
  <2>5. /\ result[Head1.by] = None /\ Fits(Head1.kind, Head1.by)
        /\ Head1.kind # "reap" => Head1.child = proc
    BY <1>1, <2>4 DEF FlightInv, ExecInv, Head1
  <2>6. Head1.by \in Clients => Fits(Head1.kind, Head1.by)'
    <3>1. Head1.by \in Clients => Head1.kind = "exchange" /\ pc[Head1.by] = "exchange"
      BY <2>1, <2>5, CallerFacts DEF Fits
    <3>2. Head1.by \in Clients => pc'[Head1.by] = "exchange"
      BY <1>2, <3>1
    <3> QED
      BY <1>3, <1>8, <3>1, <3>2 DEF Fits
  <2> QED
    BY <2>1, <2>3, <2>5, <2>6
<1>9. ExecInv'
  <2>1. \A x \in Callers : Waiting(x)' => execQ # <<>> /\ x = Head1.by
    <3>1. ASSUME NEW x \in Callers, Waiting(x)' PROVE execQ # <<>> /\ x = Head1.by
      <4>1. x \in Clients
        BY <1>2, <3>1, CallerFacts DEF Waiting, Calling
      <4>2. Waiting(x)
        BY <1>1, <1>2, <3>1, <4>1 DEF Waiting, Calling
      <4>3. PICK i \in DOMAIN execQ : execQ[i].by = x
        BY <4>2 DEF FlightInv, ExecInv
      <4>4. execQ # <<>>
        BY <4>3
      <4> QED
        BY <1>8, <4>1, <4>3, <4>4, CallerFacts DEF Head1
    <3> QED
      BY <3>1
  <2>2. CASE execQ = <<>>
    <3>1. execQ' = <<>> /\ DOMAIN execQ' = {} /\ \A x \in Callers : ~Waiting(x)'
      BY <1>3, <2>1, <2>2
    <3> QED
      BY <3>1 DEF ExecInv, ExecShape
  <2>3. CASE execQ # <<>>
    <3>1. Head1 \in ExecItem'
      BY <1>1, <1>8, <2>3 DEF ExecItem
    <3>2. ExecShape'
      <4> HIDE DEF ExecItem
      <4> QED
        BY <1>3, <2>3, <3>1 DEF ExecShape
    <3>3. \A i \in DOMAIN execQ' : execQ'[i] = Head1
      BY <1>3, <2>3
    <3>4. \A i \in DOMAIN execQ' :
             /\ execQ'[i].by \in Clients \/ state' # "STOPPING" =>
                   result'[execQ'[i].by] = None /\ Fits(execQ[i].kind, execQ[i].by)'
             /\ execQ'[i].kind # "reap" => execQ'[i].child = proc'
      BY <1>1, <1>3, <1>8, <2>3, <3>3 DEF Fits
    <3>5. \A x \in Callers : Waiting(x)' => \E i \in DOMAIN execQ' : execQ'[i].by = x
      BY <1>3, <2>1, <2>3
    <3> QED
      BY <3>2, <3>4, <3>5 DEF ExecInv
  <2> QED
    BY <2>2, <2>3
<1>10. ResultsFit'
  BY <1>1, <1>2 DEF FlightInv, ResultsFit
<1>11. Buried' /\ Dying' /\ ProcOpen'
  BY <1>1, <1>3, BuriedKept
<1>12. Greeted'
  BY <1>1, <1>2, CallerFacts DEF Greeted, Up
<1>13. PipeInv' /\ HeadInv' /\ UnsentNeverRan'
  <2>1. PipeInv'
    BY <1>1 DEF FlightInv, PipeInv
  <2>2. HeadInv' /\ UnsentNeverRan'
    BY <1>1, <1>3 DEF FlightInv, RunsInv, HeadInv, ExchangeInv, UnsentNeverRan
  <2> QED
    BY <2>1, <2>2
<1>14. InPipes'
  BY <1>1, <1>2 DEF FlightInv, RunsInv, InPipes
<1>15. \A c \in Clients : Standing(c)'
  BY <1>1, <1>2 DEF FlightInv, RunsInv, Standing
<1> QED
  BY <1>4, <1>5, <1>6, <1>7, <1>9, <1>10, <1>11, <1>12, <1>13, <1>14, <1>15
     DEF FlightInv, RunsInv

\* The close reaps what child it finds, and no other will come; the one the thread is
\* putting down stays what it was.
LEMMA AcloseReapsStep ==
    ASSUME FlightInv, AcloseReaps
    PROVE  FlightInv'
<1>1. /\ state = "STOPPING" /\ closed' = TRUE /\ proc' = 0
      /\ children' = IF proc = 0 THEN children ELSE Reaped(proc)
      /\ \A c \in Clients : pc[c] # "exchange"
      /\ UNCHANGED <<state, attempts, provokedBy, primedArgs, lockQ, execQ, result, pc, answer,
                     runs, exiting, faults, doomed>>
  BY DEF AcloseReaps, front, side
<1>2. /\ PipesTyped' /\ DOMAIN children' = DOMAIN children
      /\ Buried' /\ Dying' /\ ProcOpen' /\ PipeInv' /\ InPipes'
      /\ execQ # <<>> /\ Head1.kind # "reap" =>
            \A i \in DOMAIN children' :
               /\ children'[i].life = "dead"
               /\ children'[i].inbox = None /\ children'[i].outbox = None
  <2>1. PipesTyped /\ Buried /\ proc \in {0} \cup DOMAIN children
    BY PipesFacts DEF FlightInv
  <2>2. Head1' = Head1
    BY <1>1 DEF Head1
  <2>3. CASE doomed = 0
    <3>1. {proc, doomed} \subseteq {0, proc}
      BY <2>3
    <3>2. /\ PipesTyped' /\ DOMAIN children' = DOMAIN children
          /\ \A i \in DOMAIN children' :
                /\ children'[i].life = "dead" /\ ~children'[i].open
                /\ children'[i].inbox = None /\ children'[i].outbox = None
          /\ Buried' /\ PipeInv' /\ InPipes'
      BY <1>1, <2>1, <3>1, AllBuried
    <3> QED
      BY <1>1, <2>3, <3>2 DEF Dying, ProcOpen
  <2>4. CASE doomed # 0
    <3>1. /\ proc = 0 /\ doomed \in DOMAIN children /\ execQ # <<>> /\ Head1.kind = "reap"
          /\ children' = children
      BY <1>1, <2>4 DEF FlightInv, Dying
    <3>2. Buried' /\ Dying' /\ ProcOpen' /\ PipesTyped'
      BY <1>1, <2>1, <2>2, <3>1 DEF Buried, Dying, ProcOpen, PipesTyped
    <3>3. PipeInv' /\ InPipes'
      BY <1>1, <3>1 DEF FlightInv, RunsInv, PipeInv, InPipes
    <3> QED
      BY <3>1, <3>2, <3>3
  <2> QED
    BY <2>3, <2>4
<1>3. FrontTyped' /\ CallersTyped' /\ OwnAwaits' /\ FatalFirst' /\ Stages' /\ ResultsFit'
  BY <1>1 DEF FlightInv, FrontTyped, CallersTyped, OwnAwaits, FatalFirst, Stages, ResultsFit
<1>4. LockInv'
  <2>1. InLock' = InLock
    BY <1>1 DEF InLock
  <2> QED
    BY <1>1, <2>1 DEF FlightInv, LockInv
<1>5. ExecInv'
  <2>1. ExecItem' = ExecItem
    BY <1>2 DEF ExecItem
  <2>2. ExecShape'
    BY <1>1, <2>1 DEF FlightInv, ExecInv, ExecShape, ReapFor
  <2>3. \A i \in DOMAIN execQ : execQ[i].by \in Clients =>
           result[execQ[i].by] = None /\ Fits(execQ[i].kind, execQ[i].by)
    BY DEF FlightInv, ExecInv
  <2>4. \A x \in Callers : Waiting(x) => \E i \in DOMAIN execQ : execQ[i].by = x
    BY DEF FlightInv, ExecInv
  <2>5. ASSUME NEW i \in DOMAIN execQ, execQ[i].kind # "reap" PROVE execQ[i].by \in Tasks
    <3>1. execQ[i] \in ExecItem
      BY ShapeTyped, ElementOfSeq, LenProperties DEF FlightInv, ExecInv
    <3>2. /\ execQ[i].by \in Callers /\ execQ[i].kind \in {"hello", "exchange"}
          /\ execQ[i].kind = "hello" => execQ[i].by \in Tasks
      BY <2>5, <3>1, ItemFacts
    <3>3. execQ[i].by \notin Clients
      BY <1>1, <2>3, <3>2, CallerFacts DEF Fits
    <3> QED
      BY <3>2, <3>3 DEF Callers
  <2> QED
    BY <1>1, <2>2, <2>3, <2>4, <2>5 DEF ExecInv, Fits, Waiting
<1>6. Greeted'
  <2>1. \A u \in Tasks : pc[u] = "off"
    BY <1>1, CallerFacts DEF FlightInv, Stages
  <2> QED
    BY <1>1, <2>1 DEF Greeted, Up
<1>7. HeadInv' /\ UnsentNeverRan'
  <2>1. execQ # <<>> /\ Head1.kind # "reap" => Head1.child \in DOMAIN children
    BY HeadChild
  <2>2. Head1' = Head1
    BY <1>1 DEF Head1
  <2>3. HeadInv'
    BY <1>1, <1>2, <2>1, <2>2, MessageFacts DEF HeadInv, ExchangeInv
  <2>4. UnsentNeverRan'
    BY <1>1, <2>2 DEF FlightInv, RunsInv, UnsentNeverRan
  <2> QED
    BY <2>3, <2>4
<1>8. \A c \in Clients : Standing(c)'
  BY <1>1 DEF FlightInv, RunsInv, Standing
<1> QED
  BY <1>2, <1>3, <1>4, <1>5, <1>6, <1>7, <1>8 DEF FlightInv, RunsInv

-----------------------------------------------------------------------------
(* The flight's invariant.                                                 *)

\* What start() leaves satisfies it.
LEMMA InitFlight ==
    Init => FlightInv
<1> SUFFICES ASSUME Init PROVE FlightInv
  OBVIOUS
<1>1. /\ state = "STARTING" /\ attempts = 0 /\ provokedBy = None /\ primedArgs = None
      /\ proc = 0 /\ doomed = 0 /\ children = <<>> /\ lockQ = <<>> /\ execQ = <<>>
      /\ result = [x \in Callers |-> None]
      /\ answer = [c \in Clients |-> None] /\ runs = [c \in Clients |-> 0]
      /\ exiting = FALSE /\ closed = FALSE /\ faults = 0
      /\ pc = [x \in Callers |-> IF x = "startup" THEN "created"
                                 ELSE IF x = "restart" THEN "off" ELSE "idle"]
  BY DEF Init
<1>2. /\ pc["startup"] = "created" /\ pc["restart"] = "off"
      /\ \A c \in Clients : pc[c] = "idle" /\ result[c] = None /\ answer[c] = None /\ runs[c] = 0
      /\ \A x \in Callers : result[x] = None
  BY <1>1, CallerFacts
<1>3. DOMAIN children = {} /\ DOMAIN execQ = {} /\ DOMAIN lockQ = {}
  BY <1>1
<1>4. FrontTyped
  <2>1. 0 \in 0..MAX_RESTART_ATTEMPTS /\ 0 \in 0..MaxFaults
    BY FlightAssumption DEF FlightAssumption
  <2> QED
    BY <1>1, <2>1 DEF FrontTyped
<1>5. PipesTyped
  BY <1>1, EmptySeq DEF PipesTyped
<1>6. CallersTyped
  <2>1. pc \in [Callers -> ClientAwaits \cup TaskAwaits]
    BY <1>1 DEF ClientAwaits, TaskAwaits
  <2>2. None \in (Message \cup {None}) \ {Hello, Fatal, Done, Raised}
    BY MessageFacts
  <2> QED
    BY <1>1, <2>1, <2>2 DEF CallersTyped
<1>7. OwnAwaits
  BY <1>2, CallerFacts DEF OwnAwaits, ClientAwaits, TaskAwaits
<1>8. LockInv
  <2>1. InLock = {}
    BY <1>2, CallerFacts DEF InLock, Calling
  <2>2. Lists(<<>>, {})
    BY EmptySeq DEF Lists, IsInjective
  <2> QED
    BY <1>1, <2>1, <2>2 DEF LockInv
<1>9. Stages /\ FatalFirst
  BY <1>1, <1>2 DEF Stages, FatalFirst
<1>10. ExecInv
  <2>1. \A x \in Callers : ~Waiting(x)
    BY <1>2, CallerFacts DEF Waiting, Calling
  <2> QED
    BY <1>1, <1>3, <2>1 DEF ExecInv, ExecShape
<1>11. ResultsFit /\ Buried /\ Dying /\ ProcOpen
  BY <1>1, <1>2, <1>3, CallerFacts DEF ResultsFit, Buried, Dying, ProcOpen
<1>12. Greeted
  BY <1>1, <1>2, CallerFacts DEF Greeted, Up
<1>13. PipeInv /\ HeadInv /\ UnsentNeverRan /\ InPipes
  BY <1>1, <1>3 DEF PipeInv, HeadInv, ExchangeInv, UnsentNeverRan, InPipes
<1>14. \A c \in Clients : Standing(c)
  BY <1>2 DEF Standing
<1> QED
  BY <1>4, <1>5, <1>6, <1>7, <1>8, <1>9, <1>10, <1>11, <1>12, <1>13, <1>14
     DEF FlightInv, RunsInv

\* A step that changes nothing keeps it.
LEMMA StutterKeepsFlight ==
    ASSUME FlightInv, UNCHANGED vars
    PROVE  FlightInv'
<1>1. UNCHANGED <<front, proc, children, lockQ, execQ, result, pc, answer, runs, exiting,
                  closed, faults, doomed>>
  BY DEF vars, side
<1> QED
  BY <1>1, SameKeepsFlight

\* Every step of the flight keeps it, unless the operator restarts one in STARTING.
LEMMA StepKeepsFlight ==
    ASSUME ~RestartWhileStarting, FlightInv, [Next]_vars
    PROVE  FlightInv'
<1>1. ASSUME NEW c \in Clients, Call(c) \/ ClientStep(c) \/ GiveUpWaiting(c)
      PROVE  FlightInv'
  BY <1>1, CallStep, AcquireStep, WakeStep, ReturnedStep DEF ClientStep
<1>2. ASSUME NEW t \in Tasks, TaskStep(t)
      PROVE  FlightInv'
  BY <1>2, BeginStep, BackoffOverStep, SpawnStep, SpawnRaisesStep, HelloReturnedStep,
     FatalReapDoneStep, ReprimeReturnedStep DEF TaskStep
<1>3. CASE RestartQueues
  BY <1>3, RestartQueuesStep
<1>4. CASE ThreadStep \/ HelloTimeout
  BY <1>4, DetachStep, ReapStep, SendStep, ReceiveStep, NoticeLossStep, SliceOverStep,
     LookAtChildStep, HelloTimeoutStep DEF ThreadStep
<1>5. ASSUME NEW i \in DOMAIN children, ChildStep(i) \/ Crash(i)
      PROVE  FlightInv'
  BY <1>5, BootStep, RunCommandStep, RespondStep, CrashStep DEF ChildStep
<1>6. CASE RequestRestart \/ Aclose \/ AcloseReaps
  BY <1>6, RequestRestartStep, AcloseStep, AcloseReapsStep
<1>7. CASE UNCHANGED vars
  BY <1>7, StutterKeepsFlight
<1> QED
  BY <1>1, <1>2, <1>3, <1>4, <1>5, <1>6, <1>7 DEF Next

\* The inductive invariant: who may be where, what the executor is at, and what is
\* in the pipe, for any flight no operator restarts while it starts.
THEOREM FlightInvariant ==
    ASSUME ~RestartWhileStarting
    PROVE  Spec => []FlightInv
<1>1. FlightInv /\ [Next]_vars => FlightInv'
  BY StepKeepsFlight
<1> QED
  BY <1>1, InitFlight, PTL DEF Spec

\* What TypeOK says of the reader's turn and of a spawn that raised.
SideTyped == looked \in BOOLEAN /\ broken \in {"unmade", "unstarted", None}

\* No step gives them another value.
LEMMA StepKeepsSide ==
    ASSUME SideTyped, [Next]_vars
    PROVE  SideTyped'
<1>1. ASSUME NEW c \in Clients, Call(c) \/ ClientStep(c) \/ GiveUpWaiting(c)
      PROVE  UNCHANGED side
  BY <1>1 DEF Call, ClientStep, Acquire, Exchange, TurnAway, Wake, GiveUpWaiting, Returned
<1>2. ASSUME NEW t \in Tasks, TaskStep(t)
      PROVE  SideTyped'
  <2>1. CASE Begin(t) \/ BackoffOver(t) \/ Spawn(t) \/ HelloReturned(t) \/ FatalReapDone(t)
             \/ ReprimeReturned(t)
    <3>1. UNCHANGED side
      BY <2>1 DEF Begin, BackoffOver, Spawn, HelloReturned, FatalReapDone, ReprimeReturned
    <3> QED
      BY <3>1 DEF SideTyped, side
  <2>2. CASE SpawnRaises(t)
    BY <2>2 DEF SpawnRaises, SideTyped
  <2> QED
    BY <1>2, <2>1, <2>2 DEF TaskStep
<1>3. CASE ThreadStep \/ HelloTimeout
  <2>1. CASE Send \/ Receive \/ NoticeLoss
    <3>1. UNCHANGED side
      BY <2>1 DEF Send, Receive, NoticeLoss
    <3> QED
      BY <3>1 DEF SideTyped, side
  <2>2. CASE Detach \/ Reap \/ SliceOver \/ LookAtChild \/ HelloTimeout
    BY <2>2 DEF Detach, Reap, SliceOver, LookAtChild, HelloTimeout, SideTyped
  <2> QED
    BY <1>3, <2>1, <2>2 DEF ThreadStep
<1>4. ASSUME NEW i \in DOMAIN children, ChildStep(i) \/ Crash(i)
      PROVE  UNCHANGED side
  BY <1>4 DEF ChildStep, Boot, RunCommand, Respond, Crash
<1>5. RestartQueues \/ RequestRestart \/ Aclose \/ AcloseReaps => UNCHANGED side
  BY DEF RestartQueues, RequestRestart, Aclose, AcloseReaps
<1>6. UNCHANGED side => SideTyped'
  BY DEF SideTyped, side
<1>7. UNCHANGED vars => UNCHANGED side
  BY DEF vars
<1> QED
  BY <1>1, <1>2, <1>3, <1>4, <1>5, <1>6, <1>7 DEF Next

\* The flight's variables have the types the code gives them.
THEOREM FlightTyped ==
    ASSUME ~RestartWhileStarting
    PROVE  Spec => []TypeOK
<1>1. FlightInv /\ SideTyped => TypeOK
  <2> SUFFICES ASSUME FlightInv, SideTyped PROVE TypeOK
    OBVIOUS
  <2>1. execQ \in Seq(ExecItem)
    BY ShapeTyped DEF FlightInv, ExecInv
  <2>2. lockQ \in Seq(Clients \cup {"restart"})
    <3>1. InLock \subseteq Clients \cup {"restart"} /\ lockQ \in Seq(InLock)
      BY DEF FlightInv, LockInv, Lists, InLock
    <3> QED
      BY <3>1, SeqMonotonic
  <2>3. ClientAwaits \cup TaskAwaits =
           {"idle", "off", "created", "lock", "waiting", "woken", "exchange",
            "backoff", "reap", "hello", "reprime", "fatalReap", "done"}
    BY DEF ClientAwaits, TaskAwaits
  <2>4. doomed \in 0..Len(children)
    BY PipesFacts DEF FlightInv, Dying
  <2> QED
    BY <2>1, <2>2, <2>3, <2>4 DEF FlightInv, FrontTyped, PipesTyped, CallersTyped, SideTyped, TypeOK
<1>2. Init => SideTyped
  BY DEF Init, SideTyped
<1>3. SideTyped /\ [Next]_vars => SideTyped'
  BY StepKeepsSide
<1> QED
  BY <1>1, <1>2, <1>3, FlightInvariant, PTL DEF Spec

\* Whatever crashes, hangs, cannot be spawned or is restarted, one child at most lives:
\* the flight's own, or the one its _reap is putting down.
THEOREM NoChildIsOrphaned ==
    ASSUME ~RestartWhileStarting
    PROVE  Spec => []NoOrphan
<1>1. FlightInv => NoOrphan
  <2> SUFFICES ASSUME FlightInv, NEW i \in DOMAIN children, children[i].life # "dead"
               PROVE  i = IF doomed = 0 THEN proc ELSE doomed
    BY DEF NoOrphan
  <2>1. i \in {proc, doomed} /\ i # 0 /\ (proc # 0 => i = proc)
    BY OwnChild
  <2>2. doomed # 0 => proc = 0
    BY DEF FlightInv, Dying
  <2> QED
    BY <2>1, <2>2
<1> QED
  BY <1>1, FlightInvariant, PTL

\* A reader finds its own reply in the pipe or none, though a child may answer and die
\* between its reader's two looks; the reply it then leaves there is read by nobody.
THEOREM RepliesFindTheirReader ==
    ASSUME ~RestartWhileStarting
    PROVE  Spec => []OneConversation
<1>1. FlightInv => OneConversation
  <2> DEFINE mine(i) == {n \in DOMAIN execQ : execQ[n].kind # "reap" /\ execQ[n].child = i}
  <2> SUFFICES ASSUME FlightInv, NEW i \in DOMAIN children,
                      children[i].outbox # None, children[i].outbox.kind = "reply"
               PROVE  /\ \A n \in mine(i) : execQ[n].by = children[i].outbox.to
                      /\ mine(i) = {} /\ state # "STOPPING" => children[i].life = "dead"
                      /\ mine(i) = {} /\ state = "READY" =>
                            result[children[i].outbox.to] = Lost
    BY DEF OneConversation
  <2> DEFINE said == children[i].outbox
  <2>1. \A n \in mine(i) : n = 1 /\ execQ # <<>> /\ Head1.kind # "reap" /\ Head1.child = i
    <3>1. ReapFor("restart").kind = "reap" /\ ReapFor("startup").kind = "reap"
      BY DEF ReapFor
    <3> QED
      BY <3>1, ExecFacts DEF FlightInv, ExecInv, Head1
  <2>2. \A n \in mine(i) : execQ[n].by = said.to
    <3>1. ASSUME NEW n \in mine(i) PROVE Head1.by = said.to
      <4>1. Head1.kind \in {"hello", "exchange"} /\ execQ # <<>> /\ Head1.child = i
        BY <2>1, <3>1, HeadChild
      <4>2. Head1.kind # "hello"
        BY <4>1, MessageFacts DEF FlightInv, HeadInv
      <4> QED
        BY <4>1, <4>2 DEF FlightInv, HeadInv, ExchangeInv
    <3> QED
      BY <2>1, <3>1 DEF Head1
  <2>3. mine(i) = {} => ~Asked(i, said.to)
    <3>1. Asked(i, said.to) => 1 \in mine(i)
      BY ExecFacts DEF Asked, Head1, FlightInv, ExecInv
    <3> QED
      BY <3>1
  <2>4. mine(i) = {} /\ state # "STOPPING" => children[i].life = "dead"
    BY <2>3 DEF FlightInv, PipeInv
  <2>5. mine(i) = {} /\ state = "READY" => result[said.to] = Lost
    <3>1. state = "READY" => doomed = 0
      BY NotUpWhileReaping DEF FlightInv, Dying
    <3>2. state = "READY" => i = proc /\ Unread(proc)
      BY <3>1, PipesFacts DEF FlightInv, Buried, Greeted, Up
    <3> QED
      BY <2>3, <3>2 DEF Unread
  <2> QED
    BY <2>2, <2>4, <2>5
<1> QED
  BY <1>1, FlightInvariant, PTL

\* A closed flight has left no child alive but one that the executor's thread, whose
\* reap the close did not wait for, is putting down.
THEOREM ClosingLeavesNoStray ==
    ASSUME ~RestartWhileStarting
    PROVE  Spec => []ClosedLeavesNoStray
<1>1. FlightInv => ClosedLeavesNoStray
  <2> SUFFICES ASSUME FlightInv, closed, NEW i \in DOMAIN children, children[i].life # "dead"
               PROVE  i = doomed /\ execQ # <<>> /\ Head1.kind = "reap"
    BY DEF ClosedLeavesNoStray
  <2>1. proc = 0 /\ i \in {proc, doomed} /\ i # 0
    BY OwnChild DEF FlightInv, ProcOpen
  <2> QED
    BY <2>1 DEF FlightInv, Dying
<1> QED
  BY <1>1, FlightInvariant, PTL

-----------------------------------------------------------------------------
(* What a step may not do, and what a flight promises.                      *)

\* Only the operator and the close take a flight out of DEGRADED.
LEMMA DegradedStays ==
    ASSUME FlightInv, [Next]_vars, state = "DEGRADED", state' # "DEGRADED"
    PROVE  state' = "STOPPING" \/ (state' = "RESTARTING" /\ faults' > faults)
<1>1. /\ pc["restart"] \in {"off", "fatalReap"} /\ pc["startup"] \in {"off", "fatalReap"}
      /\ \A c \in Clients : pc[c] # "exchange"
  BY DEF FlightInv, Stages
<1>2. \A t \in Tasks : pc[t] \in {"off", "fatalReap"}
  BY <1>1 DEF Tasks
<1>3. ASSUME NEW c \in Clients, Call(c) \/ ClientStep(c) \/ GiveUpWaiting(c)
      PROVE  state' = state
  BY <1>1, <1>3 DEF Call, ClientStep, Acquire, Exchange, TurnAway, Wake, GiveUpWaiting,
                    Returned, front, side
<1>4. ASSUME NEW t \in Tasks, TaskStep(t)
      PROVE  state' = state
  BY <1>1, <1>2, <1>4 DEF TaskStep, Begin, BackoffOver, Spawn, SpawnRaises, HelloReturned,
                          ReprimeReturned, FatalReapDone, front, side
<1>5. RestartQueues \/ ThreadStep \/ HelloTimeout \/ AcloseReaps => state' = state
  BY DEF RestartQueues, ThreadStep, Detach, Reap, Send, Receive, NoticeLoss, SliceOver,
         LookAtChild, HelloTimeout, AcloseReaps, front, side
<1>6. ASSUME NEW i \in DOMAIN children, ChildStep(i) \/ Crash(i)
      PROVE  state' = state
  BY <1>6 DEF ChildStep, Boot, RunCommand, Respond, Crash, front, side
<1>7. CASE RequestRestart
  BY <1>7, FlightAssumption DEF FlightAssumption, RequestRestart, StartRestart, FlightInv,
                                FrontTyped
<1>8. CASE Aclose
  BY <1>8 DEF Aclose
<1>9. CASE UNCHANGED vars
  BY <1>9 DEF vars, front, side
<1> QED
  BY <1>3, <1>4, <1>5, <1>6, <1>7, <1>8, <1>9 DEF Next

\* A flight that has been given up stays so until the operator restarts it or the
\* front-end closes it (_bring_up, request_restart).
THEOREM GivenUpStaysGivenUp ==
    ASSUME ~RestartWhileStarting
    PROVE  Spec => DegradedIsTerminal
<1>1. FlightInv /\ [Next]_vars =>
         [state = "DEGRADED" /\ state' # "DEGRADED" =>
             state' = "STOPPING" \/ (state' = "RESTARTING" /\ faults' > faults)]_vars
  BY DegradedStays
<1> QED
  BY <1>1, FlightInvariant, PTL DEF Spec, DegradedIsTerminal

\* Where a client's command stands, in the abstract view's words.
LEMMA CallOfStanding ==
    ASSUME FlightInv, NEW c \in Clients
    PROVE  /\ callOf[c] = "idle" <=> pc[c] = "idle"
           /\ callOf[c] = "pending" <=> pc[c] \notin {"idle", "done"}
           /\ callOf[c] = "lost" <=> pc[c] = "done" /\ answer[c] = Lost
           /\ callOf[c] \in {"idle", "pending", "lost", "unavailable", "replied"}
<1>1. Standing(c)
  BY DEF FlightInv, RunsInv
<1>2. callOf[c] = IF pc[c] = "idle" THEN "idle"
                  ELSE IF answer[c] = None THEN "pending"
                  ELSE IF answer[c].kind # "reply" THEN answer[c].kind
                  ELSE IF answer[c].to = c THEN "replied" ELSE "crossed"
  BY DEF callOf
<1>3. /\ Lost.kind = "lost" /\ Unavailable.kind = "unavailable"
      /\ Lost # None /\ Unavailable # None
      /\ \A ok : Reply(c, ok).kind = "reply" /\ Reply(c, ok).to = c
  BY MessageFacts DEF Reply
<1> QED
  BY <1>1, <1>2, <1>3 DEF Standing

\* The view changes for nobody but one client.
LEMMA ViewMoves ==
    ASSUME FlightInv, NEW c \in Clients, NEW to,
           \A d \in Clients : d # c => pc'[d] = pc[d] /\ answer'[d] = answer[d],
           callOf'[c] = to
    PROVE  callOf' = [callOf EXCEPT ![c] = to]
<1>1. /\ callOf' = [d \in Clients |-> callOf'[d]]
      /\ callOf = [d \in Clients |-> callOf[d]]
      /\ \A d \in Clients : d # c => callOf'[d] = callOf[d]
  BY DEF callOf
<1> QED
  BY <1>1

\* The view changes for nobody.
LEMMA ViewKept ==
    ASSUME \A d \in Clients : answer'[d] = answer[d] /\ (pc'[d] = "idle" <=> pc[d] = "idle")
    PROVE  callOf' = callOf
<1> QED
  BY DEF callOf

\* A step that neither answers a client nor runs a command, and lets none call, is
\* a stutter of the abstract view.
LEMMA StutterInView ==
    ASSUME answer' = answer, runs' = runs,
           \A d \in Clients : pc'[d] = pc[d] \/ (pc[d] # "idle" /\ pc'[d] # "idle")
    PROVE  UNCHANGED Abstract!vars
<1>1. callOf' = callOf
  BY ViewKept
<1> QED
  BY <1>1 DEF Abstract!vars

\* A request that is turned away is refused, and its command has not run.
LEMMA TurnAwayRefuses ==
    ASSUME FlightInv, NEW c \in Clients, pc[c] \in {"lock", "waiting", "woken"},
           pc' = [pc EXCEPT ![c] = "done"], answer' = [answer EXCEPT ![c] = Unavailable],
           runs' = runs
    PROVE  Abstract!Refuse(c)
<1>1. /\ \A d \in Clients : d # c => pc'[d] = pc[d] /\ answer'[d] = answer[d]
      /\ pc'[c] = "done" /\ answer'[c] = Unavailable
  BY CallerFacts DEF FlightInv, CallersTyped
<1>2. callOf'[c] = "unavailable"
  <2>1. Unavailable # None /\ Unavailable.kind = "unavailable"
    BY MessageFacts
  <2> QED
    BY <1>1, <2>1 DEF callOf
<1>3. callOf' = [callOf EXCEPT ![c] = "unavailable"]
  BY <1>1, <1>2, ViewMoves
<1>4. callOf[c] = "pending" /\ runs[c] = 0
  <2>1. Standing(c)
    BY DEF FlightInv, RunsInv
  <2> QED
    BY <2>1, CallOfStanding DEF Standing
<1> QED
  BY <1>3, <1>4 DEF Abstract!Refuse, Abstract!Move

\* What a client does is a step of its own command, or none.
LEMMA ClientRefines ==
    ASSUME FlightInv, NEW c \in Clients, Call(c) \/ ClientStep(c) \/ GiveUpWaiting(c)
    PROVE  \/ Abstract!Submit(c) \/ Abstract!Answer(c) \/ Abstract!Lose(c) \/ Abstract!Refuse(c)
           \/ UNCHANGED Abstract!vars
<1>0. /\ c \in Callers /\ c # "restart" /\ Clients \subseteq Callers /\ "restart" \notin Clients
      /\ pc \in [Callers -> ClientAwaits \cup TaskAwaits] /\ DOMAIN answer = Clients
      /\ Standing(c)
  BY CallerFacts DEF FlightInv, CallersTyped, RunsInv
<1>1. CASE Call(c)
  <2>1. /\ pc[c] = "idle" /\ pc' = [pc EXCEPT ![c] = "lock"] /\ answer' = answer /\ runs' = runs
    BY <1>1 DEF Call
  <2>2. \A d \in Clients : d # c => pc'[d] = pc[d] /\ answer'[d] = answer[d]
    BY <1>0, <2>1
  <2>3. pc'[c] = "lock" /\ answer'[c] = None
    BY <1>0, <2>1 DEF Standing
  <2>4. callOf'[c] = "pending"
    BY <2>3 DEF callOf
  <2>5. callOf' = [callOf EXCEPT ![c] = "pending"]
    BY <2>2, <2>4, ViewMoves
  <2>6. callOf[c] = "idle"
    BY <2>1, CallOfStanding
  <2> QED
    BY <2>1, <2>5, <2>6 DEF Abstract!Submit, Abstract!Move
<1>2. CASE /\ pc[c] \in {"lock", "waiting", "woken"}
           /\ pc' = [pc EXCEPT ![c] = "done"] /\ answer' = [answer EXCEPT ![c] = Unavailable]
           /\ runs' = runs
  BY <1>2, TurnAwayRefuses
<1>3. CASE /\ pc[c] \in {"lock", "woken"} /\ answer' = answer /\ runs' = runs
           /\ \E w \in {"exchange", "waiting"} : pc' = [pc EXCEPT ![c] = w]
  BY <1>0, <1>3, StutterInView
<1>4. CASE Returned(c)
  <2>1. /\ pc[c] = "exchange" /\ result[c] # None /\ runs' = runs
        /\ answer' = [answer EXCEPT ![c] = result[c]]
        /\ LET at == [pc EXCEPT ![c] = "done"]
           IN  pc' = at \/ pc' = [at EXCEPT !["restart"] = "created"]
    BY <1>4 DEF Returned, Return, StartRestart
  <2>2. /\ \A d \in Clients : d # c => pc'[d] = pc[d] /\ answer'[d] = answer[d]
        /\ pc'[c] = "done" /\ answer'[c] = result[c]
    BY <1>0, <2>1
  <2>3. callOf[c] = "pending"
    BY <2>1, CallOfStanding
  <2>4. result[c] = Lost \/ (result[c] = Reply(c, result[c].ok) /\ runs[c] = 1)
    BY <2>1 DEF FlightInv, ResultsFit
  <2>5. CASE result[c] = Lost
    <3>1. callOf'[c] = "lost"
      <4>1. Lost # None /\ Lost.kind = "lost"
        BY MessageFacts
      <4> QED
        BY <2>2, <2>5, <4>1 DEF callOf
    <3>2. callOf' = [callOf EXCEPT ![c] = "lost"]
      BY <2>2, <3>1, ViewMoves
    <3> QED
      BY <2>1, <2>3, <3>2 DEF Abstract!Lose, Abstract!Move
  <2>6. CASE result[c] = Reply(c, result[c].ok) /\ runs[c] = 1
    <3>1. callOf'[c] = "replied"
      <4>1. result[c].kind = "reply" /\ result[c].to = c
        BY <2>6 DEF Reply
      <4> QED
        BY <2>1, <2>2, <4>1 DEF callOf
    <3>2. callOf' = [callOf EXCEPT ![c] = "replied"]
      BY <2>2, <3>1, ViewMoves
    <3> QED
      BY <2>1, <2>3, <2>6, <3>2 DEF Abstract!Answer, Abstract!Move
  <2> QED
    BY <2>4, <2>5, <2>6
<1> QED
  BY <1>1, <1>2, <1>3, <1>4 DEF ClientStep, Acquire, Wake, GiveUpWaiting, Exchange, TurnAway,
                                Return

\* A child that runs a client's command runs it the first time.
LEMMA RunRefines ==
    ASSUME FlightInv, NEW i \in DOMAIN children, RunCommand(i)
    PROVE  \/ \E c \in Clients : Abstract!Run(c)
           \/ UNCHANGED Abstract!vars
<1> DEFINE by == children[i].inbox.by
<1>1. /\ children[i].life = "serving" /\ children[i].inbox # None /\ UNCHANGED <<pc, answer>>
      /\ runs' = IF by \in Clients THEN [runs EXCEPT ![by] = @ + 1] ELSE runs
  BY DEF RunCommand
<1>2. CASE by \notin Clients
  BY <1>1, <1>2, StutterInView
<1>3. CASE by \in Clients
  <2>1. /\ runs[by] = 0
        /\ \/ pc[by] = "exchange"
           \/ pc[by] = "done" /\ answer[by] = Lost
    BY <1>1, <1>3 DEF FlightInv, RunsInv, InPipes
  <2> HIDE DEF by
  <2>2. callOf[by] \in {"pending", "lost"}
    BY <1>3, <2>1, CallOfStanding
  <2>3. runs' = [runs EXCEPT ![by] = 1]
    BY <1>1, <1>3, <2>1
  <2>4. callOf' = callOf
    BY <1>1, ViewKept
  <2> QED
    BY <1>3, <2>1, <2>2, <2>3, <2>4 DEF Abstract!Run
<1> QED
  BY <1>2, <1>3

\* A bring-up task answers nobody: at most it wakes those who wait for it.
LEMMA TaskRefines ==
    ASSUME FlightInv, NEW t \in Tasks, TaskStep(t)
    PROVE  UNCHANGED Abstract!vars
<1>1. /\ t \in Callers /\ t \notin Clients /\ Clients \subseteq Callers
      /\ pc \in [Callers -> ClientAwaits \cup TaskAwaits]
  BY CallerFacts DEF FlightInv, CallersTyped, Tasks
<1>2. answer' = answer /\ runs' = runs
  BY DEF TaskStep, Begin, BackoffOver, Spawn, SpawnRaises, HelloReturned, ReprimeReturned,
         FatalReapDone
<1>3. \E w : pc' = [pc EXCEPT ![t] = w] \/ pc' = SetReady([pc EXCEPT ![t] = w])
  BY DEF TaskStep, Begin, BackoffOver, Spawn, SpawnRaises, HelloReturned, ReprimeReturned,
         FatalReapDone, Turn, HelloCame, BecomeReady
<1>4. \A d \in Clients : pc'[d] = pc[d] \/ (pc[d] # "idle" /\ pc'[d] # "idle")
  BY <1>1, <1>3 DEF SetReady
<1> QED
  BY <1>2, <1>4, StutterInView

\* Every step of the flight is one of the abstract specification, or changes
\* nothing it speaks of.
LEMMA StepRefines ==
    ASSUME FlightInv, [Next]_vars
    PROVE  [Abstract!Next]_Abstract!vars
<1>0. /\ Clients \subseteq Callers /\ "restart" \notin Clients /\ "startup" \notin Clients
      /\ pc \in [Callers -> ClientAwaits \cup TaskAwaits]
  BY CallerFacts DEF FlightInv, CallersTyped
<1>1. ASSUME NEW c \in Clients, Call(c) \/ ClientStep(c) \/ GiveUpWaiting(c)
      PROVE  [Abstract!Next]_Abstract!vars
  BY <1>1, ClientRefines DEF Abstract!Next
<1>2. ASSUME NEW t \in Tasks, TaskStep(t)
      PROVE  [Abstract!Next]_Abstract!vars
  BY <1>2, TaskRefines
<1>3. CASE RestartQueues
  <2>1. answer' = answer /\ runs' = runs /\ pc' = [pc EXCEPT !["restart"] = "lock"]
    BY <1>3 DEF RestartQueues
  <2> QED
    BY <1>0, <2>1, StutterInView
<1>4. CASE ThreadStep \/ HelloTimeout \/ AcloseReaps
  <2>1. answer' = answer /\ runs' = runs /\ pc' = pc
    BY <1>4 DEF ThreadStep, Detach, Reap, Send, Receive, NoticeLoss, SliceOver, LookAtChild,
                HelloTimeout, AcloseReaps
  <2> QED
    BY <2>1, StutterInView
<1>5. ASSUME NEW i \in DOMAIN children, ChildStep(i) \/ Crash(i)
      PROVE  [Abstract!Next]_Abstract!vars
  <2>1. CASE RunCommand(i)
    BY <2>1, RunRefines DEF Abstract!Next
  <2>2. CASE Boot(i) \/ Respond(i) \/ Crash(i)
    <3>1. answer' = answer /\ runs' = runs /\ pc' = pc
      BY <2>2 DEF Boot, Respond, Crash
    <3> QED
      BY <3>1, StutterInView
  <2> QED
    BY <1>5, <2>1, <2>2 DEF ChildStep
<1>6. CASE RequestRestart
  <2>1. /\ answer' = answer /\ runs' = runs
        /\ pc' = pc \/ pc' = [pc EXCEPT !["restart"] = "created"]
    BY <1>6 DEF RequestRestart, StartRestart
  <2> QED
    BY <1>0, <2>1, StutterInView
<1>7. CASE Aclose
  <2> DEFINE at == [pc EXCEPT !["startup"] = "off", !["restart"] = "off"]
  <2>1. answer' = answer /\ runs' = runs /\ pc' = SetReady(at)
    BY <1>7 DEF Aclose
  <2>2. \A d \in Clients : at[d] = pc[d]
    BY <1>0
  <2> HIDE DEF at
  <2>3. \A d \in Clients : pc'[d] = pc[d] \/ (pc[d] # "idle" /\ pc'[d] # "idle")
    BY <1>0, <2>1, <2>2 DEF SetReady
  <2> QED
    BY <2>1, <2>3, StutterInView
<1>8. CASE UNCHANGED vars
  <2>1. answer' = answer /\ runs' = runs /\ pc' = pc
    BY <1>8 DEF vars
  <2> QED
    BY <2>1, StutterInView
<1> QED
  BY <1>1, <1>2, <1>3, <1>4, <1>5, <1>6, <1>7, <1>8 DEF Next

\* A flight implements CommandOnce, whatever becomes of its children: the command
\* runs at most once, its reply is its own, and one that was refused never ran.
THEOREM FlightImplementsCommandOnce ==
    ASSUME ~RestartWhileStarting
    PROVE  Spec => CommandsRunOnce
<1>1. Init => Abstract!Init
  <2> SUFFICES ASSUME Init PROVE Abstract!Init
    OBVIOUS
  <2>1. \A c \in Clients : pc[c] = "idle"
    BY CallerFacts DEF Init
  <2> QED
    BY <2>1 DEF Init, Abstract!Init, callOf
<1>2. FlightInv /\ [Next]_vars => [Abstract!Next]_Abstract!vars
  BY StepRefines
<1> QED
  BY <1>1, <1>2, FlightInvariant, PTL DEF Spec, CommandsRunOnce, Abstract!Spec
=============================================================================
