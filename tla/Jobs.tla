-------------------------------- MODULE Jobs --------------------------------
(***************************************************************************)
(* Jobs and the requests that move them: /prepare, /push, /ingest and        *)
(* /submit of server.py, the pool that routes a job to a flight, and the two *)
(* locks of each flight they meet on, push_lock around the shared block and  *)
(* _lock around the command.  A flight is what CommandOnce says it is: a     *)
(* command comes back with a reply, lost, or refused.                       *)
(*                                                                         *)
(* One request is one coroutine, and one action is its way from one await to *)
(* the next.  Which flight the pool selects is left open.                    *)
(***************************************************************************)
EXTENDS Naturals, Sequences

CONSTANTS
    Flights,
    JobIds,
    Visits,
    Requests,   \* one-shot HTTP requests
    KindOf,     \* request -> "prepare", "push", "ingest" or "submit"
    JobOf,      \* request -> the job it delivers to, or the id it will create
    VisitOf,    \* submit -> the visit its directory resolves to
    Resubmits,  \* submits sent with resubmit
    MaxLosses,  \* bound on the losses of each flight
    None

ASSUME JobsAssumption ==
    /\ \A r \in Requests : /\ KindOf[r] \in {"prepare", "push", "ingest", "submit"}
                           /\ JobOf[r] \in JobIds
                           /\ KindOf[r] = "submit" => VisitOf[r] \in Visits
    /\ \A r \in Resubmits : KindOf[r] = "submit"
    \* a job id is a fresh uuid
    /\ \A r, s \in Requests : /\ {KindOf[r], KindOf[s]} \subseteq {"prepare", "submit"}
                              /\ JobOf[r] = JobOf[s]
                              => r = s
    /\ MaxLosses \in Nat
    /\ None \notin Flights \cup JobIds \cup Requests \cup Nat

VARIABLES
    JOBS,       \* job -> the state of its record, or "absent"
    byJob,      \* _by_job: job -> the flight it is routed to, or None
    SUBMITTED,  \* visit -> the job /submit accepted for it, or None
    pushLock,   \* flight -> its push_lock: the holder, then the waiters
    lock,       \* flight -> its _lock, the same way
    block,      \* flight -> whose bytes its shared block holds, and if all
    at,         \* request -> the flight it is using, or None
    pc,         \* request -> the await it is parked at
    reply,      \* request -> its HTTP status, or None
    losses      \* flight -> how often its child was lost

locks == <<pushLock, lock>>
requests == <<at, pc, reply>>
vars == <<JOBS, byJob, SUBMITTED, locks, block, requests, losses>>

-----------------------------------------------------------------------------
(* Pieces of the handlers.                                                 *)

InProgress(state) == state \in {"RECEIVING", "COMPUTING"}

SetState(j, state) == JOBS' = [JOBS EXCEPT ![j] = state]

Park(r, f, where) ==
    /\ at' = [at EXCEPT ![r] = f]
    /\ pc' = [pc EXCEPT ![r] = where]
    /\ UNCHANGED reply

Respond(r, status) ==
    /\ at' = [at EXCEPT ![r] = None]
    /\ pc' = [pc EXCEPT ![r] = "done"]
    /\ reply' = [reply EXCEPT ![r] = status]

Enqueue(locksOf, f, r) == [locksOf EXCEPT ![f] = Append(@, r)]

Release(locksOf, f) == [locksOf EXCEPT ![f] = Tail(@)]

Unlocked(r) == IF KindOf[r] = "push" THEN Release(pushLock, at[r]) ELSE pushLock

\* Broken: a lane's crash fails every lane's jobs.
FailAllJobs(f, own) ==
    [j \in JobIds |-> IF j = own \/ InProgress(JOBS[j]) THEN "ERROR" ELSE JOBS[j]]

\* Broken: a job that is over fails with the flight as well.
FailRoutedJobs(f, own) ==
    [j \in JobIds |-> IF j = own \/ (byJob[j] = f /\ JOBS[j] # "absent") THEN "ERROR" ELSE JOBS[j]]

\* _fail_jobs, together with the record its own request fails, if there is one.
FailJobs(f, own) ==
    [j \in JobIds |-> IF j = own \/ (byJob[j] = f /\ InProgress(JOBS[j]))
                      THEN "ERROR" ELSE JOBS[j]]

\* Broken: the push goes to whichever flight is least busy.
ForPushAnywhere(j, f) == UNCHANGED byJob

\* for_push: the flight that prepared the job, else one that is now its own.
ForPush(j, f) == IF byJob[j] = None THEN byJob' = [byJob EXCEPT ![j] = f]
                 ELSE f = byJob[j] /\ UNCHANGED byJob

-----------------------------------------------------------------------------
(* /prepare, and the prepare inside /submit.                                *)

\* select and route come before the command is sent.
SendPrepare(r, f, where) ==
    /\ byJob' = [byJob EXCEPT ![JobOf[r]] = f]
    /\ lock' = Enqueue(IF at[r] = None THEN lock ELSE Release(lock, at[r]), f, r)
    /\ Park(r, f, where)

PrepareArrives(r) ==
    /\ pc[r] = "idle"
    /\ KindOf[r] = "prepare"
    /\ \E f \in Flights : SendPrepare(r, f, "prepare")
    /\ UNCHANGED <<JOBS, SUBMITTED, pushLock, block, losses>>

PrepareReplied(r) ==
    /\ pc[r] = "prepare"
    /\ lock[at[r]][1] = r
    /\ \/ SetState(JobOf[r], "PREPARED") /\ Respond(r, 200)
       \/ SetState(JobOf[r], "ERROR") /\ Respond(r, 500)
    /\ lock' = Release(lock, at[r])
    /\ UNCHANGED <<byJob, SUBMITTED, pushLock, block, losses>>

-----------------------------------------------------------------------------
(* /push                                                                   *)

TurnedAway(r) ==
    /\ \/ JOBS[JobOf[r]] = "absent" /\ Respond(r, 404)
       \/ JOBS[JobOf[r]] \notin {"absent", "PREPARED"} /\ Respond(r, 409)
    /\ UNCHANGED <<JOBS, byJob, SUBMITTED, locks, block, losses>>

PushArrives(r) ==
    /\ pc[r] = "idle"
    /\ KindOf[r] = "push"
    /\ \/ TurnedAway(r)
       \/ /\ JOBS[JobOf[r]] = "PREPARED"
          /\ \E f \in Flights : /\ ForPush(JobOf[r], f)
                                /\ pushLock' = Enqueue(pushLock, f, r)
                                /\ Park(r, f, "pushLock")
          /\ UNCHANGED <<JOBS, SUBMITTED, lock, block, losses>>

\* Broken: the body is streamed into the block without waiting for push_lock.
PushHeaderUnlocked(r) ==
    /\ pc[r] = "pushLock"
    /\ block' = [block EXCEPT ![at[r]] = [of |-> r, whole |-> FALSE]]
    /\ SetState(JobOf[r], "RECEIVING")
    /\ Park(r, at[r], "receiving")
    /\ UNCHANGED <<byJob, SUBMITTED, locks, losses>>

\* The block is ours: the chunks up to the header, which may be refused.
PushHeader(r) ==
    /\ pc[r] = "pushLock"
    /\ pushLock[at[r]][1] = r
    /\ block' = [block EXCEPT ![at[r]] = [of |-> r, whole |-> FALSE]]
    /\ \/ /\ SetState(JobOf[r], "RECEIVING")
          /\ Park(r, at[r], "receiving")
          /\ UNCHANGED pushLock
       \/ /\ Respond(r, 400)
          /\ pushLock' = Release(pushLock, at[r])
          /\ UNCHANGED JOBS
    /\ UNCHANGED <<byJob, SUBMITTED, lock, losses>>

\* The rest of the body is in, and its layout makes sense.  The state is
\* assigned whatever it has become since.
PushBody(r) ==
    /\ pc[r] = "receiving"
    /\ block' = [block EXCEPT ![at[r]].whole = TRUE]
    /\ SetState(JobOf[r], "COMPUTING")
    /\ lock' = Enqueue(lock, at[r], r)
    /\ Park(r, at[r], "command")
    /\ UNCHANGED <<byJob, SUBMITTED, pushLock, losses>>

\* The layout does not make sense.
PushMalformed(r) ==
    /\ pc[r] = "receiving"
    /\ SetState(JobOf[r], "ERROR")
    /\ Respond(r, 400)
    /\ pushLock' = Release(pushLock, at[r])
    /\ UNCHANGED <<byJob, SUBMITTED, lock, block, losses>>

\* The body overruns the block, or the producer goes away: nothing catches it.
PushAborted(r) ==
    /\ pc[r] = "receiving"
    /\ Respond(r, 413)
    /\ pushLock' = Release(pushLock, at[r])
    /\ UNCHANGED <<JOBS, byJob, SUBMITTED, lock, block, losses>>

-----------------------------------------------------------------------------
(* /ingest, alone or as the end of /submit.                                 *)

IngestArrives(r) ==
    /\ pc[r] = "idle"
    /\ KindOf[r] = "ingest"
    /\ \/ TurnedAway(r)
       \/ /\ JOBS[JobOf[r]] = "PREPARED"
          /\ \E f \in Flights : /\ ForPush(JobOf[r], f)
                                /\ lock' = Enqueue(lock, f, r)
                                /\ Park(r, f, "command")
          /\ SetState(JobOf[r], "COMPUTING")
          /\ UNCHANGED <<SUBMITTED, pushLock, block, losses>>

-----------------------------------------------------------------------------
(* What send_command brings back to a push or an ingest.                    *)

\* Broken: only CoordinatorLost is caught.
RefusedUncaught(r) ==
    /\ pc[r] \in {"prepare", "resolve", "submitPrepare", "command"}
    /\ lock[at[r]][1] = r
    /\ Respond(r, 503)
    /\ lock' = Release(lock, at[r])
    /\ pushLock' = Unlocked(r)
    /\ UNCHANGED <<JOBS, byJob, SUBMITTED, block, losses>>

\* Broken: a refusal leaves the flight's lock held.
RefusedHolding(r) ==
    /\ pc[r] \in {"prepare", "resolve", "submitPrepare", "command"}
    /\ lock[at[r]][1] = r
    /\ IF pc[r] = "command" THEN SetState(JobOf[r], "ERROR") ELSE UNCHANGED JOBS
    /\ Respond(r, 503)
    /\ pushLock' = Unlocked(r)
    /\ UNCHANGED <<lock, byJob, SUBMITTED, block, losses>>

Replied(r) ==
    /\ pc[r] = "command"
    /\ lock[at[r]][1] = r
    /\ \/ SetState(JobOf[r], "DONE") /\ Respond(r, 200)
       \/ SetState(JobOf[r], "ERROR") /\ Respond(r, 500)
    /\ lock' = Release(lock, at[r])
    /\ pushLock' = Unlocked(r)
    /\ UNCHANGED <<byJob, SUBMITTED, block, losses>>

\* CoordinatorLost, in whichever command: _note_loss fails the jobs of the
\* flight, then the handler its own, if it has reached a record.
Lose(r) ==
    LET f == at[r]
        own == IF pc[r] = "command" THEN JobOf[r] ELSE None
    IN  /\ pc[r] \in {"prepare", "resolve", "submitPrepare", "command"}
        /\ lock[f][1] = r
        /\ losses[f] < MaxLosses
        /\ losses' = [losses EXCEPT ![f] = @ + 1]
        /\ JOBS' = FailJobs(f, own)
        /\ Respond(r, 503)
        /\ lock' = Release(lock, f)
        /\ pushLock' = Unlocked(r)
        /\ UNCHANGED <<byJob, SUBMITTED, block>>

\* CoordinatorUnavailable: the flight is restarting, degraded or stopping.
Refused(r) ==
    /\ pc[r] \in {"prepare", "resolve", "submitPrepare", "command"}
    /\ lock[at[r]][1] = r
    /\ IF pc[r] = "command" THEN SetState(JobOf[r], "ERROR") ELSE UNCHANGED JOBS
    /\ Respond(r, 503)
    /\ lock' = Release(lock, at[r])
    /\ pushLock' = Unlocked(r)
    /\ UNCHANGED <<byJob, SUBMITTED, block, losses>>

\* A loss no request was waiting on: a bring-up that failed, an operator.
LossWhileIdle(f) ==
    /\ losses[f] < MaxLosses
    /\ losses' = [losses EXCEPT ![f] = @ + 1]
    /\ JOBS' = FailJobs(f, None)
    /\ UNCHANGED <<byJob, SUBMITTED, locks, block, requests>>

-----------------------------------------------------------------------------
(* /submit: resolve, look the visit up, prepare, enter it, ingest.          *)

SubmitArrives(r) ==
    /\ pc[r] = "idle"
    /\ KindOf[r] = "submit"
    /\ \E f \in Flights : lock' = Enqueue(lock, f, r) /\ Park(r, f, "resolve")
    /\ UNCHANGED <<JOBS, byJob, SUBMITTED, pushLock, block, losses>>

\* The directory does not resolve, or is nothing to submit: a calibration frame,
\* a dry run.
ResolvedToNothing(r) ==
    /\ pc[r] = "resolve"
    /\ lock[at[r]][1] = r
    /\ Respond(r, 400) \/ Respond(r, 204)
    /\ lock' = Release(lock, at[r])
    /\ UNCHANGED <<JOBS, byJob, SUBMITTED, pushLock, block, losses>>

Resolved(r) ==
    /\ pc[r] = "resolve"
    /\ lock[at[r]][1] = r
    /\ \/ /\ SUBMITTED[VisitOf[r]] # None /\ r \notin Resubmits
          /\ Respond(r, 409)
          /\ lock' = Release(lock, at[r])
          /\ UNCHANGED byJob
       \/ /\ SUBMITTED[VisitOf[r]] = None \/ r \in Resubmits
          /\ \E f \in Flights : SendPrepare(r, f, "submitPrepare")
    /\ UNCHANGED <<JOBS, SUBMITTED, pushLock, block, losses>>

\* The prepare came back: the visit is entered and the ingest sent at once.
SubmitPrepared(r) ==
    /\ pc[r] = "submitPrepare"
    /\ lock[at[r]][1] = r
    /\ \/ /\ SetState(JobOf[r], "COMPUTING")
          /\ SUBMITTED' = [SUBMITTED EXCEPT ![VisitOf[r]] = JobOf[r]]
          /\ lock' = Enqueue(Release(lock, at[r]), at[r], r)
          /\ Park(r, at[r], "command")
       \/ /\ SetState(JobOf[r], "ERROR")
          /\ Respond(r, 500)
          /\ lock' = Release(lock, at[r])
          /\ UNCHANGED SUBMITTED
    /\ UNCHANGED <<byJob, pushLock, block, losses>>

-----------------------------------------------------------------------------
Init ==
    /\ JOBS = [j \in JobIds |-> "absent"]
    /\ byJob = [j \in JobIds |-> None]
    /\ SUBMITTED = [v \in Visits |-> None]
    /\ pushLock = [f \in Flights |-> <<>>]
    /\ lock = [f \in Flights |-> <<>>]
    /\ block = [f \in Flights |-> [of |-> None, whole |-> FALSE]]
    /\ at = [r \in Requests |-> None]
    /\ pc = [r \in Requests |-> "idle"]
    /\ reply = [r \in Requests |-> None]
    /\ losses = [f \in Flights |-> 0]

Arrives(r) == PrepareArrives(r) \/ PushArrives(r) \/ IngestArrives(r) \/ SubmitArrives(r)

\* The producer sends its body or goes away, and a flight answers its commands.
Continues(r) == \/ PushHeader(r) \/ PushBody(r) \/ PushMalformed(r) \/ PushAborted(r)
                \/ PrepareReplied(r) \/ Resolved(r) \/ ResolvedToNothing(r)
                \/ SubmitPrepared(r) \/ Replied(r) \/ Lose(r) \/ Refused(r)

Next == \/ \E r \in Requests : Arrives(r) \/ Continues(r)
        \/ \E f \in Flights : LossWhileIdle(f)

Spec == Init /\ [][Next]_vars

FairSpec == Spec /\ \A r \in Requests : WF_vars(Continues(r))

-----------------------------------------------------------------------------
(* Properties.                                                             *)

TypeOK ==
    /\ JOBS \in [JobIds -> {"absent", "PREPARED", "RECEIVING", "COMPUTING", "DONE", "ERROR"}]
    /\ byJob \in [JobIds -> Flights \cup {None}]
    /\ SUBMITTED \in [Visits -> JobIds \cup {None}]
    /\ pushLock \in [Flights -> Seq(Requests)]
    /\ lock \in [Flights -> Seq(Requests)]
    /\ block \in [Flights -> [of : Requests \cup {None}, whole : BOOLEAN]]
    /\ at \in [Requests -> Flights \cup {None}]
    /\ pc \in [Requests -> {"idle", "prepare", "resolve", "submitPrepare", "pushLock",
                            "receiving", "command", "done"}]
    /\ reply \in [Requests -> {200, 204, 400, 404, 409, 413, 500, 503, None}]
    /\ losses \in [Flights -> 0..MaxLosses]
    /\ \A r \in Requests : /\ at[r] = None <=> pc[r] \in {"idle", "done"}
                           /\ reply[r] = None <=> pc[r] # "done"

\* While a push's command is queued or running, the flight's block holds that
\* push's whole body: no other request on the flight has streamed into it since
\* (push_lock, held from the first chunk to the reply).
BlockIsTheJobs ==
    \A r \in Requests :
       KindOf[r] = "push" /\ pc[r] = "command" => block[at[r]] = [of |-> r, whole |-> TRUE]

\* A job is worked on by the flight it is routed to, whose child holds its
\* configuration, for as long as its record exists (route, for_push).
WorkedWhereRouted ==
    \A r \in Requests :
       pc[r] \in {"pushLock", "receiving", "command"} => byJob[JobOf[r]] = at[r]

\* No other request got past the PREPARED check for the job of r.
SoleDelivery(r) ==
    \A s \in Requests \ {r} :
       JobOf[s] = JobOf[r] /\ KindOf[s] # "prepare" =>
          pc[s] = "idle" \/ reply[s] \in {404, 409}

\* /status and /result agree with what the producer was told: a 200 is a DONE
\* job and a 500 or 503 a failed one, although the flight may have been lost, and
\* its jobs failed, at any moment in between (push, ingest, _fail_jobs).
RecordAgreesWithReply ==
    \A r \in Requests :
       KindOf[r] \in {"push", "ingest"} /\ SoleDelivery(r) =>
          /\ reply[r] = 200 => JOBS[JobOf[r]] = "DONE"
          /\ reply[r] \in {500, 503} => JOBS[JobOf[r]] = "ERROR"

\* A job fails without its own request being answered only when the flight it is
\* routed to is lost in that very step: never by another lane's crash (_fail_jobs).
LossStaysOnItsFlight ==
    [][\A j \in JobIds :
          JOBS'[j] = "ERROR" /\ JOBS[j] # "ERROR" =>
             \/ \E r \in Requests : JobOf[r] = j /\ reply[r] = None /\ reply'[r] # None
             \/ byJob[j] # None /\ losses'[byJob[j]] > losses[byJob[j]]]_vars

\* Every request that got in is answered: the two locks never wait on each
\* other, and none is kept by a request that failed (push, send_command).
RequestsAnswered == \A r \in Requests : pc[r] # "idle" ~> pc[r] = "done"

\* A job that is being computed ends, in a result or in an error, so a long poll
\* of /result ends too.
ComputingResolves ==
    \A j \in JobIds : JOBS[j] = "COMPUTING" ~> JOBS[j] \in {"DONE", "ERROR"}

\* A camera hook that fires twice for a visit submits it once (SUBMITTED), unless
\* it says resubmit.
SubmitsOnce ==
    \A r, s \in Requests \ Resubmits :
       /\ r # s
       /\ KindOf[r] = "submit" /\ KindOf[s] = "submit" /\ VisitOf[r] = VisitOf[s]
       => ~(JOBS[JobOf[r]] \in {"COMPUTING", "DONE"} /\ JOBS[JobOf[s]] \in {"COMPUTING", "DONE"})
=============================================================================
