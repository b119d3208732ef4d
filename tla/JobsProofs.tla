----------------------------- MODULE JobsProofs -----------------------------
(***************************************************************************)
(* Proofs about Jobs, for any flights, jobs, visits and requests and any     *)
(* number of losses.                                                        *)
(***************************************************************************)
EXTENDS Jobs, DataLemmas, TLAPS

\* TypeOK in three parts: what the records, the locks and the requests are.
RecordsTyped ==
    /\ JOBS \in [JobIds -> {"absent", "PREPARED", "RECEIVING", "COMPUTING", "DONE", "ERROR"}]
    /\ byJob \in [JobIds -> Flights \cup {None}]
    /\ SUBMITTED \in [Visits -> JobIds \cup {None}]
    /\ losses \in [Flights -> 0..MaxLosses]

LocksTyped ==
    /\ pushLock \in [Flights -> Seq(Requests)]
    /\ lock \in [Flights -> Seq(Requests)]
    /\ block \in [Flights -> [of : Requests \cup {None}, whole : BOOLEAN]]

Awaits == {"prepare", "resolve", "submitPrepare", "pushLock", "receiving", "command"}

Statuses == {200, 204, 400, 404, 409, 413, 500, 503}

RequestsTyped ==
    /\ at \in [Requests -> Flights \cup {None}]
    /\ pc \in [Requests -> Awaits \cup {"idle", "done"}]
    /\ reply \in [Requests -> Statuses \cup {None}]
    /\ \A r \in Requests : /\ at[r] = None <=> pc[r] \in {"idle", "done"}
                           /\ reply[r] = None <=> pc[r] # "done"

\* The awaits in which a request stands in a flight's _lock, and those in which a
\* push stands in its push_lock.
Commanding == {"prepare", "resolve", "submitPrepare", "command"}
Delivering == {"pushLock", "receiving", "command"}

InLock == [f \in Flights |-> {r \in Requests : at[r] = f /\ pc[r] \in Commanding}]

InPushLock == [f \in Flights |-> {r \in Requests : /\ KindOf[r] = "push" /\ at[r] = f
                                                   /\ pc[r] \in Delivering}]

LocksList == \A f \in Flights : /\ Lists(lock[f], InLock[f])
                                /\ Lists(pushLock[f], InPushLock[f])

\* A handler is at an await of its own.
OwnAwaits ==
    \A r \in Requests :
       /\ pc[r] \in {"pushLock", "receiving"} => KindOf[r] = "push"
       /\ pc[r] \in {"resolve", "submitPrepare"} => KindOf[r] = "submit"
       /\ pc[r] = "prepare" => KindOf[r] = "prepare"
       /\ pc[r] = "command" => KindOf[r] # "prepare"

\* A push that is past its header is the first in push_lock.
StreamsHoldPushLock ==
    \A r \in Requests :
       KindOf[r] = "push" /\ pc[r] \in {"receiving", "command"} => pushLock[at[r]][1] = r

\* A push that is streaming has begun the block.
StreamsBeganBlock == \A r \in Requests : pc[r] = "receiving" => block[at[r]].of = r

BlockKept == StreamsHoldPushLock /\ StreamsBeganBlock /\ BlockIsTheJobs

LockInv == LocksTyped /\ RequestsTyped /\ OwnAwaits /\ LocksList /\ BlockKept

\* A job is on its flight from its route on, the prepare inside a submit included.
Routed ==
    \A r \in Requests :
       pc[r] \in Delivering \cup {"submitPrepare"} => byJob[JobOf[r]] = at[r]

\* A record appears when its prepare is back, and not before.
RecordsComeLate ==
    \A r \in Requests :
       KindOf[r] \in {"prepare", "submit"} /\ pc[r] \in {"idle", "prepare", "resolve", "submitPrepare"}
          => JOBS[JobOf[r]] = "absent"

\* Whoever got as far as delivering has a record, and keeps it.
RecordsStay ==
    \A r \in Requests :
       \/ pc[r] \in Delivering
       \/ KindOf[r] \in {"push", "ingest"} /\ reply[r] \in {200, 500, 503}
       => JOBS[JobOf[r]] # "absent"

RecordInv == Routed /\ RecordsComeLate /\ RecordsStay /\ RecordAgreesWithReply

JobsInv == RecordsTyped /\ LockInv /\ RecordInv

-----------------------------------------------------------------------------
(* The locks: joining one, leaving one.                                    *)

\* A request joins the lock of one flight; the others' are as they were.
LEMMA JoinsLock ==
    ASSUME NEW q \in [Flights -> Seq(Requests)], NEW f \in Flights, NEW r \in Requests,
           NEW U, Lists(q[f], U), r \notin U
    PROVE  /\ Enqueue(q, f, r) \in [Flights -> Seq(Requests)]
           /\ \A g \in Flights : g # f => Enqueue(q, f, r)[g] = q[g]
           /\ Lists(Enqueue(q, f, r)[f], U \cup {r})
           /\ U # {} => Enqueue(q, f, r)[f][1] = q[f][1]
<1>1. Append(q[f], r) \in Seq(Requests)
  BY AppendProperties
<1>2. \A g \in Flights : Enqueue(q, f, r)[g] = IF g = f THEN Append(q[f], r) ELSE q[g]
  BY DEF Enqueue
<1>3. Enqueue(q, f, r) \in [Flights -> Seq(Requests)]
  BY <1>1 DEF Enqueue
<1> DEFINE p == q[f]
<1>4. Lists(p, U)
  OBVIOUS
<1>5. /\ Lists(Append(p, r), U \cup {r})
      /\ U # {} => Append(p, r)[1] = p[1]
  <2> HIDE DEF p
  <2> QED
    BY <1>4, QueueAppend
<1> QED
  BY <1>2, <1>3, <1>5

\* The holder of a flight's lock lets go of it; the others' are as they were.
LEMMA LeavesLock ==
    ASSUME NEW q \in [Flights -> Seq(Requests)], NEW f \in Flights,
           NEW U, Lists(q[f], U), NEW r \in U, q[f][1] = r
    PROVE  /\ Release(q, f) \in [Flights -> Seq(Requests)]
           /\ \A g \in Flights : g # f => Release(q, f)[g] = q[g]
           /\ Lists(Release(q, f)[f], U \ {r})
<1>1. /\ Lists(Tail(q[f]), U \ {r})
      /\ q[f] # <<>>
  BY QueueTail, QueueHead
<1>2. Tail(q[f]) \in Seq(Requests)
  BY <1>1, HeadTailProperties
<1>3. \A g \in Flights : Release(q, f)[g] = IF g = f THEN Tail(q[f]) ELSE q[g]
  BY DEF Release
<1>4. Release(q, f) \in [Flights -> Seq(Requests)]
  BY <1>2 DEF Release
<1> QED
  BY <1>1, <1>3, <1>4

-----------------------------------------------------------------------------
(* What a request leaves behind when it parks, and when it answers.         *)

\* What Park leaves: one request has moved, and stands where its await puts it.
Parked(r, f, where) ==
    /\ \A s \in Requests : /\ at'[s] = IF s = r THEN f ELSE at[s]
                           /\ pc'[s] = IF s = r THEN where ELSE pc[s]
                           /\ reply'[s] = reply[s]
    /\ \A g \in Flights :
          /\ InLock'[g] = IF g = f /\ where \in Commanding
                          THEN InLock[g] \cup {r} ELSE InLock[g] \ {r}
          /\ InPushLock'[g] = IF g = f /\ KindOf[r] = "push" /\ where \in Delivering
                              THEN InPushLock[g] \cup {r} ELSE InPushLock[g] \ {r}

\* What Respond leaves: one request is answered, and stands nowhere.
Responded(r, status) ==
    /\ \A s \in Requests : /\ at'[s] = IF s = r THEN None ELSE at[s]
                           /\ pc'[s] = IF s = r THEN "done" ELSE pc[s]
                           /\ reply'[s] = IF s = r THEN status ELSE reply[s]
    /\ \A g \in Flights : /\ InLock'[g] = InLock[g] \ {r}
                          /\ InPushLock'[g] = InPushLock[g] \ {r}

\* Park does what Parked says.
LEMMA Parks ==
    ASSUME RequestsTyped, NEW r \in Requests, NEW f \in Flights, NEW where \in Awaits,
           pc[r] # "done", Park(r, f, where)
    PROVE  RequestsTyped' /\ Parked(r, f, where)
<1>1. /\ \A s \in Requests : /\ at'[s] = IF s = r THEN f ELSE at[s]
                             /\ pc'[s] = IF s = r THEN where ELSE pc[s]
      /\ reply' = reply
      /\ at' \in [Requests -> Flights \cup {None}]
      /\ pc' \in [Requests -> Awaits \cup {"idle", "done"}]
  BY DEF RequestsTyped, Park
<1>2. RequestsTyped'
  BY <1>1, JobsAssumption DEF RequestsTyped, Awaits, JobsAssumption
<1>3. \A g \in Flights : InLock'[g] =
         IF g = f /\ where \in Commanding THEN InLock[g] \cup {r} ELSE InLock[g] \ {r}
  BY <1>1 DEF InLock
<1>4. \A g \in Flights : InPushLock'[g] =
         IF g = f /\ KindOf[r] = "push" /\ where \in Delivering
         THEN InPushLock[g] \cup {r} ELSE InPushLock[g] \ {r}
  BY <1>1 DEF InPushLock
<1> QED
  BY <1>1, <1>2, <1>3, <1>4 DEF Parked

\* Respond does what Responded says.
LEMMA Responds ==
    ASSUME RequestsTyped, NEW r \in Requests, NEW status \in Statuses, Respond(r, status)
    PROVE  RequestsTyped' /\ Responded(r, status)
<1>1. /\ \A s \in Requests : /\ at'[s] = IF s = r THEN None ELSE at[s]
                             /\ pc'[s] = IF s = r THEN "done" ELSE pc[s]
                             /\ reply'[s] = IF s = r THEN status ELSE reply[s]
      /\ at' \in [Requests -> Flights \cup {None}]
      /\ pc' \in [Requests -> Awaits \cup {"idle", "done"}]
      /\ reply' \in [Requests -> Statuses \cup {None}]
  BY DEF RequestsTyped, Respond
<1>2. status # None
  BY JobsAssumption DEF JobsAssumption, Statuses
<1>3. RequestsTyped'
  BY <1>1, <1>2 DEF RequestsTyped
<1>4. \A g \in Flights : InLock'[g] = InLock[g] \ {r}
  BY <1>1 DEF InLock, Commanding
<1>5. \A g \in Flights : InPushLock'[g] = InPushLock[g] \ {r}
  BY <1>1 DEF InPushLock, Delivering
<1> QED
  BY <1>1, <1>3, <1>4, <1>5 DEF Responded

-----------------------------------------------------------------------------
(* The lock invariant, for each way a step may move the locks.              *)

\* A handler that is not a push sends a command: it joins _lock.
LEMMA CommandJoins ==
    ASSUME LockInv, NEW r \in Requests, NEW f \in Flights, NEW where \in Commanding,
           KindOf[r] # "push",
           pc[r] = "idle",
           where \in {"resolve", "submitPrepare"} => KindOf[r] = "submit",
           where = "prepare" => KindOf[r] = "prepare",
           where = "command" => KindOf[r] # "prepare",
           Park(r, f, where), lock' = Enqueue(lock, f, r), UNCHANGED <<pushLock, block>>
    PROVE  LockInv'
<1>1. where \in Awaits /\ r \notin InLock[f] /\ RequestsTyped /\ pc[r] # "done"
  BY DEF Commanding, Awaits, InLock, InPushLock, LockInv
<1>2. RequestsTyped' /\ Parked(r, f, where)
  BY <1>1, Parks
<1>3. /\ InLock'[f] = InLock[f] \cup {r}
      /\ \A g \in Flights : g # f => InLock'[g] = InLock[g]
      /\ \A g \in Flights : InPushLock'[g] = InPushLock[g]
  BY <1>2 DEF Parked, InLock, InPushLock, Commanding
<1>4. lock \in [Flights -> Seq(Requests)] /\ \A g \in Flights : Lists(lock[g], InLock[g])
  BY DEF LockInv, LocksTyped, LocksList
<1>5. /\ lock' \in [Flights -> Seq(Requests)]
      /\ \A g \in Flights : g # f => lock'[g] = lock[g]
      /\ Lists(lock'[f], InLock[f] \cup {r})
  <2> HIDE DEF InLock
  <2> QED
    BY ZenonT(30), <1>1, <1>4, JoinsLock
<1>6. LocksTyped' /\ LocksList'
  BY <1>3, <1>4, <1>5 DEF LockInv, LocksTyped, LocksList
<1>7. OwnAwaits'
  BY <1>2 DEF LockInv, OwnAwaits, Commanding, Parked
<1>8. BlockKept'
  BY <1>2 DEF LockInv, BlockKept, StreamsHoldPushLock, StreamsBeganBlock, BlockIsTheJobs,
              Parked, Commanding
<1> QED
  BY <1>2, <1>6, <1>7, <1>8 DEF LockInv

\* The holder of _lock is answered, and a push lets go of push_lock with it.
LEMMA CommandLeaves ==
    ASSUME LockInv, NEW r \in Requests, NEW status \in Statuses,
           pc[r] \in Commanding, lock[at[r]][1] = r,
           Respond(r, status), lock' = Release(lock, at[r]), pushLock' = Unlocked(r),
           block' = block
    PROVE  LockInv'
<1> DEFINE f == at[r]
<1>1. f \in Flights /\ r \in InLock[f] /\ RequestsTyped
  BY JobsAssumption DEF LockInv, RequestsTyped, InLock, Commanding, JobsAssumption
<1>2. RequestsTyped' /\ Responded(r, status)
  BY <1>1, Responds
<1>3. \A g \in Flights : g # f => InLock'[g] = InLock[g] /\ InPushLock'[g] = InPushLock[g]
  BY <1>2 DEF Responded, InLock, InPushLock
<1>4. /\ lock \in [Flights -> Seq(Requests)] /\ \A g \in Flights : Lists(lock[g], InLock[g])
      /\ pushLock \in [Flights -> Seq(Requests)]
      /\ \A g \in Flights : Lists(pushLock[g], InPushLock[g])
  BY DEF LockInv, LocksTyped, LocksList
<1>5. /\ lock' \in [Flights -> Seq(Requests)]
      /\ \A g \in Flights : g # f => lock'[g] = lock[g]
      /\ Lists(lock'[f], InLock[f] \ {r})
  <2> HIDE DEF InLock, f
  <2>1. /\ f \in Flights /\ r \in InLock[f] /\ lock[f][1] = r
        /\ Lists(lock[f], InLock[f]) /\ lock \in [Flights -> Seq(Requests)]
    BY <1>1, <1>4 DEF f
  <2>2. /\ Release(lock, f) \in [Flights -> Seq(Requests)]
        /\ \A g \in Flights : g # f => Release(lock, f)[g] = lock[g]
        /\ Lists(Release(lock, f)[f], InLock[f] \ {r})
    BY ONLY ZenonT(30), <2>1, LeavesLock
  <2> QED
    BY <2>2 DEF f
<1>6. CASE KindOf[r] = "push"
  <2>1. r \in InPushLock[f] /\ pushLock[f][1] = r /\ pushLock' = Release(pushLock, f)
    BY <1>1, <1>6 DEF LockInv, OwnAwaits, BlockKept, StreamsHoldPushLock, InPushLock, Unlocked,
                      Commanding, Delivering
  <2>2. /\ pushLock' \in [Flights -> Seq(Requests)]
        /\ \A g \in Flights : g # f => pushLock'[g] = pushLock[g]
        /\ Lists(pushLock'[f], InPushLock[f] \ {r})
    <3> HIDE DEF InPushLock, f
    <3>1. /\ f \in Flights /\ r \in InPushLock[f] /\ pushLock[f][1] = r
          /\ Lists(pushLock[f], InPushLock[f]) /\ pushLock \in [Flights -> Seq(Requests)]
      BY <1>1, <1>4, <2>1
    <3>2. /\ Release(pushLock, f) \in [Flights -> Seq(Requests)]
          /\ \A g \in Flights : g # f => Release(pushLock, f)[g] = pushLock[g]
          /\ Lists(Release(pushLock, f)[f], InPushLock[f] \ {r})
      BY ONLY ZenonT(30), <3>1, LeavesLock
    <3> QED
      BY <2>1, <3>2
  <2>3. LocksTyped' /\ LocksList'
    BY ZenonT(30), <1>2, <1>3, <1>4, <1>5, <2>2 DEF LockInv, LocksTyped, LocksList, Responded
  <2>4. \A s \in Requests : KindOf[s] = "push" /\ pc'[s] \in {"receiving", "command"}
                            => at'[s] = at[s] /\ at[s] \in Flights /\ at[s] # f
    BY <1>2, <2>1, JobsAssumption DEF Responded, LockInv, BlockKept, StreamsHoldPushLock,
                                      RequestsTyped, JobsAssumption
  <2>5. BlockKept'
    BY <1>2, <2>2, <2>4 DEF LockInv, BlockKept, StreamsHoldPushLock, StreamsBeganBlock,
                            BlockIsTheJobs, Responded, OwnAwaits
  <2>6. OwnAwaits'
    BY <1>2 DEF LockInv, OwnAwaits, Responded
  <2> QED
    BY <1>2, <2>3, <2>5, <2>6 DEF LockInv
<1>7. CASE KindOf[r] # "push"
  <2>1. pushLock' = pushLock /\ \A g \in Flights : InPushLock'[g] = InPushLock[g]
    BY <1>2, <1>7 DEF Unlocked, Responded, InPushLock
  <2>2. LocksTyped' /\ LocksList'
    BY <1>2, <1>3, <1>4, <1>5, <2>1 DEF LockInv, LocksTyped, LocksList, Responded
  <2>3. BlockKept'
    BY <1>2, <2>1 DEF LockInv, BlockKept, StreamsHoldPushLock, StreamsBeganBlock,
                      BlockIsTheJobs, Responded
  <2>4. OwnAwaits'
    BY <1>2 DEF LockInv, OwnAwaits, Responded
  <2> QED
    BY <1>2, <2>2, <2>3, <2>4 DEF LockInv
<1> QED
  BY <1>6, <1>7

\* A submit lets go of one flight's lock and joins another's, or the same again.
LEMMA CommandMoves ==
    ASSUME LockInv, NEW r \in Requests, NEW f \in Flights, NEW where \in Commanding,
           where # "prepare",
           pc[r] \in Commanding, lock[at[r]][1] = r, KindOf[r] = "submit",
           Park(r, f, where), lock' = Enqueue(Release(lock, at[r]), f, r),
           UNCHANGED <<pushLock, block>>
    PROVE  LockInv'
<1> DEFINE e == at[r]
           left == Release(lock, e)
           rest == [g \in Flights |-> InLock[g] \ {r}]
<1>1. /\ e \in Flights /\ r \in InLock[e] /\ lock[e][1] = r
      /\ Lists(lock[e], InLock[e]) /\ lock \in [Flights -> Seq(Requests)]
      /\ \A g \in Flights : Lists(lock[g], InLock[g])
      /\ RequestsTyped /\ pc[r] # "done" /\ where \in Awaits
  BY JobsAssumption DEF LockInv, LocksTyped, LocksList, RequestsTyped, InLock, Commanding,
                        Awaits, JobsAssumption
<1>2. RequestsTyped' /\ Parked(r, f, where)
  BY <1>1, Parks
<1>3. /\ InLock'[f] = rest[f] \cup {r}
      /\ \A g \in Flights : g # f => InLock'[g] = rest[g]
      /\ \A g \in Flights : g # e => InLock[g] = rest[g]
      /\ \A g \in Flights : InPushLock'[g] = InPushLock[g]
  BY <1>2 DEF Parked, InLock, InPushLock, Commanding
<1>4. /\ left \in [Flights -> Seq(Requests)]
      /\ \A g \in Flights : Lists(left[g], rest[g])
  <2> HIDE DEF InLock, e
  <2>1. /\ left \in [Flights -> Seq(Requests)]
        /\ \A g \in Flights : g # e => left[g] = lock[g]
        /\ Lists(left[e], InLock[e] \ {r})
    BY ONLY <1>1, LeavesLock DEF left
  <2> QED
    BY <2>1, <1>1, <1>3
<1>5. /\ lock' \in [Flights -> Seq(Requests)]
      /\ \A g \in Flights : g # f => lock'[g] = left[g]
      /\ Lists(lock'[f], rest[f] \cup {r})
  <2>1. /\ left \in [Flights -> Seq(Requests)] /\ f \in Flights /\ r \in Requests
        /\ Lists(left[f], rest[f]) /\ r \notin rest[f]
    BY <1>4
  <2>2. lock' = Enqueue(left, f, r)
    OBVIOUS
  <2> HIDE DEF left, rest
  <2>3. /\ Enqueue(left, f, r) \in [Flights -> Seq(Requests)]
        /\ \A g \in Flights : g # f => Enqueue(left, f, r)[g] = left[g]
        /\ Lists(Enqueue(left, f, r)[f], rest[f] \cup {r})
    BY ONLY <2>1, JoinsLock
  <2> QED
    BY <2>2, <2>3
<1>6. LocksTyped' /\ LocksList'
  <2> HIDE DEF left, rest
  <2> QED
    BY <1>3, <1>4, <1>5 DEF LockInv, LocksTyped, LocksList
<1>7. OwnAwaits'
  BY <1>2 DEF LockInv, OwnAwaits, Commanding, Parked
<1>8. BlockKept'
  BY <1>2 DEF LockInv, BlockKept, StreamsHoldPushLock, StreamsBeganBlock, BlockIsTheJobs,
              Parked, Commanding
<1> QED
  BY <1>2, <1>6, <1>7, <1>8 DEF LockInv

\* A push joins push_lock.
LEMMA PushJoins ==
    ASSUME LockInv, NEW r \in Requests, NEW f \in Flights,
           KindOf[r] = "push", pc[r] = "idle",
           Park(r, f, "pushLock"), pushLock' = Enqueue(pushLock, f, r),
           UNCHANGED <<lock, block>>
    PROVE  LockInv'
<1>1. /\ f \in Flights /\ r \in Requests /\ r \notin InPushLock[f]
      /\ Lists(pushLock[f], InPushLock[f]) /\ pushLock \in [Flights -> Seq(Requests)]
      /\ RequestsTyped /\ pc[r] # "done"
  BY DEF InPushLock, Delivering, LockInv, LocksTyped, LocksList
<1>2. RequestsTyped' /\ Parked(r, f, "pushLock")
  BY <1>1, Parks DEF Awaits
<1>3. /\ InPushLock'[f] = InPushLock[f] \cup {r}
      /\ \A g \in Flights : g # f => InPushLock'[g] = InPushLock[g]
      /\ \A g \in Flights : InLock'[g] = InLock[g]
  BY <1>2 DEF Parked, InLock, InPushLock, Commanding, Delivering
<1>4. /\ pushLock' \in [Flights -> Seq(Requests)]
      /\ \A g \in Flights : g # f => pushLock'[g] = pushLock[g]
      /\ Lists(pushLock'[f], InPushLock[f] \cup {r})
      /\ InPushLock[f] # {} => pushLock'[f][1] = pushLock[f][1]
  <2>1. /\ Enqueue(pushLock, f, r) \in [Flights -> Seq(Requests)]
        /\ \A g \in Flights : g # f => Enqueue(pushLock, f, r)[g] = pushLock[g]
        /\ Lists(Enqueue(pushLock, f, r)[f], InPushLock[f] \cup {r})
        /\ InPushLock[f] # {} => Enqueue(pushLock, f, r)[f][1] = pushLock[f][1]
    BY ONLY ZenonT(30), <1>1, JoinsLock
  <2> QED
    BY <2>1
<1>5. LocksTyped' /\ LocksList'
  BY <1>3, <1>4 DEF LockInv, LocksTyped, LocksList
<1>6. OwnAwaits'
  BY <1>2 DEF LockInv, OwnAwaits, Parked
<1>7. ASSUME NEW s \in Requests, KindOf[s] = "push", pc'[s] \in {"receiving", "command"}
      PROVE  pushLock'[at'[s]][1] = s
  <2>1. s # r /\ pc'[s] = pc[s] /\ at'[s] = at[s] /\ at[s] \in Flights /\ s \in InPushLock[at[s]]
    BY <1>1, <1>2, <1>7, JobsAssumption
       DEF Parked, RequestsTyped, JobsAssumption, InPushLock, Delivering
  <2>2. pushLock[at[s]][1] = s
    BY <2>1, <1>7 DEF LockInv, BlockKept, StreamsHoldPushLock
  <2> QED
    BY <2>1, <2>2, <1>4
<1>8. BlockKept'
  BY <1>2, <1>7 DEF LockInv, BlockKept, StreamsHoldPushLock, StreamsBeganBlock,
                    BlockIsTheJobs, Parked
<1> QED
  BY <1>2, <1>5, <1>6, <1>8 DEF LockInv

\* No other push stands past its header on the flight of the holder of push_lock.
LEMMA StreamsAlone ==
    ASSUME LockInv, NEW r \in Requests, pushLock[at[r]][1] = r,
           NEW s \in Requests, s # r, KindOf[s] = "push", pc[s] \in {"receiving", "command"}
    PROVE  at[s] # at[r]
  BY DEF LockInv, BlockKept, StreamsHoldPushLock

\* The first chunks of a body: the block is begun.
LEMMA PushBegins ==
    ASSUME LockInv, NEW r \in Requests,
           pc[r] = "pushLock", pushLock[at[r]][1] = r,
           Park(r, at[r], "receiving"),
           block' = [block EXCEPT ![at[r]] = [of |-> r, whole |-> FALSE]],
           UNCHANGED locks
    PROVE  LockInv'
<1>1. at[r] \in Flights /\ KindOf[r] = "push" /\ RequestsTyped
  BY JobsAssumption DEF LockInv, RequestsTyped, OwnAwaits, JobsAssumption
<1>2. RequestsTyped' /\ Parked(r, at[r], "receiving")
  BY <1>1, Parks DEF Awaits
<1>3. \A g \in Flights : InLock'[g] = InLock[g] /\ InPushLock'[g] = InPushLock[g]
  BY <1>1, <1>2 DEF Parked, InLock, InPushLock, Commanding, Delivering
<1>4. LocksTyped' /\ LocksList'
  BY <1>1, <1>3 DEF LockInv, LocksTyped, LocksList, locks
<1>5. OwnAwaits'
  BY <1>1, <1>2 DEF LockInv, OwnAwaits, Parked
<1>6. \A s \in Requests : s # r /\ KindOf[s] = "push" /\ pc[s] \in {"receiving", "command"}
                          => at[s] \in Flights /\ block'[at[s]] = block[at[s]]
  BY <1>1, StreamsAlone, JobsAssumption DEF LockInv, RequestsTyped, JobsAssumption, LocksTyped
<1>7. block'[at[r]].of = r
  BY <1>1 DEF LockInv, LocksTyped
<1>8. BlockKept'
  BY <1>1, <1>2, <1>6, <1>7
     DEF LockInv, BlockKept, StreamsHoldPushLock, StreamsBeganBlock, BlockIsTheJobs, Parked,
         OwnAwaits, locks
<1> QED
  BY <1>2, <1>4, <1>5, <1>8 DEF LockInv

\* The body is in: the push joins _lock, with push_lock in its hand.
LEMMA PushSends ==
    ASSUME LockInv, NEW r \in Requests,
           pc[r] = "receiving",
           Park(r, at[r], "command"),
           block' = [block EXCEPT ![at[r]].whole = TRUE],
           lock' = Enqueue(lock, at[r], r), pushLock' = pushLock
    PROVE  LockInv'
<1> DEFINE f == at[r]
<1>1. /\ f \in Flights /\ r \in Requests /\ r \notin InLock[f]
      /\ Lists(lock[f], InLock[f]) /\ lock \in [Flights -> Seq(Requests)]
      /\ KindOf[r] = "push" /\ RequestsTyped /\ pc[r] # "done"
      /\ pushLock[f][1] = r /\ block[f].of = r
  BY JobsAssumption
     DEF LockInv, LocksTyped, LocksList, RequestsTyped, OwnAwaits, InLock, Commanding,
         JobsAssumption, BlockKept, StreamsHoldPushLock, StreamsBeganBlock
<1>2. RequestsTyped' /\ Parked(r, f, "command")
  BY <1>1, Parks DEF Awaits
<1>3. /\ InLock'[f] = InLock[f] \cup {r}
      /\ \A g \in Flights : g # f => InLock'[g] = InLock[g]
      /\ \A g \in Flights : InPushLock'[g] = InPushLock[g]
  BY <1>1, <1>2 DEF Parked, InLock, InPushLock, Commanding, Delivering
<1>4. /\ lock' \in [Flights -> Seq(Requests)]
      /\ \A g \in Flights : g # f => lock'[g] = lock[g]
      /\ Lists(lock'[f], InLock[f] \cup {r})
  <2>1. /\ Enqueue(lock, f, r) \in [Flights -> Seq(Requests)]
        /\ \A g \in Flights : g # f => Enqueue(lock, f, r)[g] = lock[g]
        /\ Lists(Enqueue(lock, f, r)[f], InLock[f] \cup {r})
    BY ONLY <1>1, JoinsLock
  <2> QED
    BY <2>1
<1>5. /\ block' \in [Flights -> [of : Requests \cup {None}, whole : BOOLEAN]]
      /\ block'[f] = [of |-> r, whole |-> TRUE]
      /\ \A g \in Flights : g # f => block'[g] = block[g]
  BY <1>1 DEF LockInv, LocksTyped
<1>6. LocksTyped' /\ LocksList'
  BY <1>3, <1>4, <1>5 DEF LockInv, LocksTyped, LocksList
<1>7. OwnAwaits'
  BY <1>1, <1>2 DEF LockInv, OwnAwaits, Parked
<1>8. \A s \in Requests : s # r /\ KindOf[s] = "push" /\ pc[s] \in {"receiving", "command"}
                          => at[s] \in Flights /\ at[s] # f
  BY <1>1, StreamsAlone, JobsAssumption DEF LockInv, RequestsTyped, JobsAssumption
<1>9. BlockKept'
  <2>1. StreamsHoldPushLock'
    BY <1>1, <1>2 DEF LockInv, BlockKept, StreamsHoldPushLock, Parked
  <2>2. StreamsBeganBlock'
    BY <1>2, <1>5, <1>8 DEF LockInv, BlockKept, StreamsBeganBlock, Parked, OwnAwaits
  <2>3. ASSUME NEW s \in Requests, KindOf[s] = "push", pc'[s] = "command"
        PROVE  block'[at'[s]] = [of |-> s, whole |-> TRUE]
    <3>1. CASE s = r
      BY <3>1, <1>2, <1>5 DEF Parked
    <3>2. CASE s # r
      <4>1. pc[s] = "command" /\ at'[s] = at[s]
        BY <2>3, <3>2, <1>2 DEF Parked
      <4>2. block[at[s]] = [of |-> s, whole |-> TRUE]
        BY <2>3, <4>1 DEF LockInv, BlockKept, BlockIsTheJobs
      <4>3. block'[at[s]] = block[at[s]]
        BY <2>3, <3>2, <4>1, <1>5, <1>8
      <4> QED
        BY <4>1, <4>2, <4>3
    <3> QED
      BY <3>1, <3>2
  <2> QED
    BY <2>1, <2>2, <2>3 DEF BlockKept, BlockIsTheJobs
<1> QED
  BY <1>2, <1>6, <1>7, <1>9 DEF LockInv

\* A push ends without a command: its header or its layout is refused, or the
\* body overruns the block or stops.
LEMMA PushEnds ==
    ASSUME LockInv, NEW r \in Requests, NEW status \in Statuses,
           pc[r] \in {"pushLock", "receiving"}, pushLock[at[r]][1] = r,
           Respond(r, status), pushLock' = Release(pushLock, at[r]), lock' = lock,
           \/ block' = block
           \/ block' = [block EXCEPT ![at[r]] = [of |-> r, whole |-> FALSE]]
    PROVE  LockInv'
<1> DEFINE f == at[r]
<1>1. /\ f \in Flights /\ r \in InPushLock[f] /\ pushLock[f][1] = r
      /\ Lists(pushLock[f], InPushLock[f]) /\ pushLock \in [Flights -> Seq(Requests)]
      /\ RequestsTyped
  BY JobsAssumption DEF LockInv, LocksTyped, LocksList, RequestsTyped, OwnAwaits, InPushLock,
                        Delivering, JobsAssumption
<1>2. RequestsTyped' /\ Responded(r, status)
  BY <1>1, Responds
<1>3. /\ InPushLock'[f] = InPushLock[f] \ {r}
      /\ \A g \in Flights : g # f => InPushLock'[g] = InPushLock[g]
      /\ \A g \in Flights : InLock'[g] = InLock[g]
  <2>1. \A g \in Flights : r \notin InLock[g] /\ (g # f => r \notin InPushLock[g])
    BY DEF InLock, InPushLock, Commanding
  <2>2. \A g \in Flights : InLock'[g] = InLock[g] \ {r} /\ InPushLock'[g] = InPushLock[g] \ {r}
    BY <1>2 DEF Responded
  <2> HIDE DEF InLock, InPushLock, f
  <2>3. /\ \A g \in Flights : InLock[g] \ {r} = InLock[g]
        /\ \A g \in Flights : g # f => InPushLock[g] \ {r} = InPushLock[g]
    <3>1. \A U : r \notin U => U \ {r} = U
      OBVIOUS
    <3> QED
      BY <2>1, <3>1
  <2> QED
    BY <1>1, <2>2, <2>3
<1>4. /\ pushLock' \in [Flights -> Seq(Requests)]
      /\ \A g \in Flights : g # f => pushLock'[g] = pushLock[g]
      /\ Lists(pushLock'[f], InPushLock[f] \ {r})
  <2>1. /\ Release(pushLock, f) \in [Flights -> Seq(Requests)]
        /\ \A g \in Flights : g # f => Release(pushLock, f)[g] = pushLock[g]
        /\ Lists(Release(pushLock, f)[f], InPushLock[f] \ {r})
    BY ONLY <1>1, LeavesLock
  <2> QED
    BY <2>1
<1>5. /\ block' \in [Flights -> [of : Requests \cup {None}, whole : BOOLEAN]]
      /\ \A g \in Flights : g # f => block'[g] = block[g]
  <2>1. block \in [Flights -> [of : Requests \cup {None}, whole : BOOLEAN]]
    BY DEF LockInv, LocksTyped
  <2>2. CASE block' = block
    BY <2>1, <2>2
  <2>3. CASE block' = [block EXCEPT ![f] = [of |-> r, whole |-> FALSE]]
    BY <2>1, <2>3
  <2> QED
    BY <2>2, <2>3
<1>6. LocksTyped' /\ LocksList'
  BY <1>3, <1>4, <1>5 DEF LockInv, LocksTyped, LocksList
<1>7. OwnAwaits'
  BY <1>2 DEF LockInv, OwnAwaits, Responded
<1>8. \A s \in Requests : s # r /\ KindOf[s] = "push" /\ pc[s] \in {"receiving", "command"}
                          => at[s] \in Flights /\ at[s] # f
  BY <1>1, StreamsAlone, JobsAssumption DEF LockInv, RequestsTyped, JobsAssumption
<1>9. BlockKept'
  <2>1. StreamsHoldPushLock'
    BY <1>2, <1>4, <1>8 DEF LockInv, BlockKept, StreamsHoldPushLock, Responded
  <2>2. StreamsBeganBlock'
    BY <1>2, <1>5, <1>8 DEF LockInv, BlockKept, StreamsBeganBlock, Responded, OwnAwaits
  <2>3. BlockIsTheJobs'
    BY <1>2, <1>5, <1>8 DEF LockInv, BlockKept, BlockIsTheJobs, Responded
  <2> QED
    BY <2>1, <2>2, <2>3 DEF BlockKept
<1> QED
  BY <1>2, <1>6, <1>7, <1>9 DEF LockInv

\* A request that is turned away at once has stood nowhere.
LEMMA TurnsAway ==
    ASSUME LockInv, NEW r \in Requests, NEW status \in Statuses, pc[r] = "idle",
           Respond(r, status), UNCHANGED <<locks, block>>
    PROVE  LockInv'
<1>1. RequestsTyped' /\ Responded(r, status)
  BY Responds DEF LockInv
<1>2. \A g \in Flights : InLock'[g] = InLock[g] /\ InPushLock'[g] = InPushLock[g]
  BY <1>1 DEF Responded, InLock, InPushLock, Commanding, Delivering
<1>3. LocksTyped' /\ LocksList'
  BY <1>2 DEF LockInv, LocksTyped, LocksList, locks
<1>4. OwnAwaits'
  BY <1>1 DEF LockInv, OwnAwaits, Responded
<1>5. BlockKept'
  BY <1>1 DEF LockInv, BlockKept, StreamsHoldPushLock, StreamsBeganBlock, BlockIsTheJobs,
              Responded, locks
<1> QED
  BY <1>1, <1>3, <1>4, <1>5 DEF LockInv

\* A step that moves no request and no lock keeps the lock invariant.
LEMMA LocksUntouched ==
    ASSUME LockInv, UNCHANGED <<locks, block, requests>>
    PROVE  LockInv'
<1>1. InLock' = InLock /\ InPushLock' = InPushLock
  BY DEF InLock, InPushLock, requests
<1> QED
  BY <1>1 DEF LockInv, LocksTyped, LocksList, RequestsTyped, OwnAwaits, BlockKept,
              StreamsHoldPushLock, StreamsBeganBlock, BlockIsTheJobs, locks, requests

\* Every step moves the locks in one of these ways.
LEMMA LockInvStep ==
    ASSUME LockInv, Next
    PROVE  LockInv'
<1> USE DEF Statuses, Commanding
<1>1. ASSUME NEW r \in Requests, PrepareArrives(r) PROVE LockInv'
  <2>1. PICK f \in Flights : SendPrepare(r, f, "prepare")
    BY <1>1 DEF PrepareArrives
  <2>2. /\ pc[r] = "idle" /\ KindOf[r] = "prepare" /\ at[r] = None
        /\ UNCHANGED <<pushLock, block>>
    BY <1>1 DEF PrepareArrives, LockInv, RequestsTyped
  <2>3. Park(r, f, "prepare") /\ lock' = Enqueue(lock, f, r)
    BY <2>1, <2>2 DEF SendPrepare
  <2> QED
    BY <2>2, <2>3, CommandJoins
<1>2. ASSUME NEW r \in Requests, PushArrives(r) PROVE LockInv'
  <2>1. CASE TurnedAway(r)
    BY <1>2, <2>1, TurnsAway DEF PushArrives, TurnedAway
  <2>2. CASE ~TurnedAway(r)
    <3>1. PICK f \in Flights : pushLock' = Enqueue(pushLock, f, r) /\ Park(r, f, "pushLock")
      BY <1>2, <2>2 DEF PushArrives
    <3> QED
      BY <1>2, <2>2, <3>1, PushJoins DEF PushArrives
  <2> QED
    BY <2>1, <2>2
<1>3. ASSUME NEW r \in Requests, IngestArrives(r) PROVE LockInv'
  <2>1. CASE TurnedAway(r)
    BY <1>3, <2>1, TurnsAway DEF IngestArrives, TurnedAway
  <2>2. CASE ~TurnedAway(r)
    <3>1. PICK f \in Flights : lock' = Enqueue(lock, f, r) /\ Park(r, f, "command")
      BY <1>3, <2>2 DEF IngestArrives
    <3> QED
      BY <1>3, <2>2, <3>1, CommandJoins DEF IngestArrives
  <2> QED
    BY <2>1, <2>2
<1>4. ASSUME NEW r \in Requests, SubmitArrives(r) PROVE LockInv'
  <2>1. PICK f \in Flights : lock' = Enqueue(lock, f, r) /\ Park(r, f, "resolve")
    BY <1>4 DEF SubmitArrives
  <2> QED
    BY <1>4, <2>1, CommandJoins DEF SubmitArrives
<1>5. ASSUME NEW r \in Requests, PushHeader(r) PROVE LockInv'
  <2>1. CASE Park(r, at[r], "receiving") /\ UNCHANGED pushLock
    BY <1>5, <2>1, PushBegins DEF PushHeader, locks
  <2>2. CASE Respond(r, 400) /\ pushLock' = Release(pushLock, at[r])
    <3>1. /\ pc[r] \in {"pushLock", "receiving"} /\ pushLock[at[r]][1] = r /\ lock' = lock
          /\ block' = [block EXCEPT ![at[r]] = [of |-> r, whole |-> FALSE]]
      BY <1>5 DEF PushHeader
    <3>2. LockInv /\ r \in Requests /\ 400 \in Statuses
      OBVIOUS
    <3> QED
      BY ONLY ZenonT(60), <2>2, <3>1, <3>2, PushEnds
  <2> QED
    BY <1>5, <2>1, <2>2 DEF PushHeader
<1>6. ASSUME NEW r \in Requests, PushBody(r) PROVE LockInv'
  BY <1>6, PushSends DEF PushBody
<1>7. ASSUME NEW r \in Requests, PushMalformed(r) \/ PushAborted(r) PROVE LockInv'
  <2>1. pc[r] = "receiving" /\ pushLock[at[r]][1] = r
    BY <1>7 DEF PushMalformed, PushAborted, LockInv, BlockKept, StreamsHoldPushLock, OwnAwaits
  <2>2. /\ Respond(r, 400) \/ Respond(r, 413)
        /\ pushLock' = Release(pushLock, at[r]) /\ lock' = lock /\ block' = block
    BY <1>7 DEF PushMalformed, PushAborted
  <2> QED
    BY <2>1, <2>2, PushEnds
<1>8. ASSUME NEW r \in Requests, PrepareReplied(r) PROVE LockInv'
  <2>1. pushLock' = Unlocked(r)
    BY <1>8 DEF PrepareReplied, LockInv, OwnAwaits, Unlocked
  <2> QED
    BY <1>8, <2>1, CommandLeaves DEF PrepareReplied
<1>9. ASSUME NEW r \in Requests, ResolvedToNothing(r) PROVE LockInv'
  <2>1. pushLock' = Unlocked(r)
    BY <1>9 DEF ResolvedToNothing, LockInv, OwnAwaits, Unlocked
  <2> QED
    BY <1>9, <2>1, CommandLeaves DEF ResolvedToNothing
<1>10. ASSUME NEW r \in Requests, Resolved(r) PROVE LockInv'
  <2>1. KindOf[r] = "submit" /\ pushLock = Unlocked(r) /\ at[r] # None
    BY <1>10 DEF Resolved, LockInv, OwnAwaits, Unlocked, RequestsTyped
  <2>2. CASE Respond(r, 409) /\ lock' = Release(lock, at[r])
    BY <1>10, <2>1, <2>2, CommandLeaves DEF Resolved
  <2>3. CASE \E f \in Flights : SendPrepare(r, f, "submitPrepare")
    <3>1. PICK f \in Flights : SendPrepare(r, f, "submitPrepare")
      BY <2>3
    <3>2. lock' = Enqueue(Release(lock, at[r]), f, r) /\ Park(r, f, "submitPrepare")
      BY <2>1, <3>1 DEF SendPrepare
    <3> QED
      BY <1>10, <2>1, <3>2, CommandMoves DEF Resolved
  <2> QED
    BY <1>10, <2>2, <2>3 DEF Resolved
<1>11. ASSUME NEW r \in Requests, SubmitPrepared(r) PROVE LockInv'
  <2>1. /\ KindOf[r] = "submit" /\ pushLock = Unlocked(r) /\ at[r] \in Flights
        /\ pc[r] = "submitPrepare"
    BY <1>11, JobsAssumption DEF SubmitPrepared, LockInv, OwnAwaits, Unlocked, RequestsTyped,
                                 JobsAssumption
  <2>2. CASE Respond(r, 500) /\ lock' = Release(lock, at[r])
    BY <1>11, <2>1, <2>2, CommandLeaves DEF SubmitPrepared
  <2>3. CASE lock' = Enqueue(Release(lock, at[r]), at[r], r) /\ Park(r, at[r], "command")
    BY <1>11, <2>1, <2>3, CommandMoves DEF SubmitPrepared
  <2> QED
    BY <1>11, <2>2, <2>3 DEF SubmitPrepared
<1>12. ASSUME NEW r \in Requests, Replied(r) PROVE LockInv'
  BY <1>12, CommandLeaves DEF Replied
<1>13. ASSUME NEW r \in Requests, Lose(r) PROVE LockInv'
  BY <1>13, CommandLeaves DEF Lose
<1>14. ASSUME NEW r \in Requests, Refused(r) PROVE LockInv'
  BY <1>14, CommandLeaves DEF Refused
<1>15. ASSUME NEW f \in Flights, LossWhileIdle(f) PROVE LockInv'
  BY <1>15, LocksUntouched DEF LossWhileIdle
<1> QED
  BY <1>1, <1>2, <1>3, <1>4, <1>5, <1>6, <1>7, <1>8, <1>9, <1>10, <1>11, <1>12, <1>13, <1>14,
     <1>15 DEF Next, Arrives, Continues

-----------------------------------------------------------------------------
(* The records.                                                            *)

\* A request that stands somewhere stands at a flight.
LEMMA AtFlight ==
    ASSUME LockInv, NEW r \in Requests, pc[r] \notin {"idle", "done"}
    PROVE  at[r] \in Flights /\ reply[r] = None
  BY JobsAssumption DEF LockInv, RequestsTyped, JobsAssumption

\* Every step leaves records, routes, submitted visits and losses well typed.
LEMMA RecordsTypedStep ==
    ASSUME RecordsTyped, LockInv, Next
    PROVE  RecordsTyped'
<1> USE DEF RecordsTyped, SetState
<1>1. \A r \in Requests : JobOf[r] \in JobIds /\ (KindOf[r] = "submit" => VisitOf[r] \in Visits)
  BY JobsAssumption DEF JobsAssumption
<1>2. ASSUME NEW r \in Requests, PrepareArrives(r) PROVE RecordsTyped'
  BY <1>1, <1>2 DEF PrepareArrives, SendPrepare
<1>3. ASSUME NEW r \in Requests, PushArrives(r) \/ IngestArrives(r) PROVE RecordsTyped'
  BY <1>1, <1>3 DEF PushArrives, IngestArrives, TurnedAway, ForPush
<1>4. ASSUME NEW r \in Requests, SubmitArrives(r) \/ PushAborted(r) \/ ResolvedToNothing(r)
      PROVE  RecordsTyped'
  BY <1>4 DEF SubmitArrives, PushAborted, ResolvedToNothing
<1>5. ASSUME NEW r \in Requests, \/ PushHeader(r) \/ PushBody(r) \/ PushMalformed(r)
                                 \/ PrepareReplied(r) \/ Replied(r) \/ Refused(r)
      PROVE  RecordsTyped'
  BY <1>1, <1>5 DEF PushHeader, PushBody, PushMalformed, PrepareReplied, Replied, Refused
<1>6. ASSUME NEW r \in Requests, Resolved(r) PROVE RecordsTyped'
  BY <1>1, <1>6 DEF Resolved, SendPrepare
<1>7. ASSUME NEW r \in Requests, SubmitPrepared(r) PROVE RecordsTyped'
  <2>1. KindOf[r] = "submit"
    BY <1>7 DEF SubmitPrepared, LockInv, OwnAwaits
  <2> QED
    BY <1>1, <1>7, <2>1 DEF SubmitPrepared
<1>8. ASSUME NEW f \in Flights, NEW own, losses[f] < MaxLosses,
             losses' = [losses EXCEPT ![f] = @ + 1], JOBS' = FailJobs(f, own),
             UNCHANGED <<byJob, SUBMITTED>>
      PROVE  RecordsTyped'
  <2>1. losses' \in [Flights -> 0..MaxLosses]
    BY <1>8, JobsAssumption DEF JobsAssumption
  <2> QED
    BY <1>8, <2>1 DEF FailJobs
<1>9. ASSUME NEW r \in Requests, Lose(r) PROVE RecordsTyped'
  <2>1. at[r] \in Flights
    BY <1>9, AtFlight DEF Lose
  <2> QED
    BY <1>8, <1>9, <2>1 DEF Lose
<1>10. ASSUME NEW f \in Flights, LossWhileIdle(f) PROVE RecordsTyped'
  BY <1>8, <1>10 DEF LossWhileIdle
<1> QED
  BY <1>2, <1>3, <1>4, <1>5, <1>6, <1>7, <1>9, <1>10 DEF Next, Arrives, Continues

\* A record does not vanish, and only the prepare of its job makes one appear.
LEMMA RecordsStayStep ==
    ASSUME JobsInv, Next
    PROVE  /\ \A j \in JobIds : JOBS[j] # "absent" => JOBS'[j] # "absent"
           /\ \A j \in JobIds : JOBS[j] = "absent" /\ JOBS'[j] # "absent" =>
                 \E r \in Requests : /\ JobOf[r] = j /\ pc[r] \in {"prepare", "submitPrepare"}
                                     /\ pc'[r] \in {"command", "done"}
<1> USE DEF SetState
<1> DEFINE Claim == /\ \A j \in JobIds : JOBS[j] # "absent" => JOBS'[j] # "absent"
                    /\ \A j \in JobIds : JOBS[j] = "absent" /\ JOBS'[j] # "absent" =>
                          \E r \in Requests :
                             /\ JobOf[r] = j /\ pc[r] \in {"prepare", "submitPrepare"}
                             /\ pc'[r] \in {"command", "done"}
<1>1. /\ \A r \in Requests : JobOf[r] \in JobIds
      /\ \A r \in Requests : pc[r] \in Delivering => JOBS[JobOf[r]] # "absent"
      /\ RecordsTyped /\ RequestsTyped
  BY JobsAssumption DEF JobsAssumption, JobsInv, LockInv, RecordInv, RecordsStay
<1>2. ASSUME NEW r \in Requests, \/ PrepareArrives(r) \/ PushArrives(r) \/ SubmitArrives(r)
                                 \/ PushAborted(r) \/ ResolvedToNothing(r) \/ Resolved(r)
      PROVE  Claim
  BY <1>2 DEF PrepareArrives, PushArrives, TurnedAway, SubmitArrives, PushAborted,
              ResolvedToNothing, Resolved
<1>3. ASSUME NEW r \in Requests, IngestArrives(r) PROVE Claim
  BY <1>1, <1>3 DEF IngestArrives, TurnedAway, RecordsTyped
<1>4. ASSUME NEW r \in Requests, PushHeader(r) \/ PushBody(r) \/ PushMalformed(r) \/ Replied(r)
      PROVE  Claim
  BY <1>1, <1>4 DEF PushHeader, PushBody, PushMalformed, Replied, RecordsTyped, Delivering
<1>5. ASSUME NEW r \in Requests, Refused(r) PROVE Claim
  BY <1>1, <1>5 DEF Refused, RecordsTyped, Delivering
<1>6. ASSUME NEW r \in Requests, PrepareReplied(r) PROVE Claim
  BY <1>1, <1>6 DEF PrepareReplied, RecordsTyped, Respond, RequestsTyped
<1>7. ASSUME NEW r \in Requests, SubmitPrepared(r) PROVE Claim
  BY <1>1, <1>7 DEF SubmitPrepared, RecordsTyped, Respond, Park, RequestsTyped
<1>8. ASSUME NEW r \in Requests, Lose(r) PROVE Claim
  BY <1>1, <1>8, JobsAssumption
     DEF Lose, FailJobs, InProgress, RecordsTyped, Delivering, JobsAssumption
<1>9. ASSUME NEW f \in Flights, LossWhileIdle(f) PROVE Claim
  BY <1>1, <1>9, JobsAssumption DEF LossWhileIdle, FailJobs, InProgress, RecordsTyped, JobsAssumption
<1> QED
  BY <1>2, <1>3, <1>4, <1>5, <1>6, <1>7, <1>8, <1>9 DEF Next, Arrives, Continues

\* How far a request may get in one step.
LEMMA OneStepFurther ==
    ASSUME LockInv, RecordsTyped, Next, NEW s \in Requests
    PROVE  /\ pc'[s] \in {"idle", "prepare", "resolve", "submitPrepare"}
                => pc[s] \in {"idle", "prepare", "resolve", "submitPrepare"}
           /\ pc'[s] \in Delivering
                => \/ pc[s] \in Delivering
                   \/ pc[s] = "idle" /\ JOBS[JobOf[s]] = "PREPARED"
                   \/ pc[s] = "submitPrepare" /\ JOBS'[JobOf[s]] = "COMPUTING"
           /\ KindOf[s] \in {"push", "ingest"} /\ reply'[s] \in {200, 500, 503}
                => reply[s] = reply'[s] \/ pc[s] \in Delivering
<1> DEFINE Claim == /\ pc'[s] \in {"idle", "prepare", "resolve", "submitPrepare"}
                         => pc[s] \in {"idle", "prepare", "resolve", "submitPrepare"}
                    /\ pc'[s] \in Delivering
                         => \/ pc[s] \in Delivering
                            \/ pc[s] = "idle" /\ JOBS[JobOf[s]] = "PREPARED"
                            \/ pc[s] = "submitPrepare" /\ JOBS'[JobOf[s]] = "COMPUTING"
                    /\ KindOf[s] \in {"push", "ingest"} /\ reply'[s] \in {200, 500, 503}
                         => reply[s] = reply'[s] \/ pc[s] \in Delivering
<1>1. RequestsTyped /\ OwnAwaits
  BY DEF LockInv
<1> USE DEF Park, Respond, RequestsTyped, Delivering
<1>2. ASSUME NEW r \in Requests, PrepareArrives(r) \/ SubmitArrives(r) \/ Resolved(r)
      PROVE  Claim
  BY <1>1, <1>2 DEF PrepareArrives, SubmitArrives, Resolved, SendPrepare, OwnAwaits
<1>3. ASSUME NEW r \in Requests, PushArrives(r) \/ IngestArrives(r) PROVE Claim
  BY <1>1, <1>3 DEF PushArrives, IngestArrives, TurnedAway
<1>4. ASSUME NEW r \in Requests, PushHeader(r) \/ PushBody(r) \/ PushMalformed(r) \/ PushAborted(r)
      PROVE  Claim
  BY <1>1, <1>4 DEF PushHeader, PushBody, PushMalformed, PushAborted
<1>5. ASSUME NEW r \in Requests, \/ PrepareReplied(r) \/ ResolvedToNothing(r) \/ Replied(r)
                                 \/ Lose(r) \/ Refused(r)
      PROVE  Claim
  BY <1>1, <1>5 DEF PrepareReplied, ResolvedToNothing, Replied, Lose, Refused, OwnAwaits
<1>6. ASSUME NEW r \in Requests, SubmitPrepared(r) PROVE Claim
  BY <1>1, <1>6, JobsAssumption
     DEF SubmitPrepared, SetState, OwnAwaits, RecordsTyped, JobsAssumption
<1>7. ASSUME NEW f \in Flights, LossWhileIdle(f) PROVE Claim
  BY <1>7 DEF LossWhileIdle, requests
<1> QED
  BY <1>2, <1>3, <1>4, <1>5, <1>6, <1>7 DEF Next, Arrives, Continues

\* A record still comes with its prepare, and stays for those who deliver.
LEMMA LifetimesStep ==
    ASSUME JobsInv, Next
    PROVE  RecordsComeLate' /\ RecordsStay'
<1>1. /\ \A r \in Requests : JobOf[r] \in JobIds
      /\ LockInv /\ RecordsTyped /\ OwnAwaits /\ RecordsComeLate /\ RecordsStay
      /\ \A r, s \in Requests : /\ KindOf[r] \in {"prepare", "submit"}
                                /\ KindOf[s] \in {"prepare", "submit"}
                                /\ JobOf[r] = JobOf[s]
                                => r = s
  BY JobsAssumption DEF JobsAssumption, JobsInv, LockInv, RecordInv
<1>2. ASSUME NEW s \in Requests, KindOf[s] \in {"prepare", "submit"},
             pc'[s] \in {"idle", "prepare", "resolve", "submitPrepare"}
      PROVE  JOBS'[JobOf[s]] = "absent"
  <2>1. JOBS[JobOf[s]] = "absent"
    BY <1>1, <1>2, OneStepFurther DEF RecordsComeLate
  <2>2. ASSUME JOBS'[JobOf[s]] # "absent" PROVE FALSE
    <3>1. PICK r \in Requests : /\ JobOf[r] = JobOf[s] /\ pc[r] \in {"prepare", "submitPrepare"}
                                /\ pc'[r] \in {"command", "done"}
      BY <1>1, <2>1, <2>2, RecordsStayStep
    <3>2. r = s
      BY <1>1, <1>2, <3>1 DEF OwnAwaits
    <3> QED
      BY <1>2, <3>1, <3>2
  <2> QED
    BY <2>2
<1>3. ASSUME NEW s \in Requests,
             \/ pc'[s] \in Delivering
             \/ KindOf[s] \in {"push", "ingest"} /\ reply'[s] \in {200, 500, 503}
      PROVE  JOBS'[JobOf[s]] # "absent"
  <2>1. \/ JOBS[JobOf[s]] # "absent"
        \/ JOBS'[JobOf[s]] = "COMPUTING"
    BY <1>1, <1>3, OneStepFurther DEF RecordsStay
  <2> QED
    BY <1>1, <2>1, RecordsStayStep
<1> QED
  BY <1>2, <1>3 DEF RecordsComeLate, RecordsStay

\* A route given to a new job is nobody else's.
LEMMA NewRoute ==
    ASSUME JobsInv, NEW r \in Requests, NEW f \in Flights, NEW where \in {"prepare", "submitPrepare"},
           pc[r] \in {"idle", "resolve"}, KindOf[r] \in {"prepare", "submit"},
           SendPrepare(r, f, where)
    PROVE  Routed'
<1>1. /\ RequestsTyped /\ RecordsTyped /\ JobOf[r] \in JobIds
      /\ Routed /\ OwnAwaits /\ RecordsStay
      /\ JOBS[JobOf[r]] = "absent"
  BY JobsAssumption DEF JobsAssumption, JobsInv, LockInv, RecordInv, RecordsComeLate
<1>2. ASSUME NEW s \in Requests, pc'[s] \in Delivering \cup {"submitPrepare"}
      PROVE  byJob'[JobOf[s]] = at'[s]
  <2>1. CASE s = r
    BY <1>1, <2>1 DEF SendPrepare, Park, RequestsTyped, RecordsTyped
  <2>2. CASE s # r
    <3>1. pc'[s] = pc[s] /\ at'[s] = at[s]
      BY <1>1, <2>2 DEF SendPrepare, Park, RequestsTyped
    <3>2. byJob[JobOf[s]] = at[s]
      BY <1>1, <1>2, <3>1 DEF Routed
    <3>3. JobOf[s] # JobOf[r]
      <4>1. CASE pc[s] \in Delivering
        BY <1>1, <4>1 DEF RecordsStay
      <4>2. CASE pc[s] = "submitPrepare"
        BY <1>1, <2>2, <4>2, JobsAssumption DEF OwnAwaits, JobsAssumption
      <4> QED
        BY <1>2, <3>1, <4>1, <4>2
    <3> QED
      BY <1>1, <3>1, <3>2, <3>3 DEF SendPrepare, RecordsTyped
  <2> QED
    BY <2>1, <2>2
<1> QED
  BY <1>2 DEF Routed

\* A delivery stays on the route of its job: a route is set once.
LEMMA RoutedStep ==
    ASSUME JobsInv, Next
    PROVE  Routed'
<1>1. /\ RequestsTyped /\ RecordsTyped /\ Routed /\ OwnAwaits
      /\ \A r \in Requests : JobOf[r] \in JobIds
      /\ None \notin Flights
      /\ \A r \in Requests : pc[r] \in Delivering \cup {"submitPrepare"} => at[r] \in Flights
  BY JobsAssumption, AtFlight DEF JobsAssumption, JobsInv, LockInv, RecordInv, Delivering
<1>2. ASSUME NEW r \in Requests, PrepareArrives(r) PROVE Routed'
  BY <1>2, NewRoute DEF PrepareArrives
<1>3. ASSUME NEW r \in Requests, Resolved(r) PROVE Routed'
  <2>1. CASE \E f \in Flights : SendPrepare(r, f, "submitPrepare")
    BY <1>1, <1>3, <2>1, NewRoute DEF Resolved, OwnAwaits
  <2>2. CASE Respond(r, 409) /\ UNCHANGED byJob
    BY <1>1, <1>3, <2>2 DEF Routed, Respond, RequestsTyped, Delivering
  <2> QED
    BY <1>3, <2>1, <2>2 DEF Resolved
<1>4. ASSUME NEW r \in Requests, NEW f \in Flights, ForPush(JobOf[r], f),
             NEW where \in Delivering, Park(r, f, where)
      PROVE  Routed'
  <2>1. byJob'[JobOf[r]] = f /\ \A j \in JobIds : byJob[j] # None => byJob'[j] = byJob[j]
    BY <1>1, <1>4 DEF ForPush, RecordsTyped
  <2>2. \A s \in Requests : s # r => pc'[s] = pc[s] /\ at'[s] = at[s]
    BY <1>4 DEF Park, RequestsTyped
  <2>3. at'[r] = f
    BY <1>1, <1>4 DEF Park, RequestsTyped
  <2> QED
    BY <1>1, <2>1, <2>2, <2>3 DEF Routed
<1>5. ASSUME NEW r \in Requests, TurnedAway(r) PROVE Routed'
  BY <1>1, <1>5 DEF TurnedAway, Routed, Respond, RequestsTyped, Delivering
<1>6. ASSUME NEW r \in Requests, PushArrives(r) \/ IngestArrives(r) PROVE Routed'
  BY <1>4, <1>5, <1>6 DEF PushArrives, IngestArrives, Delivering
<1>7. ASSUME NEW r \in Requests, SubmitArrives(r) PROVE Routed'
  BY <1>1, <1>7 DEF SubmitArrives, Routed, Park, RequestsTyped, Delivering
<1>8. ASSUME NEW r \in Requests, \/ PushHeader(r) \/ PushBody(r) \/ PushMalformed(r)
                                 \/ PushAborted(r) \/ SubmitPrepared(r)
      PROVE  Routed'
  BY <1>1, <1>8 DEF PushHeader, PushBody, PushMalformed, PushAborted, SubmitPrepared, Routed,
                    Park, Respond, RequestsTyped, Delivering
<1>9. ASSUME NEW r \in Requests, \/ PrepareReplied(r) \/ ResolvedToNothing(r) \/ Replied(r)
                                 \/ Lose(r) \/ Refused(r)
      PROVE  Routed'
  BY <1>1, <1>9 DEF PrepareReplied, ResolvedToNothing, Replied, Lose, Refused, Routed,
                    Respond, RequestsTyped, Delivering
<1>10. ASSUME NEW f \in Flights, LossWhileIdle(f) PROVE Routed'
  BY <1>1, <1>10 DEF LossWhileIdle, Routed, requests
<1> QED
  BY <1>2, <1>3, <1>6, <1>7, <1>8, <1>9, <1>10 DEF Next, Arrives, Continues

\* A request keeps its state in a step, or is turned away, or gets in, or is a
\* submit that finds its visit taken.
LEMMA TurnedAwayOrIn ==
    ASSUME LockInv, Next, NEW s \in Requests
    PROVE  \/ pc'[s] = pc[s] /\ reply'[s] = reply[s]
           \/ pc[s] = "idle" /\ reply'[s] \in {404, 409}
           \/ pc[s] = "resolve" /\ KindOf[s] = "submit"
           \/ pc'[s] # "idle" /\ reply'[s] \notin {404, 409}
<1> DEFINE Claim == \/ pc'[s] = pc[s] /\ reply'[s] = reply[s]
                    \/ pc[s] = "idle" /\ reply'[s] \in {404, 409}
                    \/ pc[s] = "resolve" /\ KindOf[s] = "submit"
                    \/ pc'[s] # "idle" /\ reply'[s] \notin {404, 409}
<1>1. /\ RequestsTyped /\ OwnAwaits
      /\ pc[s] # "done" => reply[s] \notin {404, 409}
  BY JobsAssumption DEF LockInv, RequestsTyped, JobsAssumption
<1> USE DEF Park, Respond, RequestsTyped
<1>2. ASSUME NEW r \in Requests, PrepareArrives(r) \/ SubmitArrives(r) \/ Resolved(r)
      PROVE  Claim
  BY <1>1, <1>2 DEF PrepareArrives, SubmitArrives, Resolved, SendPrepare, OwnAwaits
<1>3. ASSUME NEW r \in Requests, PushArrives(r) \/ IngestArrives(r) PROVE Claim
  BY <1>1, <1>3 DEF PushArrives, IngestArrives, TurnedAway
<1>4. ASSUME NEW r \in Requests, PushHeader(r) \/ PushBody(r) \/ PushMalformed(r) \/ PushAborted(r)
      PROVE  Claim
  BY <1>1, <1>4 DEF PushHeader, PushBody, PushMalformed, PushAborted
<1>5. ASSUME NEW r \in Requests, \/ PrepareReplied(r) \/ ResolvedToNothing(r) \/ Replied(r)
                                 \/ Lose(r) \/ Refused(r) \/ SubmitPrepared(r)
      PROVE  Claim
  BY <1>1, <1>5 DEF PrepareReplied, ResolvedToNothing, Replied, Lose, Refused, SubmitPrepared
<1>6. ASSUME NEW f \in Flights, LossWhileIdle(f) PROVE Claim
  BY <1>6 DEF LossWhileIdle, requests
<1> QED
  BY <1>2, <1>3, <1>4, <1>5, <1>6 DEF Next, Arrives, Continues

\* The record of a delivery that was answered, and that nobody else got into, is
\* final.
LEMMA FinalRecord ==
    ASSUME JobsInv, Next, NEW r \in Requests, KindOf[r] \in {"push", "ingest"},
           SoleDelivery(r)', reply[r] \in {200, 500, 503}
    PROVE  SoleDelivery(r) /\ JOBS'[JobOf[r]] = JOBS[JobOf[r]]
<1> DEFINE j == JobOf[r]
<1>1. /\ RequestsTyped /\ RecordsTyped /\ LockInv /\ OwnAwaits /\ RecordAgreesWithReply
      /\ RecordsComeLate /\ RecordsStay
      /\ \A s \in Requests : JobOf[s] \in JobIds
      /\ \A s \in Requests : reply[s] = None <=> pc[s] # "done"
      /\ None \notin Nat /\ None \notin JobIds
  BY JobsAssumption DEF JobsAssumption, JobsInv, LockInv, RecordInv, RequestsTyped
<1>2. pc[r] = "done" /\ JOBS[j] # "absent" /\ j \in JobIds
  BY <1>1 DEF RecordsStay
<1>3. SoleDelivery(r)
  <2> SUFFICES ASSUME NEW s \in Requests \ {r}, JobOf[s] = j, KindOf[s] # "prepare"
               PROVE  pc[s] = "idle" \/ reply[s] \in {404, 409}
    BY DEF SoleDelivery
  <2>1. pc'[s] = "idle" \/ reply'[s] \in {404, 409}
    BY DEF SoleDelivery
  <2>2. ~(pc[s] = "resolve" /\ KindOf[s] = "submit")
    BY <1>1, <1>2 DEF RecordsComeLate
  <2> QED
    BY <1>1, <2>1, <2>2, TurnedAwayOrIn
<1>4. JOBS[j] \in {"DONE", "ERROR"}
  BY <1>1, <1>3 DEF RecordAgreesWithReply
<1>5. \A s \in Requests : JobOf[s] = j /\ pc[s] \notin {"idle", "done"}
                         => KindOf[s] = "prepare" /\ pc[s] # "prepare"
  BY <1>1, <1>2, <1>3 DEF SoleDelivery, RecordsComeLate
<1>6. \A s \in Requests : JobOf[s] = j => pc[s] \in {"idle", "done"}
  BY <1>1, <1>5 DEF OwnAwaits, RequestsTyped, Awaits
<1>7. ASSUME NEW s \in Requests, Arrives(s) PROVE JOBS'[j] = JOBS[j]
  <2>1. CASE UNCHANGED JOBS
    BY <2>1
  <2>2. CASE IngestArrives(s) /\ SetState(JobOf[s], "COMPUTING") /\ JOBS[JobOf[s]] = "PREPARED"
    BY <1>1, <1>4, <2>2 DEF SetState, RecordsTyped
  <2> QED
    BY <1>7, <2>1, <2>2 DEF Arrives, PrepareArrives, PushArrives, IngestArrives, SubmitArrives,
                            TurnedAway
<1>8. ASSUME NEW s \in Requests, Continues(s) PROVE JOBS'[j] = JOBS[j]
  <2>1. JobOf[s] # j
    BY <1>6, <1>8 DEF Continues, PushHeader, PushBody, PushMalformed, PushAborted,
                      PrepareReplied, Resolved, ResolvedToNothing, SubmitPrepared, Replied,
                      Lose, Refused
  <2>2. CASE Lose(s)
    BY <1>1, <1>2, <1>4, <2>1, <2>2 DEF Lose, FailJobs, InProgress
  <2>3. CASE ~Lose(s)
    BY <1>1, <1>2, <1>8, <2>1, <2>3
       DEF Continues, PushHeader, PushBody, PushMalformed, PushAborted, PrepareReplied,
           Resolved, ResolvedToNothing, SubmitPrepared, Replied, Refused, SetState, RecordsTyped
  <2> QED
    BY <2>2, <2>3
<1>9. ASSUME NEW f \in Flights, LossWhileIdle(f) PROVE JOBS'[j] = JOBS[j]
  BY <1>1, <1>2, <1>4, <1>9 DEF LossWhileIdle, FailJobs, InProgress
<1> QED
  BY <1>3, <1>7, <1>8, <1>9 DEF Next

\* A request is answered once.
LEMMA DoneIsDone ==
    ASSUME LockInv, Next, NEW s \in Requests, reply[s] # None
    PROVE  pc'[s] = pc[s] /\ reply'[s] = reply[s]
<1>1. RequestsTyped /\ pc[s] = "done"
  BY DEF LockInv, RequestsTyped
<1> USE DEF Park, Respond, RequestsTyped
<1>2. ASSUME NEW r \in Requests, Arrives(r) PROVE pc'[s] = pc[s] /\ reply'[s] = reply[s]
  BY <1>1, <1>2 DEF Arrives, PrepareArrives, SubmitArrives, PushArrives, IngestArrives,
                    SendPrepare, TurnedAway
<1>3. ASSUME NEW r \in Requests, Continues(r) PROVE pc'[s] = pc[s] /\ reply'[s] = reply[s]
  BY <1>1, <1>3 DEF Continues, PushHeader, PushBody, PushMalformed, PushAborted, PrepareReplied,
                    Resolved, ResolvedToNothing, SubmitPrepared, SendPrepare, Replied, Lose, Refused
<1>4. ASSUME NEW f \in Flights, LossWhileIdle(f) PROVE pc'[s] = pc[s] /\ reply'[s] = reply[s]
  BY <1>4 DEF LossWhileIdle, requests
<1> QED
  BY <1>2, <1>3, <1>4 DEF Next

\* Beside a sole delivery no step touches the record but its own.
LEMMA RecordAgreesStep ==
    ASSUME JobsInv, Next
    PROVE  RecordAgreesWithReply'
<1>1. /\ RequestsTyped /\ RecordsTyped /\ LockInv /\ OwnAwaits /\ RecordAgreesWithReply
      /\ RecordsComeLate /\ RecordsStay
      /\ \A r \in Requests : JobOf[r] \in JobIds
      /\ \A r \in Requests : reply[r] \in Statuses \cup {None} /\ (reply[r] = None <=> pc[r] # "done")
      /\ None \notin Nat
  BY JobsAssumption DEF JobsAssumption, JobsInv, LockInv, RecordInv, RequestsTyped
<1> SUFFICES ASSUME NEW r \in Requests, KindOf[r] \in {"push", "ingest"}, SoleDelivery(r)',
                    reply'[r] \in {200, 500, 503}
             PROVE  /\ reply'[r] = 200 => JOBS'[JobOf[r]] = "DONE"
                    /\ reply'[r] \in {500, 503} => JOBS'[JobOf[r]] = "ERROR"
  BY DEF RecordAgreesWithReply
<1> DEFINE j == JobOf[r]
           Agrees == /\ reply'[r] = 200 => JOBS'[j] = "DONE"
                     /\ reply'[r] \in {500, 503} => JOBS'[j] = "ERROR"
<1>2. j \in JobIds
  BY <1>1
<1>3. CASE reply[r] = None
  <2> USE <1>1, <1>2, <1>3 DEF RequestsTyped, RecordsTyped, Respond, Park, SetState
  <2>1. ASSUME NEW s \in Requests, Replied(s) PROVE Agrees
    BY <2>1 DEF Replied
  <2>2. ASSUME NEW s \in Requests, Refused(s) PROVE Agrees
    BY <2>2 DEF Refused, OwnAwaits
  <2>3. ASSUME NEW s \in Requests, Lose(s) PROVE Agrees
    BY <2>3 DEF Lose, OwnAwaits, FailJobs
  <2>4. ASSUME NEW s \in Requests, PrepareReplied(s) PROVE Agrees
    BY <2>4 DEF PrepareReplied, OwnAwaits
  <2>5. ASSUME NEW s \in Requests, SubmitPrepared(s) PROVE Agrees
    BY <2>5 DEF SubmitPrepared, OwnAwaits
  <2>6. ASSUME NEW s \in Requests, \/ PushHeader(s) \/ PushMalformed(s) \/ PushAborted(s)
                                   \/ PushBody(s) \/ ResolvedToNothing(s)
        PROVE  Agrees
    BY <2>6 DEF PushHeader, PushMalformed, PushAborted, PushBody, ResolvedToNothing
  <2>7. ASSUME NEW s \in Requests, \/ PrepareArrives(s) \/ PushArrives(s) \/ IngestArrives(s)
                                   \/ SubmitArrives(s) \/ Resolved(s)
        PROVE  Agrees
    BY <2>7 DEF PrepareArrives, PushArrives, IngestArrives, SubmitArrives, Resolved, TurnedAway,
                SendPrepare
  <2>8. ASSUME NEW f \in Flights, LossWhileIdle(f) PROVE Agrees
    BY <2>8 DEF LossWhileIdle, requests
  <2> QED
    BY <2>1, <2>2, <2>3, <2>4, <2>5, <2>6, <2>7, <2>8 DEF Next, Arrives, Continues
<1>4. CASE reply[r] # None
  <2>1. reply'[r] = reply[r]
    BY <1>1, <1>4, DoneIsDone
  <2>2. SoleDelivery(r) /\ JOBS'[j] = JOBS[j]
    BY <2>1, FinalRecord
  <2> QED
    BY <1>1, <2>1, <2>2 DEF RecordAgreesWithReply
<1> QED
  BY <1>3, <1>4

-----------------------------------------------------------------------------
(* A loss fails the jobs of its own flight.                                 *)

\* Why j may fail: its own request is answered, or its flight is lost.
Blamed(j) ==
    \/ \E r \in Requests : JobOf[r] = j /\ reply[r] = None /\ reply'[r] # None
    \/ byJob[j] # None /\ losses'[byJob[j]] > losses[byJob[j]]

\* A job that fails in a step fails with its own answer or with its flight.
LEMMA FailureHasACause ==
    ASSUME JobsInv, Next, NEW j \in JobIds, JOBS'[j] = "ERROR", JOBS[j] # "ERROR"
    PROVE  Blamed(j)
<1>1. /\ RequestsTyped /\ RecordsTyped /\ LockInv
      /\ \A r \in Requests : JobOf[r] \in JobIds
      /\ None \notin Nat /\ None \notin Flights /\ None \notin JobIds
  BY JobsAssumption DEF JobsAssumption, JobsInv, LockInv
<1>2. ASSUME NEW r \in Requests, NEW status \in Statuses, pc[r] # "done",
             Respond(r, status), JobOf[r] = j
      PROVE  Blamed(j)
  BY <1>1, <1>2 DEF Blamed, Respond, RequestsTyped, Statuses
<1>3. ASSUME NEW f \in Flights, NEW own, j # own,
             losses' = [losses EXCEPT ![f] = @ + 1], JOBS' = FailJobs(f, own)
      PROVE  Blamed(j)
  <2>1. byJob[j] = f
    BY <1>3 DEF FailJobs
  <2>2. losses[f] \in Nat
    BY <1>1, JobsAssumption DEF RecordsTyped, JobsAssumption
  <2>3. losses'[f] = losses[f] + 1
    BY <1>1, <1>3 DEF RecordsTyped
  <2> QED
    BY <1>1, <2>1, <2>2, <2>3 DEF Blamed
<1>4. ASSUME NEW r \in Requests, Arrives(r) PROVE Blamed(j)
  BY <1>1, <1>4 DEF Arrives, PrepareArrives, PushArrives, IngestArrives, SubmitArrives,
                    TurnedAway, SetState, RecordsTyped
<1>5. ASSUME NEW r \in Requests, \/ PrepareReplied(r) \/ SubmitPrepared(r) \/ Replied(r)
                                 \/ PushMalformed(r) \/ Refused(r)
      PROVE  Blamed(j)
  <2>1. pc[r] # "done" /\ JobOf[r] = j
    BY <1>1, <1>5 DEF PrepareReplied, SubmitPrepared, Replied, PushMalformed, Refused,
                      SetState, RecordsTyped
  <2>2. \E status \in Statuses : Respond(r, status)
    BY <1>1, <1>5, <2>1 DEF PrepareReplied, SubmitPrepared, Replied, PushMalformed, Refused,
                      SetState, RecordsTyped, Statuses
  <2> QED
    BY <1>2, <2>1, <2>2
<1>6. ASSUME NEW r \in Requests, \/ PushHeader(r) \/ PushBody(r) \/ PushAborted(r)
                                 \/ Resolved(r) \/ ResolvedToNothing(r)
      PROVE  Blamed(j)
  BY <1>1, <1>6 DEF PushHeader, PushBody, PushAborted, Resolved, ResolvedToNothing,
                    SetState, RecordsTyped
<1>7. ASSUME NEW r \in Requests, Lose(r) PROVE Blamed(j)
  <2>1. at[r] \in Flights /\ pc[r] # "done" /\ Respond(r, 503)
    BY <1>7, AtFlight, <1>1 DEF Lose
  <2>2. CASE pc[r] = "command" /\ JobOf[r] = j
    BY <1>2, <2>1, <2>2 DEF Statuses
  <2>3. CASE ~(pc[r] = "command" /\ JobOf[r] = j)
    BY <1>1, <1>3, <1>7, <2>1, <2>3 DEF Lose
  <2> QED
    BY <2>2, <2>3
<1>8. ASSUME NEW f \in Flights, LossWhileIdle(f) PROVE Blamed(j)
  BY <1>1, <1>3, <1>8 DEF LossWhileIdle
<1> QED
  BY <1>4, <1>5, <1>6, <1>7, <1>8 DEF Next, Arrives, Continues

-----------------------------------------------------------------------------
(* The theorems.                                                           *)

\* Nothing is prepared, nobody has come, and the locks are free.
LEMMA InitJobs == Init => JobsInv
<1> SUFFICES ASSUME Init PROVE JobsInv
  OBVIOUS
<1>1. MaxLosses \in Nat /\ None \notin Nat
  BY JobsAssumption DEF JobsAssumption
<1>2. RecordsTyped
  BY <1>1 DEF Init, RecordsTyped
<1>3. RequestsTyped
  BY DEF Init, RequestsTyped
<1>4. LocksTyped
  <2>1. <<>> \in Seq(Requests)
    OBVIOUS
  <2> QED
    BY <2>1 DEF Init, LocksTyped
<1>5. LocksList
  <2>1. \A f \in Flights : /\ InLock[f] = {} /\ InPushLock[f] = {}
                           /\ lock[f] = <<>> /\ pushLock[f] = <<>>
    BY DEF Init, InLock, InPushLock, Commanding, Delivering
  <2> QED
    BY <2>1, QueueOfNobody DEF LocksList
<1>6. OwnAwaits /\ BlockKept
  BY DEF Init, OwnAwaits, BlockKept, StreamsHoldPushLock, StreamsBeganBlock, BlockIsTheJobs
<1>7. Routed /\ RecordsStay /\ RecordAgreesWithReply
  BY <1>1 DEF Init, Routed, RecordsStay, RecordAgreesWithReply, Delivering
<1>8. RecordsComeLate
  BY JobsAssumption DEF Init, RecordsComeLate, JobsAssumption
<1> QED
  BY <1>2, <1>3, <1>4, <1>5, <1>6, <1>7, <1>8 DEF JobsInv, LockInv, RecordInv

\* Every step keeps the three parts of the invariant.
LEMMA StepKeepsJobs == JobsInv /\ [Next]_vars => JobsInv'
<1> SUFFICES ASSUME JobsInv, [Next]_vars PROVE JobsInv'
  OBVIOUS
<1>1. CASE Next
  <2>1. RecordsTyped /\ LockInv
    BY DEF JobsInv
  <2>2. RecordsTyped' /\ LockInv'
    BY <1>1, <2>1, RecordsTypedStep, LockInvStep
  <2>3. Routed' /\ RecordsComeLate' /\ RecordsStay' /\ RecordAgreesWithReply'
    BY <1>1, RoutedStep, LifetimesStep, RecordAgreesStep
  <2> QED
    BY <2>2, <2>3 DEF JobsInv, RecordInv
<1>2. CASE UNCHANGED vars
  <2>1. /\ UNCHANGED <<locks, block, requests>>
        /\ UNCHANGED <<JOBS, byJob, SUBMITTED, losses>>
    BY <1>2 DEF vars
  <2>2. LockInv'
    BY <2>1, LocksUntouched DEF JobsInv
  <2>3. RecordsTyped' /\ RecordInv'
    BY <2>1 DEF JobsInv, RecordsTyped, RecordInv, Routed, RecordsComeLate, RecordsStay,
                RecordAgreesWithReply, SoleDelivery, requests
  <2> QED
    BY <2>2, <2>3 DEF JobsInv
<1> QED
  BY <1>1, <1>2

\* The inductive invariant of the handlers, their locks and the records.
THEOREM JobsInvariant ==
    Spec => []JobsInv
<1> QED
  BY InitJobs, StepKeepsJobs, PTL DEF Spec

\* The records, the routes, the locks and the requests have the types the code
\* gives them, and a request is at a flight exactly while it is neither idle nor
\* answered.
THEOREM JobsTyped ==
    Spec => []TypeOK
<1>1. JobsInv => TypeOK
  BY DEF JobsInv, LockInv, RecordsTyped, LocksTyped, RequestsTyped, TypeOK, Awaits, Statuses
<1> QED
  BY <1>1, JobsInvariant, PTL

\* However many pushes meet on a flight, and wherever they are cut off, a push
\* whose command is queued or running finds its own whole body in the block
\* (push_lock in push).
THEOREM BlockBelongsToItsPush ==
    Spec => []BlockIsTheJobs
<1>1. JobsInv => BlockIsTheJobs
  BY DEF JobsInv, LockInv, BlockKept
<1> QED
  BY <1>1, JobsInvariant, PTL

\* A delivery is at the flight its job is routed to, in every state, with any
\* number of flights, jobs and requests (route, for_push).
THEOREM WorkStaysWhereRouted ==
    Spec => []WorkedWhereRouted
<1>1. JobsInv => WorkedWhereRouted
  BY DEF JobsInv, RecordInv, Routed, WorkedWhereRouted, Delivering
<1> QED
  BY <1>1, JobsInvariant, PTL

\* What the producer was told stays what /status and /result say, whatever is
\* lost afterwards (push, ingest, _fail_jobs).
THEOREM RecordsMatchReplies ==
    Spec => []RecordAgreesWithReply
<1>1. JobsInv => RecordAgreesWithReply
  BY DEF JobsInv, RecordInv
<1> QED
  BY <1>1, JobsInvariant, PTL

\* The loss of a flight fails no job of another one (_fail_jobs).
THEOREM LossesStayApart ==
    Spec => LossStaysOnItsFlight
<1> DEFINE Step == \A j \in JobIds : JOBS'[j] = "ERROR" /\ JOBS[j] # "ERROR" => Blamed(j)
<1>1. JobsInv /\ [Next]_vars => [Step]_vars
  BY FailureHasACause
<1>2. [Step]_vars <=> [\A j \in JobIds :
          JOBS'[j] = "ERROR" /\ JOBS[j] # "ERROR" =>
             \/ \E r \in Requests : JobOf[r] = j /\ reply[r] = None /\ reply'[r] # None
             \/ byJob[j] # None /\ losses'[byJob[j]] > losses[byJob[j]]]_vars
  BY DEF Blamed
<1> QED
  BY <1>1, <1>2, JobsInvariant, PTL DEF Spec, LossStaysOnItsFlight
=============================================================================
