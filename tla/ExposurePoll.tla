---------------------------- MODULE ExposurePoll ----------------------------
(***************************************************************************)
(* trigger.py: the camera's hook waits until the files of one exposure have  *)
(* stopped growing and hands their directory to the server.  Time is a       *)
(* clock in ticks.  The hook may be descheduled, for at most MaxLag, within  *)
(* a poll and when it wakes; the writer of a file stalls for at most         *)
(* MaxStall, may start a whole file over, as fast as it likes, and puts the  *)
(* sidecar beside it whenever it likes.                                    *)
(*                                                                         *)
(* The server is what it does to this one request: it answers, says nothing, *)
(* or lets bytes trickle so that no socket timeout ever fires.               *)
(***************************************************************************)
EXTENDS Naturals, FiniteSets, FiniteSetsExt, Functions

CONSTANTS
    Files,           \* one file per corner sensor: EXPECTED_SENSORS of them
    Full,            \* the size of a finished file, in writes
    MaxRewrites,     \* how often the writer may start a file over, of any file
    MaxStall,        \* longest pause of the writer in a file it has not finished
    MaxLag,          \* longest delay within a poll, and of a wakeup
    Interval, Settle, Timeout,
    Detached,        \* whether the hook runs in a session of its own
    RequestTimeout,  \* timeout + 300: the socket's
    Watchdog,        \* timeout + 600: the alarm of a detached hook
    MaxTime,         \* bound of the clock
    None

\* main's checks of its arguments, and the room its two backstops leave.
ASSUME ExposurePollAssumption ==
    /\ IsFiniteSet(Files) /\ Files # {}
    /\ {Full, Interval, Settle, Timeout, RequestTimeout} \subseteq Nat \ {0}
    /\ {MaxRewrites, MaxStall, MaxLag, MaxTime} \subseteq Nat
    /\ Watchdog > Timeout
    /\ None \notin Nat

VARIABLES
    now,
    disk,        \* file -> its size (0: not there), its sidecar, the rewrites to come,
                 \* left: how long it may stay as it is, and when it was last
                 \* started over, or None
    finishedAt,  \* when the last write of the exposure was done, or None
    pc,          \* where the hook is
    since,       \* polled_at during a poll, the time to wake up in a sleep,
                 \* and when the request left
    toStat,      \* the paths of the glob that are still to be looked at
    found,       \* poll_once's sensors with their sizes
    previous, previousAt, completeAt,    \* wait_for_exposure's locals
    server,      \* "quiet" or "trickles": what it does until it answers, or None
    exit         \* the status of the process and why, or None

hookVars == <<pc, since, toStat, found, previous, previousAt, completeAt, exit>>
vars == <<now, disk, finishedAt, hookVars, server>>

-----------------------------------------------------------------------------
(* The writer and the clock.                                               *)

Whole(d) == d.size = Full /\ d.todo = 0 /\ d.sidecar

Watched == pc \notin {"settled", "submitted", "exited"}

Put(f, new) ==
    /\ Watched
    /\ disk' = [disk EXCEPT ![f] = new]
    /\ finishedAt' = IF \A g \in Files : Whole(disk'[g]) THEN now ELSE None
    /\ UNCHANGED <<now, hookVars, server>>

\* The DAQ writes the next piece of a file, the first one creating it.
Grow(f) ==
    /\ disk[f].size < Full
    /\ Put(f, [disk[f] EXCEPT !.size = @ + 1, !.left = MaxStall])

PutSidecar(f) ==
    /\ disk[f].size > 0 /\ ~disk[f].sidecar
    /\ Put(f, [disk[f] EXCEPT !.sidecar = TRUE])

\* The camera's script starts a file over; it may be back at its full size before
\* the hook looks again.
Rewrite(f) ==
    /\ disk[f].size = Full /\ disk[f].todo > 0
    /\ Put(f, [disk[f] EXCEPT !.size = 0, !.todo = @ - 1, !.left = 0,
                            !.started = now])

\* A file that waits for its next write; an absent one may be absent for ever.
Unfinished(f) == disk[f].size > 0 /\ ~(disk[f].size = Full /\ disk[f].todo = 0)

HookOverdue == pc \in {"sleeping", "glob", "stat"} /\ now >= since + MaxLag

Tick ==
    /\ now < MaxTime /\ pc \notin {"start", "exited"} /\ ~HookOverdue
    /\ Watched => \A f \in Files : Unfinished(f) => disk[f].left > 0
    /\ now' = now + 1
    /\ disk' = [f \in Files |-> [disk[f] EXCEPT !.left = IF @ > 0 THEN @ - 1 ELSE 0]]
    /\ UNCHANGED <<finishedAt, hookVars, server>>

-----------------------------------------------------------------------------
(* The hook.                                                               *)

Exit(status, why) ==
    /\ pc' = "exited" /\ exit' = [status |-> status, why |-> why]
    /\ found' = <<>> /\ toStat' = {}
    /\ UNCHANGED <<now, disk, finishedAt, since, previous, previousAt, completeAt,
                   server>>

\* main: no token, and the host is not this one.
Unauthorized == pc = "start" /\ Exit(2, "token")

\* The parent of a detached hook is gone by now; the child has armed its alarm.
Start ==
    /\ pc = "start" /\ pc' = "sleeping" /\ since' = now
    /\ UNCHANGED <<now, disk, finishedAt, toStat, found, previous, previousAt,
                   completeAt, server, exit>>

\* polled_at is read before the poll looks at anything.
Wake ==
    /\ pc = "sleeping" /\ now >= since
    /\ pc' = "glob" /\ since' = now
    /\ UNCHANGED <<now, disk, finishedAt, toStat, found, previous, previousAt,
                   completeAt, server, exit>>

Glob ==
    /\ pc = "glob" /\ pc' = "stat"
    /\ toStat' = {f \in Files : disk[f].size > 0}
    /\ UNCHANGED <<now, disk, finishedAt, since, found, previous, previousAt,
                   completeAt, server, exit>>

\* A file without its sidecar, and one that vanished since the glob, is absent.
Stat(f) ==
    /\ pc = "stat" /\ f \in toStat
    /\ toStat' = toStat \ {f}
    /\ found' = IF disk[f].sidecar /\ disk[f].size > 0
                THEN [x \in DOMAIN found \cup {f} |-> IF x = f THEN disk[f].size ELSE found[x]]
                ELSE found
    /\ UNCHANGED <<now, disk, finishedAt, pc, since, previous, previousAt,
                   completeAt, server, exit>>

\* Broken: a change does not restart the window.
CompleteSinceFirst ==
    IF completeAt = None /\ DOMAIN found = Files /\ found = previous
    THEN previousAt ELSE completeAt

\* complete_at: the poll that first saw every final size; any change forgets it.
CompleteSince ==
    IF DOMAIN found # Files \/ found # previous THEN None
    ELSE IF completeAt = None THEN previousAt ELSE completeAt

Polled == pc = "stat" /\ toStat = {}

SettledNow == CompleteSince # None /\ since - CompleteSince >= Settle

Returns ==
    /\ Polled /\ SettledNow
    /\ pc' = "settled" /\ completeAt' = CompleteSince
    /\ found' = <<>> /\ previous' = <<>>
    /\ UNCHANGED <<now, disk, finishedAt, since, toStat, previousAt, server, exit>>

PollsAgain ==
    /\ Polled /\ ~SettledNow /\ now < Timeout
    /\ pc' = "sleeping" /\ since' = now + Min({Interval, Timeout - now})
    /\ previous' = found /\ previousAt' = since /\ completeAt' = CompleteSince
    /\ found' = <<>>
    /\ UNCHANGED <<now, disk, finishedAt, toStat, server, exit>>

\* Broken: no poll at the deadline itself.
GivesUpEarly ==
    Polled /\ ~SettledNow /\ now + Interval >= Timeout /\ Exit(1, "incomplete")

\* TimeoutError, which main reports as an exposure that never completed.
GivesUp == Polled /\ ~SettledNow /\ now >= Timeout /\ Exit(1, "incomplete")

Submit ==
    /\ pc = "settled" /\ pc' = "submitted" /\ since' = now
    /\ server' \in {"quiet", "trickles"}
    /\ UNCHANGED <<now, disk, finishedAt, toStat, found, previous, previousAt,
                   completeAt, exit>>

\* Any 2xx ends well, DRY_RUN and SKIPPED too, and so does a 409.
Answered == pc = "submitted" /\ Exit(0, "answered")

\* Another HTTP error, or a host that cannot be reached.
Failed == pc = "submitted" /\ Exit(1, "failed")

\* urlopen's timeout bounds the silence of the socket, not the whole answer.
RequestTimesOut ==
    /\ pc = "submitted" /\ server = "quiet"
    /\ now >= since + RequestTimeout
    /\ Exit(1, "silence")

\* Broken: the alarm is armed for the poll alone.
AlarmAfterPoll == Detached /\ pc = "stat" /\ now >= Watchdog /\ Exit(1, "watchdog")

\* SIGALRM, wherever the process is.
Alarm ==
    /\ Detached /\ pc # "exited" /\ now >= Watchdog
    /\ Exit(1, "watchdog")

-----------------------------------------------------------------------------
Init ==
    /\ now = 0 /\ finishedAt = None
    /\ \E todo \in [Files -> 0..MaxRewrites] :
         /\ FoldFunction(+, 0, todo) <= MaxRewrites
         /\ disk = [f \in Files |-> [size |-> 0, sidecar |-> FALSE,
                                    todo |-> todo[f], left |-> 0,
                                    started |-> None]]
    /\ pc = "start" /\ since = 0 /\ toStat = {}
    /\ found = <<>> /\ previous = <<>> /\ previousAt = 0 /\ completeAt = None
    /\ server = None /\ exit = None

Writer == \E f \in Files : Grow(f) \/ PutSidecar(f) \/ Rewrite(f)

Hook == \/ Unauthorized \/ Start \/ Wake \/ Glob
        \/ \E f \in Files : Stat(f)
        \/ Returns \/ PollsAgain \/ GivesUp
        \/ Submit \/ RequestTimesOut \/ Alarm

Next == Tick \/ Writer \/ Hook \/ Answered \/ Failed

Spec == Init /\ [][Next]_vars

\* The host runs the hook, the clock goes on, and a writer that has begun a file
\* goes on with it; a server need never answer.
FairSpec == Spec /\ WF_vars(Hook) /\ WF_vars(Tick) /\ WF_vars(Writer)

-----------------------------------------------------------------------------
(* Properties.                                                             *)

\* The last time the file was started over is not before t.
StartedSince(f, t) == disk[f].started # None /\ disk[f].started >= t

\* What is handed to the server is finished: no file of the exposure will be
\* written again ("settle_time is the safety property -- how long a write may
\* stall without being mistaken for a finished file").  Except for a file that was
\* started over within the window and was back at its size at every look, which a
\* comparison of sizes cannot tell from one that did not move.
SettledMeansFinished ==
    pc \in {"settled", "submitted"} =>
        \A f \in Files : Whole(disk[f]) \/ StartedSince(f, completeAt)

\* What the hook makes of an exposure is true of it.  When it settles, the time
\* every latency is counted from is when the last byte landed, to the length of
\* a poll before it, unless a file was started over unseen, and of a poll and a
\* sleep after it, whatever the files did; when it gives up, the exposure was not
\* finished the guard, one interval and three delays before the deadline, for the
\* last poll comes at the deadline and settles before it gives up.
\* (trigger.py:236, :251.)
OutcomeIsHonest ==
    /\ pc \in {"settled", "submitted"} /\ finishedAt # None =>
           /\ \/ finishedAt <= completeAt + MaxLag
              \/ \E f \in Files : StartedSince(f, completeAt)
           /\ completeAt <= finishedAt + Interval + 2 * MaxLag
    /\ exit # None /\ exit.why = "incomplete" =>
           \/ finishedAt = None
           \/ finishedAt + Settle + Interval + 3 * MaxLag > Timeout

\* A detached hook, which nothing supervises, ends, whatever the camera and the
\* server do: a server that trickles is the alarm's.
HookEnds == Detached => <>(pc = "exited")
=============================================================================
