------------------------ MODULE ExposurePollProofs ------------------------
(***************************************************************************)
(* What the hook hands over is finished, and what it says of an exposure is  *)
(* true, for any number of files of any size, any settle window, interval    *)
(* and deadline.                                                           *)
(*                                                                         *)
(* No variable remembers what a file did since a poll saw it, so the         *)
(* invariant says it of the file as it is now: it is finished; or it is what *)
(* was seen and its writer may pause only so much longer; or it has grown    *)
(* past it; or it was started over since, and the looks can tell nothing.    *)
(***************************************************************************)
EXTENDS ExposurePoll, TLAPS

\* What the settle window is for: it exceeds the longest pause of a writer and a
\* delay of the hook.
WindowIsWideEnough == MaxStall + MaxLag < Settle

-----------------------------------------------------------------------------
(* The inductive invariant.                                                *)

Sizes(sizes) ==
    /\ DOMAIN sizes \subseteq Files
    /\ sizes \in [DOMAIN sizes -> 1..Full]

FileState == [size : 0..Full, sidecar : BOOLEAN, todo : Nat, left : Nat,
              started : Nat \cup {None}]

Typed ==
    /\ now \in Nat /\ since \in Nat /\ previousAt \in Nat
    /\ finishedAt \in Nat \cup {None} /\ completeAt \in Nat \cup {None}
    /\ disk \in [Files -> FileState]
    /\ pc \in {"start", "sleeping", "glob", "stat", "settled", "submitted", "exited"}
    /\ toStat \subseteq Files /\ Sizes(found) /\ Sizes(previous)
    /\ pc \notin {"stat"} => found = <<>>

\* finishedAt is when the exposure was done, and a writer's pause is bounded.
DiskInv ==
    /\ finishedAt # None => finishedAt <= now
    /\ finishedAt # None <=> \A f \in Files : Whole(disk[f])
    /\ \A f \in Files : disk[f].size > 0 => disk[f].left <= MaxStall

Polling == pc \in {"sleeping", "glob", "stat"}

\* The poll the settle window is measured from, should the next one match.
Base == IF completeAt = None THEN previousAt ELSE completeAt

\* The hook's clock: polls are no further apart than an interval and two delays.
ClockInv ==
    /\ pc = "start" => now = 0 /\ previousAt = 0 /\ previous = <<>> /\ completeAt = None
    /\ Polling => /\ Base <= previousAt /\ previousAt <= now /\ now <= since + MaxLag
                  /\ since <= previousAt + Interval
                                + (IF pc = "sleeping" THEN MaxLag ELSE 2 * MaxLag)
    /\ pc \in {"glob", "stat"} => since <= now /\ previousAt <= since

\* A file a poll saw at size s; b is the first of the polls in a row that saw it so.
SeenAs(f, s, b) ==
    \/ s = Full /\ Whole(disk[f])
    \/ /\ disk[f].size = s /\ disk[f].sidecar /\ Unfinished(f)
       /\ disk[f].left + now <= b + MaxLag + MaxStall
    \/ disk[f].size > s
    \/ StartedSince(f, b)

Matches(f) == f \in DOMAIN previous /\ found[f] = previous[f]

\* What settling says of a file that was seen at size s (SettledMeansFinished).
Done(f, s, b) == (s = Full /\ Whole(disk[f])) \/ StartedSince(f, b)

\* What the last poll and the one under way have seen still tells of the files; a
\* file that looked the same for the whole window is finished or was started over.
SeenInv ==
    Polling =>
        /\ \A f \in DOMAIN previous : SeenAs(f, previous[f], Base)
        /\ \A f \in DOMAIN found :
               /\ SeenAs(f, found[f], since)
               /\ Matches(f) => SeenAs(f, found[f], Base)
               /\ Matches(f) /\ since >= Base + Settle => Done(f, found[f], Base)

\* A poll that starts after the last write sees every file whole, so the window
\* begins no later than the poll after it; and a window begins no earlier than the
\* last write, unless a file was started over in it.
FreshInv ==
    Polling /\ finishedAt # None =>
        /\ Base <= finishedAt + Interval + 2 * MaxLag
        /\ previousAt > finishedAt => \A f \in Files : f \in DOMAIN previous /\ previous[f] = Full
        /\ pc = "stat" /\ since > finishedAt =>
               /\ Files = toStat \cup DOMAIN found
               /\ \A f \in DOMAIN found : found[f] = Full
        /\ (\A f \in Files : f \in DOMAIN previous /\ previous[f] = Full)
               => \/ finishedAt <= Base + MaxLag
                  \/ \E f \in Files : StartedSince(f, Base)

\* A hook that has not ended has no outcome.
EndInv == pc # "exited" => exit = None

PollInv == /\ Typed /\ DiskInv /\ ClockInv /\ SeenInv /\ FreshInv /\ EndInv
           /\ SettledMeansFinished /\ OutcomeIsHonest

-----------------------------------------------------------------------------
(* Lemmas about what a poll saw and about time.                            *)

\* The constants as numbers.
LEMMA ConstantFacts ==
    /\ Full \in Nat \ {0} /\ Interval \in Nat \ {0} /\ Settle \in Nat \ {0}
    /\ Timeout \in Nat \ {0}
    /\ MaxStall \in Nat /\ MaxLag \in Nat /\ MaxRewrites \in Nat
    /\ None \notin Nat /\ Files # {}
BY ExposurePollAssumption

\* A poll that saw nothing.
LEMMA NothingSeen ==
    DOMAIN << >> = {} /\ Sizes(<< >>)
<1>1. DOMAIN << >> = {}
  OBVIOUS
<1>2. << >> \in [{} -> 1..Full]
  OBVIOUS
<1> QED
  BY <1>1, <1>2 DEF Sizes

\* A sleep is an interval at the longest (wait_for_exposure's min).
LEMMA SleepIsShort ==
    ASSUME NEW a \in Nat, NEW b \in Nat
    PROVE  Min({a, b}) \in Nat /\ Min({a, b}) <= a
<1>1. \E x \in {a, b} : \A y \in {a, b} : x <= y
  BY SMT
<1>2. Min({a, b}) \in {a, b} /\ \A y \in {a, b} : Min({a, b}) <= y
  BY <1>1 DEF Min
<1> QED
  BY <1>2

\* One write to one file: what all three actions of the writer have in common.
Wrote(f) ==
    /\ Watched
    /\ \E new \in FileState :
           /\ disk' = [disk EXCEPT ![f] = new]
           /\ new.size > 0 => new.left <= MaxStall
           \* the next piece
           /\ \/ /\ disk[f].size < Full /\ new.size = disk[f].size + 1
                 /\ new.started = disk[f].started
              \* the sidecar
              \/ /\ ~disk[f].sidecar /\ new.size = disk[f].size
                 /\ new.left = disk[f].left /\ new.todo = disk[f].todo
                 /\ new.started = disk[f].started
              \* started over
              \/ disk[f].todo > 0 /\ new.size = 0 /\ new.started = now
    /\ finishedAt' = IF \A g \in Files : Whole(disk'[g]) THEN now ELSE None
    /\ UNCHANGED <<now, hookVars, server>>

\* The writer's three actions are such writes.
LEMMA WriterWrites ==
    ASSUME Typed, DiskInv, Writer
    PROVE  \E f \in Files : Wrote(f)
<1>1. PICK f \in Files : Grow(f) \/ PutSidecar(f) \/ Rewrite(f)
  BY DEF Writer
<1>2. disk[f] \in FileState /\ (disk[f].size > 0 => disk[f].left <= MaxStall)
  BY <1>1 DEF Typed, DiskInv
<1>3. CASE Grow(f)
  <2> DEFINE new == [disk[f] EXCEPT !.size = @ + 1, !.left = MaxStall]
  <2> DEFINE size == disk[f].size + 1
  <2>a. size \in 0..Full
    BY <1>2, <1>3, ConstantFacts DEF Grow, FileState
  <2>b. new = [disk[f] EXCEPT !.size = size, !.left = MaxStall]
    OBVIOUS
  <2> HIDE DEF size
  <2>c. /\ new \in FileState /\ new.size = size /\ new.left = MaxStall
        /\ new.started = disk[f].started
    BY <1>2, <2>a, <2>b, ConstantFacts DEF FileState
  <2>1. /\ new \in FileState /\ new.size = disk[f].size + 1 /\ new.left = MaxStall
        /\ new.started = disk[f].started
    BY <2>c DEF size
  <2>2. Put(f, new) /\ disk[f].size < Full
    BY <1>3 DEF Grow
  <2> HIDE DEF new
  <2>3. new.left <= MaxStall
    BY <2>1, ConstantFacts
  <2>4. /\ disk' = [disk EXCEPT ![f] = new] /\ Watched
        /\ finishedAt' = IF \A g \in Files : Whole(disk'[g]) THEN now ELSE None
        /\ UNCHANGED <<now, hookVars, server>>
    BY <2>2 DEF Put
  <2>5. Wrote(f)
    BY <2>1, <2>2, <2>3, <2>4, Zenon DEF Wrote
  <2> QED
    BY <1>1, <2>5
<1>4. CASE PutSidecar(f)
  <2> DEFINE new == [disk[f] EXCEPT !.sidecar = TRUE]
  <2>1. /\ new \in FileState /\ new.size = disk[f].size
        /\ new.left = disk[f].left /\ new.todo = disk[f].todo
        /\ new.started = disk[f].started
    BY <1>2 DEF FileState
  <2>2. Put(f, new) /\ ~disk[f].sidecar
    BY <1>4 DEF PutSidecar
  <2> HIDE DEF new
  <2>3. Wrote(f)
    BY <1>2, <2>1, <2>2 DEF Put, Wrote
  <2> QED
    BY <1>1, <2>3
<1>5. CASE Rewrite(f)
  <2> DEFINE new == [disk[f] EXCEPT !.size = 0, !.todo = @ - 1, !.left = 0, !.started = now]
  <2> DEFINE todo == disk[f].todo - 1
  <2>a. todo \in Nat /\ 0 \in 0..Full /\ now \in Nat
    BY <1>2, <1>5, ConstantFacts DEF Rewrite, FileState, Typed
  <2>b. new = [disk[f] EXCEPT !.size = 0, !.todo = todo, !.left = 0, !.started = now]
    OBVIOUS
  <2> HIDE DEF todo
  <2>1. new \in FileState /\ new.size = 0 /\ new.started = now
    BY <1>2, <2>a, <2>b, ConstantFacts DEF FileState
  <2>2. Put(f, new) /\ disk[f].todo > 0
    BY <1>5 DEF Rewrite
  <2> HIDE DEF new
  <2>3. ~(new.size > 0)
    BY <2>1
  <2>4. /\ disk' = [disk EXCEPT ![f] = new] /\ Watched
        /\ finishedAt' = IF \A g \in Files : Whole(disk'[g]) THEN now ELSE None
        /\ UNCHANGED <<now, hookVars, server>>
    BY <2>2 DEF Put
  <2>5. Wrote(f)
    BY <2>1, <2>2, <2>3, <2>4, Zenon DEF Wrote
  <2> QED
    BY <1>1, <2>5
<1> QED
  BY <1>1, <1>3, <1>4, <1>5

\* Nothing is written to a file that is whole.
LEMMA WholeStays ==
    ASSUME Typed, NEW g \in Files, Wrote(g), NEW f \in Files, Whole(disk[f])
    PROVE  Whole(disk'[f])
<1>1. PICK new \in FileState :
          /\ disk' = [disk EXCEPT ![g] = new]
          /\ \/ disk[g].size < Full \/ ~disk[g].sidecar \/ disk[g].todo > 0
  BY DEF Wrote
<1>2. f # g
  BY <1>1, ConstantFacts DEF Whole, Typed, FileState
<1> QED
  BY <1>1, <1>2 DEF Typed

\* What a poll saw of a file goes on to tell of it as the writer writes.
LEMMA SeenThroughWrites ==
    ASSUME Typed, DiskInv, NEW g \in Files, Wrote(g),
           NEW f \in Files, NEW s \in 1..Full, NEW b \in Nat, b <= now,
           SeenAs(f, s, b)
    PROVE  SeenAs(f, s, b)'
<1>1. PICK new \in FileState :
          /\ disk' = [disk EXCEPT ![g] = new]
          /\ \/ /\ disk[g].size < Full /\ new.size = disk[g].size + 1
                /\ new.started = disk[g].started
             \/ /\ ~disk[g].sidecar /\ new.size = disk[g].size
                /\ new.left = disk[g].left /\ new.todo = disk[g].todo
                /\ new.started = disk[g].started
             \/ disk[g].todo > 0 /\ new.size = 0 /\ new.started = now
  BY DEF Wrote
<1>2. now' = now /\ disk \in [Files -> FileState]
  BY DEF Wrote, Typed
<1>3. CASE f # g
  <2>1. disk'[f] = disk[f]
    BY <1>1, <1>2, <1>3
  <2> QED
    BY <1>2, <2>1 DEF SeenAs, Unfinished, StartedSince
<1>4. CASE f = g
  <2>1. disk'[f] = new
    BY <1>1, <1>2, <1>4
  <2>2. /\ disk[f] \in FileState /\ now \in Nat
        /\ disk[f].size \in Nat /\ disk[f].left \in Nat /\ disk[f].todo \in Nat
        /\ disk[f].size <= Full /\ new.size \in Nat /\ new.left \in Nat /\ new.todo \in Nat
    BY SMTT(40), <1>2, ConstantFacts DEF FileState, Typed
  <2>3. CASE s = Full /\ Whole(disk[f])
    BY <1>4, <2>3, WholeStays DEF SeenAs, StartedSince
  <2>4. CASE disk[f].size = s /\ disk[f].sidecar
    BY <1>1, <1>2, <1>4, <2>1, <2>2, <2>4, ConstantFacts DEF SeenAs, StartedSince
  <2>5. CASE disk[f].size > s
    BY <1>1, <1>2, <1>4, <2>1, <2>2, <2>5, ConstantFacts DEF SeenAs, StartedSince
  <2>6. CASE StartedSince(f, b)
    BY <1>1, <1>2, <1>4, <2>1, <2>2, <2>6, ConstantFacts DEF SeenAs, StartedSince
  <2> QED
    BY <2>3, <2>4, <2>5, <2>6 DEF SeenAs, StartedSince
<1> QED
  BY <1>3, <1>4

\* What the clock does to a file.
LEMMA TickFile ==
    ASSUME Typed, Tick, NEW f \in Files
    PROVE  /\ now' = now + 1
           /\ disk'[f].size = disk[f].size /\ disk'[f].sidecar = disk[f].sidecar
           /\ disk'[f].todo = disk[f].todo /\ disk'[f] \in FileState
           /\ disk'[f].started = disk[f].started
           /\ disk'[f].left = IF disk[f].left > 0 THEN disk[f].left - 1 ELSE 0
           /\ Watched /\ Unfinished(f) => disk[f].left > 0
           /\ disk[f] \in FileState
BY DEF Tick, Typed, FileState

\* It goes on to tell of it as time passes.
LEMMA SeenThroughTicks ==
    ASSUME Typed, Tick, Watched,
           NEW f \in Files, NEW s \in 1..Full, NEW b \in Nat,
           SeenAs(f, s, b)
    PROVE  SeenAs(f, s, b)'
<1>1. disk[f].size \in Nat /\ disk[f].left \in Nat /\ now \in Nat
  BY TickFile, ConstantFacts DEF FileState, Typed
<1>2. CASE s = Full /\ Whole(disk[f])
  BY <1>2, TickFile DEF SeenAs, Whole, StartedSince
<1>3. CASE /\ disk[f].size = s /\ disk[f].sidecar /\ Unfinished(f)
           /\ disk[f].left + now <= b + MaxLag + MaxStall
  BY <1>1, <1>3, TickFile, ConstantFacts DEF SeenAs, Unfinished, StartedSince
<1>4. CASE disk[f].size > s
  BY <1>4, TickFile DEF SeenAs, StartedSince
<1>5. CASE StartedSince(f, b)
  BY <1>5, TickFile DEF SeenAs, StartedSince
<1> QED
  BY <1>2, <1>3, <1>4, <1>5 DEF SeenAs, StartedSince

-----------------------------------------------------------------------------
(* Every step keeps the invariant.                                         *)

\* The facts about types that the steps use, one by one.
LEMMA TypedFacts ==
    ASSUME Typed
    PROVE  /\ now \in Nat /\ since \in Nat /\ previousAt \in Nat
           /\ Base \in Nat /\ DOMAIN found \subseteq Files /\ DOMAIN previous \subseteq Files
           /\ \A f \in DOMAIN found : found[f] \in 1..Full
           /\ \A f \in DOMAIN previous : previous[f] \in 1..Full
           /\ \A f \in Files : disk[f] \in FileState
BY DEF Typed, Base, Sizes

\* The files begin absent and the hook has seen nothing (main).
LEMMA InitPoll == Init => PollInv
<1> SUFFICES ASSUME Init PROVE PollInv
  OBVIOUS
<1>1. PICK todo \in [Files -> 0..MaxRewrites] :
          disk = [f \in Files |-> [size |-> 0, sidecar |-> FALSE, todo |-> todo[f], left |-> 0,
                                    started |-> None]]
  BY DEF Init
<1>2. \A f \in Files : /\ disk[f] \in FileState /\ disk[f].size = 0 /\ ~Whole(disk[f])
  BY <1>1, ConstantFacts DEF FileState, Whole
<1>3. Typed
  <2>1. disk \in [Files -> FileState]
    BY <1>1, <1>2
  <2> QED
    BY <2>1, NothingSeen DEF Init, Typed
<1>4. DiskInv
  <2>1. finishedAt = None /\ ~(\A f \in Files : Whole(disk[f]))
    BY <1>2, ConstantFacts DEF Init
  <2> QED
    BY <1>2, <2>1 DEF DiskInv
<1> QED
  BY <1>3, <1>4 DEF Init, PollInv, ClockInv, SeenInv, FreshInv, EndInv, Polling,
                    SettledMeansFinished, OutcomeIsHonest, StartedSince

\* The writer touches a file (Grow, PutSidecar, Rewrite).
LEMMA WriterStep ==
    ASSUME WindowIsWideEnough, PollInv, NEW g \in Files, Wrote(g)
    PROVE  PollInv'
<1>1. Typed /\ DiskInv /\ ClockInv /\ SeenInv /\ FreshInv /\ EndInv
  BY DEF PollInv
<1>2. PICK new \in FileState :
          disk' = [disk EXCEPT ![g] = new] /\ (new.size > 0 => new.left <= MaxStall)
  BY DEF Wrote
<1>3. /\ now' = now /\ pc' = pc /\ since' = since /\ toStat' = toStat /\ found' = found
      /\ previous' = previous /\ previousAt' = previousAt /\ completeAt' = completeAt
      /\ exit' = exit /\ Base' = Base
      /\ pc \notin {"settled", "submitted", "exited"}
  BY DEF Wrote, Watched, hookVars, Base
<1>4. /\ (\A f \in Files : Whole(disk'[f])) => finishedAt' = now
      /\ ~(\A f \in Files : Whole(disk'[f])) => finishedAt' = None
  BY DEF Wrote
<1>5. Typed'
  <2>1. disk' \in [Files -> FileState] /\ finishedAt' \in Nat \cup {None}
    BY <1>1, <1>2, <1>4 DEF Typed
  <2> QED
    BY <1>1, <1>3, <2>1 DEF Typed, Sizes
<1>6. DiskInv'
  <2>1. \A f \in Files : (disk'[f]).size > 0 => (disk'[f]).left <= MaxStall
    BY <1>1, <1>2 DEF DiskInv, Typed
  <2> QED
    BY <1>1, <1>3, <1>4, <2>1, ConstantFacts DEF DiskInv, Typed, Whole
<1>7. ClockInv'
  BY <1>1, <1>3 DEF ClockInv, Polling
<1>8. SeenInv'
  <2> SUFFICES ASSUME Polling PROVE SeenInv'
    BY <1>3 DEF SeenInv, Polling
  <2>1. Base <= now /\ (DOMAIN found # {} => since <= now)
    BY <1>1, TypedFacts, NothingSeen DEF ClockInv, Typed, Polling
  <2>2. \A f \in DOMAIN previous : SeenAs(f, previous[f], Base)'
    BY <1>1, <1>3, <2>1, TypedFacts, SeenThroughWrites DEF SeenInv
  <2>3. \A f \in DOMAIN found : SeenAs(f, found[f], since)'
    BY <1>1, <1>3, <2>1, TypedFacts, SeenThroughWrites DEF SeenInv
  <2>4. \A f \in DOMAIN found : Matches(f) => SeenAs(f, found[f], Base)'
    BY <1>1, <1>3, <2>1, TypedFacts, SeenThroughWrites DEF SeenInv
  <2>5. \A f \in DOMAIN found :
            Matches(f) /\ since >= Base + Settle => Done(f, found[f], Base)'
    <3>1. ASSUME NEW f \in Files, StartedSince(f, Base)
          PROVE  StartedSince(f, Base)'
      <4>1. disk'[f].started \in {disk[f].started, now}
        BY <1>1 DEF Wrote, Typed
      <4> QED
        BY <1>3, <2>1, <3>1, <4>1, ConstantFacts, TypedFacts, <1>1 DEF StartedSince
    <3>2. ASSUME NEW f \in DOMAIN found, Matches(f), since >= Base + Settle
          PROVE  Done(f, found[f], Base)'
      <4>1. f \in Files /\ Done(f, found[f], Base)
        BY <1>1, <3>2, TypedFacts DEF SeenInv
      <4> QED
        BY <1>1, <1>3, <3>1, <4>1, WholeStays DEF Done, StartedSince
    <3> QED
      BY <3>2
  <2> QED
    BY <1>3, <2>2, <2>3, <2>4, <2>5 DEF SeenInv, Matches, Polling, Whole
<1>9. FreshInv'
  <2> SUFFICES ASSUME Polling, \A f \in Files : Whole(disk'[f]) PROVE FreshInv'
    BY <1>3, <1>4 DEF FreshInv, Polling, StartedSince
  <2>1. /\ finishedAt' = now /\ now \in Nat /\ Base \in Nat /\ previousAt \in Nat
        /\ Base <= previousAt /\ previousAt <= now /\ (pc = "stat" => since <= now)
        /\ since \in Nat
    BY <1>1, <1>4, TypedFacts DEF ClockInv, Polling
  <2>2. ASSUME \A f \in Files : f \in DOMAIN previous /\ previous[f] = Full
        PROVE  StartedSince(g, Base)'
    <3>1. SeenAs(g, Full, Base)
      BY <1>1, <2>2 DEF SeenInv
    <3>2. disk[g] \in FileState /\ disk[g].size <= Full /\ disk[g].size \in Nat
      BY <1>1, ConstantFacts DEF Typed, FileState
    <3>4. \/ Whole(disk[g])
          \/ disk[g].size = Full /\ disk[g].sidecar /\ Unfinished(g)
          \/ StartedSince(g, Base)
      BY <3>1, <3>2, ConstantFacts DEF SeenAs, StartedSince
    <3>5. disk'[g] = new /\ new.size = Full /\ new.todo = 0 /\ new.sidecar
      BY <1>1, <1>2 DEF Whole, Typed
    <3>6. \/ /\ disk[g].size < Full /\ disk'[g].size = disk[g].size + 1
             /\ disk'[g].started = disk[g].started
          \/ /\ ~disk[g].sidecar /\ disk'[g].size = disk[g].size /\ disk'[g].todo = disk[g].todo
             /\ disk'[g].started = disk[g].started
          \/ disk[g].todo > 0 /\ disk'[g].size = 0
      BY <1>1, <1>2 DEF Wrote, Typed
    <3> QED
      BY <1>3, <3>2, <3>4, <3>5, <3>6, ConstantFacts DEF Whole, Unfinished, StartedSince
  <2> QED
    BY <1>3, <2>1, <2>2, ConstantFacts DEF FreshInv, Polling, StartedSince
<1> QED
  BY <1>1, <1>3, <1>5, <1>6, <1>7, <1>8, <1>9
     DEF PollInv, EndInv, SettledMeansFinished, OutcomeIsHonest, StartedSince

\* Time passes.
LEMMA TickStep ==
    ASSUME WindowIsWideEnough, PollInv, Tick
    PROVE  PollInv'
<1>1. Typed /\ DiskInv /\ ClockInv /\ SeenInv /\ FreshInv /\ EndInv
  BY DEF PollInv
<1>2. /\ now' = now + 1 /\ pc' = pc /\ since' = since /\ toStat' = toStat /\ found' = found
      /\ previous' = previous /\ previousAt' = previousAt /\ completeAt' = completeAt
      /\ exit' = exit /\ Base' = Base /\ finishedAt' = finishedAt
      /\ pc \notin {"start", "exited"}
  BY DEF Tick, hookVars, Base
<1>3. \A f \in Files : Whole(disk'[f]) <=> Whole(disk[f])
  BY <1>1, TickFile DEF Whole
<1>4. Typed'
  <2>1. disk' \in [Files -> FileState]
    BY <1>1, TickFile DEF Tick
  <2> QED
    BY <1>1, <1>2, <2>1 DEF Typed, Sizes
<1>5. DiskInv'
  <2>1. \A f \in Files : (disk'[f]).size > 0 => (disk'[f]).left <= MaxStall
    BY <1>1, TickFile, ConstantFacts DEF DiskInv, FileState
  <2> QED
    BY <1>1, <1>2, <1>3, <2>1 DEF DiskInv, Typed, Whole
<1>6. ClockInv'
  BY SMTT(40), <1>1, <1>2, ConstantFacts, TypedFacts DEF ClockInv, Polling, Tick, HookOverdue
<1>7. SeenInv'
  <2> SUFFICES ASSUME Polling, Watched PROVE SeenInv'
    BY <1>2 DEF SeenInv, Polling, Watched
  <2>1. \A f \in DOMAIN previous : SeenAs(f, previous[f], Base)'
    BY <1>1, <1>2, TypedFacts, SeenThroughTicks DEF SeenInv
  <2>2. \A f \in DOMAIN found : SeenAs(f, found[f], since)'
    BY <1>1, <1>2, TypedFacts, SeenThroughTicks DEF SeenInv
  <2>3. \A f \in DOMAIN found : Matches(f) => SeenAs(f, found[f], Base)'
    BY <1>1, <1>2, TypedFacts, SeenThroughTicks DEF SeenInv
  <2>4. \A f \in DOMAIN found :
            Matches(f) /\ since >= Base + Settle => Done(f, found[f], Base)'
    BY <1>1, <1>2, <1>3, TypedFacts, TickFile DEF SeenInv, Done, StartedSince
  <2> QED
    BY <1>2, <2>1, <2>2, <2>3, <2>4 DEF SeenInv, Matches, Polling, Whole
<1>8. \A f \in Files : disk'[f].started = disk[f].started
  BY <1>1, TickFile
<1>9. FreshInv'
  BY <1>1, <1>2, <1>8 DEF FreshInv, Polling, StartedSince
<1>10. SettledMeansFinished' /\ OutcomeIsHonest'
  BY <1>2, <1>3, <1>8 DEF PollInv, SettledMeansFinished, OutcomeIsHonest, StartedSince
<1> QED
  BY <1>1, <1>2, <1>4, <1>5, <1>6, <1>7, <1>9, <1>10 DEF PollInv, EndInv

\* The process ends: GivesUp is the one end that says of the exposure that it was
\* not complete.
LEMMA ExitStep ==
    ASSUME PollInv, NEW status, NEW why, Exit(status, why),
           why = "incomplete" /\ finishedAt # None
               => finishedAt + Settle + Interval + 3 * MaxLag > Timeout
    PROVE  PollInv'
<1>1. Typed /\ DiskInv /\ ClockInv
  BY DEF PollInv
<1>2. /\ now' = now /\ disk' = disk /\ finishedAt' = finishedAt /\ pc' = "exited"
      /\ since' = since /\ previous' = previous /\ previousAt' = previousAt
      /\ completeAt' = completeAt /\ found' = << >> /\ toStat' = {}
      /\ exit' = [status |-> status, why |-> why]
  BY DEF Exit
<1>3. Typed' /\ DiskInv'
  BY <1>1, <1>2, NothingSeen DEF Typed, DiskInv, Sizes, Whole
<1>4. OutcomeIsHonest'
  BY <1>2 DEF OutcomeIsHonest, StartedSince
<1> QED
  BY <1>2, <1>3, <1>4
     DEF PollInv, ClockInv, SeenInv, FreshInv, EndInv, Polling, SettledMeansFinished, StartedSince

\* The hook goes to its first poll (Start).
LEMMA StartStep ==
    ASSUME PollInv, Start
    PROVE  PollInv'
<1>1. Typed /\ DiskInv /\ ClockInv /\ EndInv
  BY DEF PollInv
<1>2. /\ now' = now /\ disk' = disk /\ finishedAt' = finishedAt /\ pc = "start"
      /\ pc' = "sleeping" /\ since' = now /\ previous' = previous /\ found' = found
      /\ previousAt' = previousAt /\ completeAt' = completeAt /\ toStat' = toStat
      /\ exit' = exit /\ Base' = Base
  BY DEF Start, Base
<1>3. now = 0 /\ previousAt = 0 /\ previous = << >> /\ Base = 0 /\ found = << >>
  BY <1>1, <1>2 DEF ClockInv, Base, Typed
<1>4. Typed' /\ DiskInv'
  BY <1>1, <1>2, NothingSeen DEF Typed, DiskInv, Sizes, Whole
<1>5. ClockInv' /\ SeenInv'
  BY <1>2, <1>3, NothingSeen, ConstantFacts DEF ClockInv, SeenInv, Polling
<1>6. FreshInv'
  <2>1. ~(\A f \in Files : f \in DOMAIN previous)
    BY <1>3, NothingSeen, ConstantFacts
  <2> QED
    BY <1>1, <1>2, <1>3, <2>1, ConstantFacts DEF FreshInv, Polling, Typed, StartedSince
<1> QED
  BY <1>1, <1>2, <1>4, <1>5, <1>6 DEF PollInv, EndInv, SettledMeansFinished, OutcomeIsHonest, StartedSince

\* A poll begins by reading the clock (Wake).
LEMMA WakeStep ==
    ASSUME PollInv, Wake
    PROVE  PollInv'
<1>1. Typed /\ DiskInv /\ ClockInv /\ SeenInv /\ FreshInv /\ EndInv
  BY DEF PollInv
<1>2. /\ now' = now /\ disk' = disk /\ finishedAt' = finishedAt /\ pc = "sleeping"
      /\ pc' = "glob" /\ since' = now /\ previous' = previous /\ found' = found
      /\ previousAt' = previousAt /\ completeAt' = completeAt /\ toStat' = toStat
      /\ exit' = exit /\ Base' = Base
  BY DEF Wake, Base
<1>3. found = << >>
  BY <1>1, <1>2 DEF Typed
<1>4. Typed' /\ DiskInv'
  BY <1>1, <1>2 DEF Typed, DiskInv, Sizes, Whole
<1>5. ClockInv'
  BY <1>1, <1>2, TypedFacts, ConstantFacts DEF ClockInv, Polling
<1>6. SeenInv'
  BY <1>1, <1>2, <1>3, NothingSeen DEF SeenInv, SeenAs, Unfinished, Polling, StartedSince, Done
<1>7. FreshInv'
  BY <1>1, <1>2 DEF FreshInv, Polling, StartedSince
<1> QED
  BY <1>1, <1>2, <1>4, <1>5, <1>6, <1>7
     DEF PollInv, EndInv, SettledMeansFinished, OutcomeIsHonest, StartedSince

\* It lists the directory (Glob).
LEMMA GlobStep ==
    ASSUME PollInv, Glob
    PROVE  PollInv'
<1>1. Typed /\ DiskInv /\ ClockInv /\ SeenInv /\ FreshInv /\ EndInv
  BY DEF PollInv
<1>2. /\ now' = now /\ disk' = disk /\ finishedAt' = finishedAt /\ pc = "glob"
      /\ pc' = "stat" /\ since' = since /\ previous' = previous /\ found' = found
      /\ previousAt' = previousAt /\ completeAt' = completeAt
      /\ toStat' = {f \in Files : disk[f].size > 0}
      /\ exit' = exit /\ Base' = Base
  BY DEF Glob, Base
<1>3. found = << >>
  BY <1>1, <1>2 DEF Typed
<1>4. Typed' /\ DiskInv'
  BY <1>1, <1>2 DEF Typed, DiskInv, Sizes, Whole
<1>5. ClockInv'
  BY <1>1, <1>2 DEF ClockInv, Polling
<1>6. SeenInv'
  BY <1>1, <1>2, <1>3, NothingSeen DEF SeenInv, SeenAs, Unfinished, Polling, StartedSince, Done
<1>7. FreshInv'
  <2>1. finishedAt # None => toStat' = Files
    BY <1>1, <1>2, ConstantFacts DEF DiskInv, Whole
  <2> QED
    BY <1>1, <1>2, <1>3, <2>1, NothingSeen DEF FreshInv, Polling, StartedSince
<1> QED
  BY <1>1, <1>2, <1>4, <1>5, <1>6, <1>7
     DEF PollInv, EndInv, SettledMeansFinished, OutcomeIsHonest, StartedSince

\* It looks at one file (Stat).  A size it saw before is that of a file that did not
\* move in between; one that did not for the whole window is finished.
LEMMA StatStep ==
    ASSUME WindowIsWideEnough, PollInv, NEW g \in Files, Stat(g)
    PROVE  PollInv'
<1>1. Typed /\ DiskInv /\ ClockInv /\ SeenInv /\ FreshInv /\ EndInv
  BY DEF PollInv
<1>2. /\ now' = now /\ disk' = disk /\ finishedAt' = finishedAt /\ pc = "stat"
      /\ pc' = pc /\ since' = since /\ previous' = previous
      /\ previousAt' = previousAt /\ completeAt' = completeAt
      /\ toStat' = toStat \ {g} /\ exit' = exit /\ Base' = Base
  BY DEF Stat, Base
<1>3. disk[g] \in FileState /\ disk[g].size \in 0..Full /\ disk[g].left \in Nat
  BY <1>1, TypedFacts DEF FileState
<1>4. CASE ~(disk[g].sidecar /\ disk[g].size > 0)
  <2>1. found' = found
    BY <1>4 DEF Stat
  <2>2. finishedAt = None
    BY <1>1, <1>4, ConstantFacts DEF DiskInv, Whole
  <2> QED
    BY <1>1, <1>2, <2>1, <2>2
       DEF PollInv, Typed, DiskInv, ClockInv, SeenInv, FreshInv, EndInv, Polling, Sizes, SeenAs,
           Unfinished, Whole, Matches, SettledMeansFinished, OutcomeIsHonest, StartedSince, Done
<1>5. CASE disk[g].sidecar /\ disk[g].size > 0
  <2>1. /\ DOMAIN found' = DOMAIN found \cup {g}
        /\ found' = [x \in DOMAIN found \cup {g} |-> IF x = g THEN disk[g].size ELSE found[x]]
        /\ found'[g] = disk[g].size
        /\ \A x \in DOMAIN found : x # g => found'[x] = found[x]
    BY <1>5 DEF Stat
  <2>2. disk[g].size \in 1..Full
    BY <1>3, <1>5, ConstantFacts
  <2>3. Typed' /\ DiskInv' /\ ClockInv'
    <3>1. Sizes(found)'
      BY <1>1, <2>1, <2>2, TypedFacts DEF Sizes
    <3> QED
      BY <1>1, <1>2, <3>1 DEF Typed, DiskInv, ClockInv, Polling, Sizes, Whole
  <2>4. /\ now \in Nat /\ since \in Nat /\ Base \in Nat /\ now <= since + MaxLag /\ since <= now
        /\ Base <= since /\ previousAt \in Nat
    BY <1>1, <1>2, TypedFacts DEF ClockInv, Polling
  <2>5. SeenAs(g, disk[g].size, since)
    <3>1. disk[g].left <= MaxStall
      BY <1>1, <1>5 DEF DiskInv
    <3>2. CASE Unfinished(g)
      BY <1>3, <1>5, <2>4, <3>1, <3>2, ConstantFacts DEF SeenAs, StartedSince
    <3>3. CASE ~Unfinished(g)
      BY <1>5, <3>3 DEF SeenAs, Unfinished, Whole, StartedSince
    <3> QED
      BY <3>2, <3>3
  <2>6. ASSUME g \in DOMAIN previous, disk[g].size = previous[g]
        PROVE  /\ SeenAs(g, disk[g].size, Base)
               /\ since >= Base + Settle => Done(g, disk[g].size, Base)
    <3>1. SeenAs(g, disk[g].size, Base)
      BY <1>1, <1>2, <2>6 DEF SeenInv, Polling
    <3>2. \/ Done(g, disk[g].size, Base)
          \/ Unfinished(g) /\ disk[g].left + now <= Base + MaxLag + MaxStall
      BY <1>3, <1>5, <2>2, <2>4, <3>1, ConstantFacts DEF SeenAs, Done, StartedSince
    <3> QED
      BY <1>3, <2>4, <3>1, <3>2, ConstantFacts DEF WindowIsWideEnough
  <2>7. SeenInv'
    <3>1. \A f \in DOMAIN previous : SeenAs(f, previous[f], Base)
      BY <1>1, <1>2 DEF SeenInv, Polling
    <3>2. \A f \in DOMAIN found' : SeenAs(f, found'[f], since)
      BY <1>1, <1>2, <2>1, <2>5 DEF SeenInv, Polling
    <3>3. \A f \in DOMAIN found' :
              f \in DOMAIN previous /\ found'[f] = previous[f]
                  => /\ SeenAs(f, found'[f], Base)
                     /\ since >= Base + Settle => Done(f, found'[f], Base)
      BY <1>1, <1>2, <2>1, <2>6 DEF SeenInv, Polling, Matches
    <3> QED
      BY <1>2, <3>1, <3>2, <3>3 DEF SeenInv, Matches, SeenAs, Unfinished, Polling, Done, StartedSince
  <2>8. FreshInv'
    <3>1. finishedAt # None => disk[g].size = Full
      BY <1>1 DEF DiskInv, Whole
    <3>2. finishedAt # None /\ since > finishedAt =>
              /\ Files = toStat' \cup DOMAIN found'
              /\ \A f \in DOMAIN found' : found'[f] = Full
      BY <1>1, <1>2, <2>1, <3>1 DEF FreshInv, Polling, StartedSince
    <3> QED
      BY <1>1, <1>2, <3>2 DEF FreshInv, Polling, StartedSince
  <2> QED
    BY <1>1, <1>2, <2>3, <2>7, <2>8
       DEF PollInv, EndInv, SettledMeansFinished, OutcomeIsHonest, StartedSince
<1> QED
  BY <1>4, <1>5

\* A poll that started after the last write saw every file whole, and if the one
\* before did as well the window goes on; so the window of the poll just made begins
\* no later than FreshInv says.
LEMMA CompletePollMatches ==
    ASSUME PollInv, Polled, finishedAt # None, since > finishedAt
    PROVE  /\ DOMAIN found = Files /\ \A f \in Files : found[f] = Full
           /\ previousAt > finishedAt => CompleteSince = Base /\ CompleteSince # None
<1>1. Typed /\ ClockInv /\ FreshInv /\ pc = "stat" /\ toStat = {}
  BY DEF PollInv, Polled
<1>2. DOMAIN found = Files /\ \A f \in Files : found[f] = Full
  BY <1>1 DEF FreshInv, Polling, StartedSince
<1>3. ASSUME previousAt > finishedAt
      PROVE  CompleteSince = Base /\ CompleteSince # None
  <2>1. DOMAIN previous = Files /\ \A f \in Files : previous[f] = Full
    BY <1>1, <1>3 DEF FreshInv, Polling, Typed, Sizes, StartedSince
  <2>2. found = [f \in Files |-> found[f]] /\ previous = [f \in Files |-> previous[f]]
    BY <1>1, <1>2, <2>1 DEF Typed, Sizes
  <2>3. found = previous
    BY <1>2, <2>1, <2>2
  <2> QED
    BY <1>1, <1>2, <2>3, ConstantFacts DEF CompleteSince, Base, Typed
<1> QED
  BY <1>2, <1>3

\* A window that is measured from an earlier poll saw every file as this poll did.
LEMMA WindowMatches ==
    ASSUME Typed, CompleteSince # None
    PROVE  /\ CompleteSince = Base /\ DOMAIN found = Files /\ found = previous
           /\ \A f \in Files : Matches(f)
BY DEF CompleteSince, Base, Matches

\* The window of the poll just made begins at most a poll and a sleep after the
\* last write.
LEMMA WindowIsFresh ==
    ASSUME PollInv, Polled, finishedAt # None
    PROVE  (IF CompleteSince = None THEN since ELSE CompleteSince)
               <= finishedAt + Interval + 2 * MaxLag
<1>1. /\ Typed /\ ClockInv /\ FreshInv /\ pc = "stat"
      /\ finishedAt \in Nat
  BY DEF PollInv, Polled, Typed
<1>2. CASE CompleteSince # None
  BY <1>1, <1>2, WindowMatches DEF FreshInv, Polling, StartedSince
<1>3. CASE CompleteSince = None
  <2>1. ~(since > finishedAt /\ previousAt > finishedAt)
    BY <1>3, CompletePollMatches
  <2>2. since <= previousAt + Interval + 2 * MaxLag /\ since \in Nat /\ previousAt \in Nat
    BY <1>1, TypedFacts, ConstantFacts DEF ClockInv, Polling
  <2> QED
    BY <1>1, <1>3, <2>1, <2>2, ConstantFacts
<1> QED
  BY <1>2, <1>3

\* The poll was not the last (PollsAgain).
LEMMA PollsAgainStep ==
    ASSUME PollInv, PollsAgain
    PROVE  PollInv'
<1>1. Typed /\ DiskInv /\ ClockInv /\ SeenInv /\ FreshInv /\ EndInv
  BY DEF PollInv
<1>2. /\ now' = now /\ disk' = disk /\ finishedAt' = finishedAt /\ pc = "stat"
      /\ pc' = "sleeping" /\ previous' = found /\ found' = << >>
      /\ since' = now + Min({Interval, Timeout - now}) /\ now < Timeout
      /\ previousAt' = since /\ completeAt' = CompleteSince
      /\ toStat' = toStat /\ exit' = exit /\ Polled
  BY DEF PollsAgain, Polled
<1>3. now \in Nat /\ since \in Nat /\ Base \in Nat /\ previousAt \in Nat
  BY <1>1, TypedFacts
<1>4. /\ since' \in Nat /\ now <= since' /\ since' <= now + Interval
  <2>1. Timeout - now \in Nat
    BY <1>2, <1>3, ConstantFacts
  <2>2. Min({Interval, Timeout - now}) \in Nat /\ Min({Interval, Timeout - now}) <= Interval
    BY <2>1, SleepIsShort, ConstantFacts
  <2> QED
    BY <1>2, <1>3, <2>2, ConstantFacts
<1>5. CompleteSince \in Nat \cup {None} /\ Base' = (IF CompleteSince = None THEN since ELSE Base)
  BY <1>1, <1>2, <1>3, WindowMatches, ConstantFacts DEF Base
<1>6. previousAt <= since /\ since <= now /\ now <= since + MaxLag /\ Base <= previousAt
  BY <1>1, <1>2 DEF ClockInv, Polling
<1>7. Typed' /\ DiskInv'
  BY <1>1, <1>2, <1>4, <1>5, NothingSeen DEF Typed, DiskInv, Sizes, Whole
<1>8. ClockInv'
  BY <1>2, <1>3, <1>4, <1>5, <1>6, ConstantFacts DEF ClockInv, Polling
<1>9. SeenInv'
  <2>1. \A f \in DOMAIN found : SeenAs(f, found[f], Base')
    BY <1>1, <1>2, <1>5, WindowMatches DEF SeenInv, Polling
  <2> QED
    BY <1>2, <2>1, NothingSeen DEF SeenInv, SeenAs, Unfinished, Polling, StartedSince, Done
<1>10. FreshInv'
  <2> SUFFICES ASSUME finishedAt # None PROVE FreshInv'
    BY <1>2 DEF FreshInv, StartedSince
  <2>1. Base' <= finishedAt + Interval + 2 * MaxLag
    BY <1>2, <1>5, WindowIsFresh, WindowMatches, <1>1
  <2>2. since > finishedAt => \A f \in Files : f \in DOMAIN found /\ found[f] = Full
    BY <1>2, CompletePollMatches
  <2>3. ASSUME \A f \in Files : f \in DOMAIN found /\ found[f] = Full
        PROVE  \/ finishedAt <= Base' + MaxLag
               \/ \E f \in Files : StartedSince(f, Base')
    <3>1. CASE CompleteSince = None
      BY <1>1, <1>3, <1>5, <1>6, <3>1, ConstantFacts DEF DiskInv, Typed
    <3>2. CASE CompleteSince # None
      BY <1>1, <1>2, <1>5, <2>3, <3>2, WindowMatches DEF FreshInv, Polling, StartedSince
    <3> QED
      BY <3>1, <3>2
  <2> QED
    BY <1>2, <2>1, <2>2, <2>3 DEF FreshInv, StartedSince
<1> QED
  BY <1>1, <1>2, <1>7, <1>8, <1>9, <1>10
     DEF PollInv, EndInv, SettledMeansFinished, OutcomeIsHonest, StartedSince

\* The window is over (Returns): every file looked the same for longer than a writer
\* may pause, so each is finished or was started over in the window.
LEMMA ReturnsStep ==
    ASSUME PollInv, Returns
    PROVE  PollInv'
<1>1. Typed /\ DiskInv /\ ClockInv /\ SeenInv /\ FreshInv /\ EndInv
  BY DEF PollInv
<1>2. /\ now' = now /\ disk' = disk /\ finishedAt' = finishedAt /\ pc = "stat"
      /\ pc' = "settled" /\ previous' = << >> /\ found' = << >>
      /\ since' = since /\ previousAt' = previousAt /\ completeAt' = CompleteSince
      /\ toStat' = toStat /\ exit' = exit /\ Polled
  BY DEF Returns, Polled
<1>3. /\ CompleteSince # None /\ CompleteSince = Base /\ since >= Base + Settle
      /\ DOMAIN found = Files /\ found = previous /\ \A f \in Files : Matches(f)
      /\ Base \in Nat
  <2>1. CompleteSince # None /\ since - CompleteSince >= Settle
    BY DEF Returns, SettledNow
  <2> QED
    BY <1>1, <2>1, WindowMatches, TypedFacts, ConstantFacts
<1>4. \A f \in Files : Done(f, found[f], Base)
  BY <1>1, <1>2, <1>3 DEF SeenInv, Polling
<1>5. SettledMeansFinished'
  BY <1>2, <1>3, <1>4 DEF SettledMeansFinished, Done, StartedSince
<1>6. Typed' /\ DiskInv'
  BY <1>1, <1>2, <1>3, NothingSeen DEF Typed, DiskInv, Sizes, Whole
<1>7. OutcomeIsHonest'
  <2> SUFFICES ASSUME finishedAt # None
               PROVE  /\ \/ finishedAt <= Base + MaxLag
                         \/ \E f \in Files : StartedSince(f, Base)
                      /\ Base <= finishedAt + Interval + 2 * MaxLag
    BY <1>1, <1>2, <1>3 DEF OutcomeIsHonest, EndInv, StartedSince
  <2>1. \/ \A f \in Files : f \in DOMAIN previous /\ previous[f] = Full
        \/ \E f \in Files : StartedSince(f, Base)
    BY <1>3, <1>4 DEF Done
  <2> QED
    BY <1>1, <1>2, <2>1 DEF FreshInv, Polling, StartedSince
<1> QED
  BY <1>1, <1>2, <1>5, <1>6, <1>7
     DEF PollInv, ClockInv, SeenInv, FreshInv, EndInv, Polling, StartedSince

\* The deadline has passed (GivesUp): the poll came at the deadline or after it, so
\* if the exposure had been finished long enough before it, it would have settled.
LEMMA GivesUpStep ==
    ASSUME PollInv, GivesUp
    PROVE  PollInv'
<1>1. Typed /\ DiskInv /\ ClockInv /\ FreshInv /\ Polled /\ pc = "stat"
  BY DEF PollInv, GivesUp, Polled
<1>2. /\ now \in Nat /\ since \in Nat /\ previousAt \in Nat /\ Base \in Nat
      /\ now <= since + MaxLag /\ since <= previousAt + Interval + 2 * MaxLag
  BY <1>1, TypedFacts DEF ClockInv, Polling
<1>3. now >= Timeout /\ ~SettledNow
  BY DEF GivesUp
<1>4. ASSUME finishedAt # None
      PROVE  finishedAt + Settle + Interval + 3 * MaxLag > Timeout
  <2>1. finishedAt \in Nat
    BY <1>1, <1>4 DEF Typed
  <2>2. SUFFICES ASSUME finishedAt + Settle + Interval + 3 * MaxLag <= Timeout
                 PROVE  FALSE
    BY <2>1, ConstantFacts
  <2>3. since > finishedAt /\ previousAt > finishedAt
    BY <1>2, <1>3, <2>1, <2>2, ConstantFacts
  <2>4. CompleteSince = Base /\ CompleteSince # None
    BY <1>1, <1>4, <2>3, CompletePollMatches
  <2>5. Base <= finishedAt + Interval + 2 * MaxLag
    BY <1>1, <1>4 DEF FreshInv, Polling, StartedSince
  <2>6. since - Base >= Settle
    BY <1>2, <1>3, <2>1, <2>2, <2>5, ConstantFacts
  <2> QED
    BY <1>3, <2>4, <2>6 DEF SettledNow
<1> QED
  BY <1>4, ExitStep DEF GivesUp

\* The request leaves (Submit).
LEMMA SubmitStep ==
    ASSUME PollInv, Submit
    PROVE  PollInv'
<1>1. /\ now' = now /\ disk' = disk /\ finishedAt' = finishedAt /\ pc = "settled"
      /\ pc' = "submitted" /\ since' = now /\ previous' = previous /\ found' = found
      /\ previousAt' = previousAt /\ completeAt' = completeAt /\ toStat' = toStat
      /\ exit' = exit
  BY DEF Submit
<1> QED
  BY <1>1
     DEF PollInv, Typed, DiskInv, ClockInv, SeenInv, FreshInv, EndInv, Polling, Sizes, Whole,
         SettledMeansFinished, OutcomeIsHonest, StartedSince

\* A step that changes nothing.
LEMMA StutterPoll ==
    ASSUME PollInv, UNCHANGED vars
    PROVE  PollInv'
BY DEF PollInv, Typed, DiskInv, ClockInv, SeenInv, FreshInv, EndInv, Polling, Sizes, Whole,
       SettledMeansFinished, OutcomeIsHonest, vars, hookVars, SeenAs, Unfinished, Matches, Base, StartedSince, Done

-----------------------------------------------------------------------------
(* The theorems.                                                           *)

\* The invariant holds of every behaviour of a window that is wide enough.
THEOREM PollInvariant ==
    ASSUME WindowIsWideEnough
    PROVE  Spec => []PollInv
<1>1. Init => PollInv
  BY InitPoll
<1>2. PollInv /\ [Next]_vars => PollInv'
  <2> SUFFICES ASSUME PollInv, [Next]_vars PROVE PollInv'
    OBVIOUS
  <2>1. CASE Tick
    BY <2>1, TickStep
  <2>2. CASE Writer
    <3>1. \E f \in Files : Wrote(f)
      BY <2>2, WriterWrites DEF PollInv
    <3> QED
      BY <3>1, WriterStep
  <2>3. CASE Start
    BY <2>3, StartStep
  <2>4. CASE Wake
    BY <2>4, WakeStep
  <2>5. CASE Glob
    BY <2>5, GlobStep
  <2>6. CASE \E f \in Files : Stat(f)
    BY <2>6, StatStep
  <2>7. CASE Returns
    BY <2>7, ReturnsStep
  <2>8. CASE PollsAgain
    BY <2>8, PollsAgainStep
  <2>9. CASE GivesUp
    BY <2>9, GivesUpStep
  <2>10. CASE Submit
    BY <2>10, SubmitStep
  <2>11. CASE Unauthorized
    BY <2>11, ExitStep DEF Unauthorized
  <2>12. CASE RequestTimesOut \/ Answered \/ Failed
    BY <2>12, ExitStep DEF RequestTimesOut, Answered, Failed
  <2>13. CASE Alarm
    BY <2>13, ExitStep DEF Alarm
  <2>14. CASE UNCHANGED vars
    BY <2>14, StutterPoll
  <2> QED
    BY <2>1, <2>2, <2>3, <2>4, <2>5, <2>6, <2>7, <2>8, <2>9, <2>10, <2>11, <2>12, <2>13, <2>14
       DEF Next, Hook
<1> QED
  BY <1>1, <1>2, PTL DEF Spec

\* What the hook hands to the server is finished: a file of it that is written again
\* was started over within the settle window, unseen by every look.  It holds
\* however writes, rewrites and delays fall between the looks, as long as the window
\* exceeds a pause of the writer and a delay of the hook (wait_for_exposure).
THEOREM SubmittedExposuresAreFinished ==
    ASSUME WindowIsWideEnough
    PROVE  Spec => []SettledMeansFinished
<1>1. PollInv => SettledMeansFinished
  BY DEF PollInv
<1> QED
  BY <1>1, PollInvariant, PTL

\* The time the hook counts latencies from is when the last byte landed, to a poll
\* before it and a poll and a sleep after it, unless a file was started over unseen; and
\* it calls an exposure incomplete only if it was not complete the window and a poll
\* before the deadline
\* (wait_for_exposure, run_notifier).
THEOREM HookTellsTheTruth ==
    ASSUME WindowIsWideEnough
    PROVE  Spec => []OutcomeIsHonest
<1>1. PollInv => OutcomeIsHonest
  BY DEF PollInv
<1> QED
  BY <1>1, PollInvariant, PTL
=============================================================================
