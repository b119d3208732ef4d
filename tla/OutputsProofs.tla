---------------------------- MODULE OutputsProofs ----------------------------
(***************************************************************************)
(* Proofs about Outputs, for any jobs, deliveries, limit on the errors and   *)
(* number of kills, failures and restarts.  The records, the coordinator and *)
(* the tables keep one invariant, the queue and the plot flight another;     *)
(* only an answer and a restart touch both.                                  *)
(***************************************************************************)
EXTENDS Outputs, SequenceTheorems, TLAPS

RecordsTyped ==
    /\ JOBS \in [Jobs -> {"PREPARED", "COMPUTING", "DONE", "ERROR", "forgotten"}]
    /\ waiting \in [Jobs -> Nat]
    /\ command \in Jobs \cup {None}
    /\ response \in [job : Jobs, ok : BOOLEAN] \cup {None}
    /\ served \subseteq Jobs
    /\ untold \subseteq Jobs

CoordinatorTyped ==
    /\ coord \in {Idle} \cup
          [at : {"computing", "replied", "writing", "opened", "written"}, job : Jobs]
    /\ DEFERRED \in Jobs \cup {None}
    /\ DEFERRED # None => coord = [at |-> "replied", job |-> DEFERRED]
    /\ toWrite \in Seq(Kinds)
    /\ tmp \in {"none", "cut", "whole"}
    /\ spoiled \subseteq Jobs
    \* what is being replaced has been written, and to its end
    /\ coord.at = "opened" => toWrite # <<>>
    /\ coord.at = "written" => toWrite # <<>> /\ tmp = "whole"

Tables == UNION {[K -> {"none", "cut", "whole"}] : K \in SUBSET Kinds}

TablesTyped == table \in [Jobs -> Tables]

\* A job is with one party at a time: on its way to the coordinator, in it, or on
\* its way back.  What an earlier front-end knew of is with none.
OneInFlight ==
    /\ command # None => response = None /\ coord.at # "computing"
    /\ coord.at = "computing" => response = None
    /\ \A j \in Jobs : JOBS[j] = "forgotten" =>
          /\ waiting[j] = 0 /\ command # j
          /\ coord.at = "computing" => coord.job # j
          /\ response # None => response.job # j

\* Its run got to the hand-over, and what the client knows of it is one of these.
HandedOver(j) ==
    j \in served \/ j \in untold \/ Succeeding(j) \/ JOBS[j] = "forgotten"

OnlyHandedOverIsWritten ==
    /\ \A j \in Jobs : DOMAIN table[j] # {} => HandedOver(j)
    /\ coord.at \in {"writing", "opened", "written"} => HandedOver(coord.job)
    /\ DEFERRED # None => HandedOver(DEFERRED)

TablesInv ==
    /\ RecordsTyped /\ CoordinatorTyped /\ TablesTyped
    /\ OneInFlight
    /\ OnlyHandedOverIsWritten
    /\ VisibleIsWhole

PlotsTyped ==
    /\ pending \subseteq Jobs
    /\ errors \subseteq Jobs
    /\ unlisted \subseteq Jobs
    /\ render \in {Asleep} \cup Renders
    /\ render # Asleep => render.job \notin pending
    /\ png \subseteq Jobs
    /\ cutShort \subseteq Jobs

PlotsInv == PlotsTyped /\ CutDrawsAreKnown

OutputsInv == TablesInv /\ PlotsInv /\ faults \in 0..MaxFaults

-----------------------------------------------------------------------------
(* What does not move, and what a state holds.                              *)

LEMMA TablesUntouched ==
    ASSUME TablesInv, UNCHANGED <<frontEnd, coordinator, table>>
    PROVE  TablesInv'
<1>1. UNCHANGED <<JOBS, waiting, command, response, served, untold, coord, DEFERRED, toWrite,
                  tmp, spoiled, table>>
  BY DEF frontEnd, coordinator
<1>2. RecordsTyped' /\ CoordinatorTyped' /\ TablesTyped'
  BY <1>1 DEF TablesInv, RecordsTyped, CoordinatorTyped, TablesTyped
<1>3. OneInFlight' /\ VisibleIsWhole'
  BY <1>1 DEF TablesInv, OneInFlight, VisibleIsWhole
<1>4. OnlyHandedOverIsWritten'
  BY <1>1 DEF TablesInv, OnlyHandedOverIsWritten, HandedOver, Succeeding
<1> QED
  BY <1>2, <1>3, <1>4 DEF TablesInv

LEMMA PlotsUntouched ==
    ASSUME PlotsInv, UNCHANGED <<queue, plotter>>
    PROVE  PlotsInv'
<1>1. UNCHANGED <<pending, errors, unlisted, render, png, cutShort>>
  BY DEF queue, plotter
<1> QED
  BY <1>1 DEF PlotsInv, PlotsTyped, CutDrawsAreKnown, Drawing

\* Fault stays within its bound.
LEMMA FaultCounted ==
    ASSUME OutputsInv, Fault \/ UNCHANGED faults
    PROVE  faults' \in 0..MaxFaults
BY OutputsAssumption DEF OutputsInv, OutputsAssumption, Fault

\* Facts of the state that the cases below keep needing.
LEMMA OutputsFacts ==
    ASSUME TablesInv
    PROVE  /\ RecordsTyped /\ CoordinatorTyped /\ TablesTyped
           /\ OneInFlight /\ OnlyHandedOverIsWritten /\ VisibleIsWhole
           /\ None \notin Jobs /\ \A r \in [job : Jobs, ok : BOOLEAN] : r # None
           /\ coord.at # "recv" => coord.job \in Jobs
           /\ coord.at = "recv" => coord = Idle
           /\ response # None => response.job \in Jobs /\ response.ok \in BOOLEAN
<1>1. /\ RecordsTyped /\ CoordinatorTyped /\ TablesTyped
      /\ OneInFlight /\ OnlyHandedOverIsWritten /\ VisibleIsWhole
  BY DEF TablesInv
<1>2. None \notin Jobs /\ \A r \in [job : Jobs, ok : BOOLEAN] : r # None
  BY OutputsAssumption DEF OutputsAssumption
<1>3. /\ coord.at # "recv" => coord.job \in Jobs
      /\ coord.at = "recv" => coord = Idle
  BY <1>1 DEF CoordinatorTyped, Idle
<1>4. response # None => response.job \in Jobs /\ response.ok \in BOOLEAN
  BY <1>1 DEF RecordsTyped
<1> QED
  BY <1>1, <1>2, <1>3, <1>4

\* The fields of a process that is at work.
LEMMA AtWork ==
    ASSUME TablesInv, PlotsInv
    PROVE  /\ coord.at # "recv" =>
                 coord \in [at : {"computing", "replied", "writing", "opened", "written"}, job : Jobs]
           /\ render # Asleep => render \in Renders /\ render.job \in Jobs
           /\ render = Asleep => render.job = None
BY DEF TablesInv, PlotsInv, CoordinatorTyped, PlotsTyped, Idle, Asleep, Renders

-----------------------------------------------------------------------------
(* The front-end.                                                          *)

\* A delivery moves the record and the command, and nothing that was written.
LEMMA DeliveryStep ==
    ASSUME OutputsInv, NEW j \in Jobs, Arrive(j) \/ Deliver(j) \/ Refuse(j)
    PROVE  OutputsInv'
<1>1. /\ UNCHANGED <<response, served, untold, coordinator, table, queue, plotter, faults>>
      /\ UNCHANGED <<coord, DEFERRED, toWrite, tmp, spoiled>>
  BY DEF Arrive, Deliver, Refuse, coordinator
<1>2. TablesInv /\ PlotsInv /\ PlotsInv' /\ faults' \in 0..MaxFaults
  BY <1>1, PlotsUntouched DEF OutputsInv
<1>3. JOBS[j] # "forgotten"
  <2>1. JOBS[j] = "PREPARED" \/ waiting[j] > 0
    BY DEF Arrive, Deliver, Refuse
  <2>2. JOBS[j] = "forgotten" => waiting[j] = 0
    BY <1>2, OutputsFacts DEF OneInFlight
  <2> QED
    BY <2>1, <2>2
<1>4. /\ waiting' \in [Jobs -> Nat] /\ \A k \in Jobs : k # j => waiting'[k] = waiting[k]
      /\ JOBS' \in [Jobs -> {"PREPARED", "COMPUTING", "DONE", "ERROR", "forgotten"}]
      /\ \A k \in Jobs : JOBS'[k] = "forgotten" <=> JOBS[k] = "forgotten"
  <2>1. /\ waiting \in [Jobs -> Nat]
        /\ JOBS \in [Jobs -> {"PREPARED", "COMPUTING", "DONE", "ERROR", "forgotten"}]
    BY <1>2, OutputsFacts DEF RecordsTyped
  <2>2. \/ waiting' = [waiting EXCEPT ![j] = @ + 1]
        \/ waiting[j] > 0 /\ waiting' = [waiting EXCEPT ![j] = @ - 1]
    BY DEF Arrive, Deliver, Refuse
  <2>3. \E state \in {JOBS[j], "COMPUTING", "ERROR"} : JOBS' = [JOBS EXCEPT ![j] = state]
    <3>1. CASE Arrive(j)
      BY <3>1, <2>1 DEF Arrive
    <3>2. CASE Deliver(j) \/ Refuse(j)
      BY <3>2 DEF Deliver, Refuse
    <3> QED
      BY <3>1, <3>2
  <2>4. waiting' \in [Jobs -> Nat] /\ \A k \in Jobs : k # j => waiting'[k] = waiting[k]
    BY <2>1, <2>2
  <2>5. /\ JOBS' \in [Jobs -> {"PREPARED", "COMPUTING", "DONE", "ERROR", "forgotten"}]
        /\ \A k \in Jobs : JOBS'[k] = "forgotten" <=> JOBS[k] = "forgotten"
    BY <1>3, <2>1, <2>3
  <2> QED
    BY <2>4, <2>5
<1>5. \/ command' = command
      \/ command' = j /\ command = None /\ response = None /\ coord.at # "computing"
  BY DEF Arrive, Deliver, Refuse
<1>6. RecordsTyped' /\ CoordinatorTyped' /\ TablesTyped'
  BY <1>1, <1>2, <1>4, <1>5, OutputsFacts DEF RecordsTyped, CoordinatorTyped, TablesTyped
<1>7. OneInFlight'
  BY <1>1, <1>2, <1>3, <1>4, <1>5, OutputsFacts DEF OneInFlight
<1>8. \A k \in Jobs : HandedOver(k)' = HandedOver(k)
  BY <1>1, <1>4 DEF HandedOver, Succeeding
<1>9. OnlyHandedOverIsWritten' /\ VisibleIsWhole'
  BY <1>1, <1>2, <1>8, OutputsFacts
     DEF OnlyHandedOverIsWritten, VisibleIsWhole, CoordinatorTyped, Idle
<1> QED
  BY <1>2, <1>6, <1>7, <1>9 DEF OutputsInv, TablesInv

\* A request for plots puts jobs in the queue, or finds them there or drawn.
LEMMA EnqueueStep ==
    ASSUME PlotsInv, NEW some \in SUBSET Jobs, Enqueue(some), UNCHANGED plotter
    PROVE  PlotsInv'
<1> DEFINE taken == {j \in some : PlotFlights /\ j \notin pending /\ ~Drawing(j)}
<1>1. /\ pending' = pending \cup taken /\ errors' = errors \ taken /\ unlisted' = unlisted \ taken
      /\ UNCHANGED <<render, png, cutShort>>
  BY DEF Enqueue, plotter
<1>2. taken \subseteq Jobs /\ render.job \notin taken
  BY DEF Drawing
<1> HIDE DEF taken
<1> QED
  BY <1>1, <1>2 DEF PlotsInv, PlotsTyped, CutDrawsAreKnown, Drawing

LEMMA AskForPlotsStep ==
    ASSUME OutputsInv, AskForPlots
    PROVE  OutputsInv'
<1>1. PICK some \in {{j} : j \in Jobs} \cup {Missing} : Enqueue(some)
  BY DEF AskForPlots
<1>2. some \in SUBSET Jobs
  BY DEF Missing
<1> QED
  BY <1>1, <1>2, EnqueueStep, TablesUntouched DEF AskForPlots, OutputsInv

\* The answer makes of an ok reply a job that was served.
LEMMA AnsweredStep ==
    ASSUME OutputsInv, Answered
    PROVE  OutputsInv'
<1> DEFINE j == response.job
<1>1. /\ response # None /\ response' = None
      /\ \/ response.ok /\ JOBS' = [JOBS EXCEPT ![j] = "DONE"] /\ served' = served \cup {j} /\ Enqueue({j})
         \/ ~response.ok /\ JOBS' = [JOBS EXCEPT ![j] = "ERROR"] /\ UNCHANGED <<served, queue>>
      /\ UNCHANGED <<waiting, command, untold, coordinator, table, plotter, faults>>
      /\ UNCHANGED <<coord, DEFERRED, toWrite, tmp, spoiled>>
  BY DEF Answered, coordinator
<1>2. TablesInv /\ PlotsInv /\ faults' \in 0..MaxFaults /\ j \in Jobs
  BY <1>1, OutputsFacts DEF OutputsInv
<1>3. PlotsInv'
  BY <1>1, <1>2, EnqueueStep, PlotsUntouched
<1> USE <1>2, OutputsFacts
<1>4. RecordsTyped' /\ CoordinatorTyped' /\ TablesTyped'
  BY <1>1 DEF RecordsTyped, CoordinatorTyped, TablesTyped
<1>5. \A k \in Jobs : JOBS'[k] = "forgotten" <=> JOBS[k] = "forgotten"
  BY <1>1 DEF RecordsTyped, OneInFlight
<1>6. OneInFlight'
  BY <1>1, <1>5 DEF OneInFlight
<1>7. \A k \in Jobs : HandedOver(k) => HandedOver(k)'
  <2> SUFFICES ASSUME NEW k \in Jobs, HandedOver(k) PROVE HandedOver(k)'
    OBVIOUS
  <2>1. CASE Succeeding(k)
    <3>1. response.ok /\ j = k
      BY <2>1 DEF Succeeding
    <3> QED
      BY <1>1, <3>1 DEF HandedOver
  <2>2. CASE ~Succeeding(k)
    BY <1>1, <1>5, <2>2 DEF HandedOver
  <2> QED
    BY <2>1, <2>2
<1>8. OnlyHandedOverIsWritten' /\ VisibleIsWhole'
  BY <1>1, <1>7 DEF OnlyHandedOverIsWritten, VisibleIsWhole, CoordinatorTyped, Idle
<1> QED
  BY <1>3, <1>4, <1>6, <1>8 DEF OutputsInv, TablesInv

-----------------------------------------------------------------------------
(* The coordinator, which leaves the queue and the figures alone.           *)

\* The command is taken.
LEMMA ReceiveStep ==
    ASSUME TablesInv, Receive
    PROVE  TablesInv'
<1> USE OutputsFacts
<1>1. /\ command \in Jobs /\ command' = None /\ coord' = [at |-> "computing", job |-> command]
      /\ coord.at = "recv" /\ DEFERRED = None /\ response = None
      /\ UNCHANGED <<JOBS, waiting, response, served, untold, DEFERRED, toWrite, tmp, spoiled, table>>
  BY DEF Receive, RecordsTyped, CoordinatorTyped, OneInFlight
<1>2. RecordsTyped' /\ CoordinatorTyped' /\ TablesTyped'
  BY <1>1 DEF RecordsTyped, CoordinatorTyped, TablesTyped
<1>3. OneInFlight'
  BY <1>1 DEF OneInFlight
<1>4. OnlyHandedOverIsWritten' /\ VisibleIsWhole'
  BY <1>1 DEF OnlyHandedOverIsWritten, HandedOver, Succeeding, VisibleIsWhole
<1> QED
  BY <1>2, <1>3, <1>4 DEF TablesInv

\* A run that hands its table over either says so or is among the untold.
LEMMA RunJobStep ==
    ASSUME TablesInv, PlotsInv, RunJob
    PROVE  TablesInv'
<1> USE OutputsFacts
<1> DEFINE j == coord.job
<1>1. PICK ok \in BOOLEAN : Reply(ok) /\ (ok => DEFERRED' = j /\ untold' = untold)
  BY DEF RunJob
<1>2. /\ coord.at = "computing" /\ j \in Jobs
      /\ coord \in [at : {"computing", "replied", "writing", "opened", "written"}, job : Jobs]
      /\ DEFERRED = None /\ response = None /\ command = None
  <2>1. coord.at = "computing"
    BY DEF RunJob
  <2> QED
    BY <2>1, AtWork DEF CoordinatorTyped, OneInFlight
<1>3. /\ coord' = [at |-> "replied", job |-> j] /\ response' = [job |-> j, ok |-> ok]
      /\ UNCHANGED <<JOBS, waiting, command, served, toWrite, tmp, spoiled, table>>
  BY <1>1, <1>2 DEF Reply
<1>4. /\ untold' \in {untold, untold \cup {j}}
      /\ DEFERRED' = None \/ (DEFERRED' = j /\ (j \in untold' \/ ok))
  <2>1. CASE Reply(FALSE) /\ UNCHANGED <<DEFERRED, untold>>
    BY <1>2, <2>1
  <2>2. CASE DEFERRED' = j /\ Reply(TRUE) /\ UNCHANGED untold
    <3>1. response' = [job |-> j, ok |-> TRUE]
      BY <2>2 DEF Reply
    <3>2. ok
      BY <1>3, <3>1
    <3> QED
      BY <2>2, <3>2
  <2>3. CASE DEFERRED' = j /\ Reply(FALSE) /\ untold' = untold \cup {j}
    BY <2>3
  <2> QED
    BY <2>1, <2>2, <2>3 DEF RunJob
<1>5. RecordsTyped' /\ CoordinatorTyped' /\ TablesTyped'
  BY <1>2, <1>3, <1>4 DEF RecordsTyped, CoordinatorTyped, TablesTyped
<1>6. OneInFlight'
  BY <1>2, <1>3 DEF OneInFlight
<1>7. \A k \in Jobs : HandedOver(k) => HandedOver(k)'
  BY <1>2, <1>3, <1>4 DEF HandedOver, Succeeding
<1>8. DEFERRED' # None => HandedOver(j)' /\ DEFERRED' = j
  BY <1>3, <1>4 DEF HandedOver, Succeeding
<1>9. OnlyHandedOverIsWritten' /\ VisibleIsWhole'
  BY <1>3, <1>7, <1>8 DEF OnlyHandedOverIsWritten, VisibleIsWhole, HandedOver, Succeeding
<1> QED
  BY <1>5, <1>6, <1>9 DEF TablesInv

\* The tables are taken to be written, of a job that handed them over.
LEMMA RunDeferredStep ==
    ASSUME TablesInv, RunDeferred
    PROVE  TablesInv'
<1> USE OutputsFacts
<1>1. /\ coord.at = "replied" /\ DEFERRED' = None
      /\ UNCHANGED <<JOBS, waiting, command, response, served, untold, tmp, spoiled, table>>
  BY DEF RunDeferred, frontEnd
<1>2. RecordsTyped' /\ TablesTyped' /\ VisibleIsWhole'
  BY <1>1 DEF RecordsTyped, TablesTyped, VisibleIsWhole
<1>3. \A j : HandedOver(j)' = HandedOver(j)
  BY <1>1 DEF HandedOver, Succeeding
<1>4. CASE DEFERRED = None
  <2>1. coord' = Idle /\ toWrite' = toWrite
    BY <1>4 DEF RunDeferred
  <2> QED
    BY <1>1, <1>2, <1>3, <2>1
       DEF TablesInv, CoordinatorTyped, OneInFlight, OnlyHandedOverIsWritten, Idle
<1>5. CASE DEFERRED # None
  <2> DEFINE rest == IF DEFERRED \in Selection /\ PlotFlights THEN PLOT_TABLES ELSE <<>>
  <2>1. /\ DEFERRED \in Jobs /\ coord' = [at |-> "writing", job |-> DEFERRED]
        /\ toWrite' = <<Stamps>> \o rest
    BY <1>5 DEF RunDeferred, CoordinatorTyped
  <2>2. toWrite' \in Seq(Kinds)
    <3>1. {Stamps} \cup {"detector_images", "selection_overlays"} \subseteq Kinds
      <4>1. PLOT_TABLES[1] = "detector_images" /\ PLOT_TABLES[2] = "selection_overlays"
            /\ DOMAIN PLOT_TABLES = 1..2
        BY DEF PLOT_TABLES
      <4> QED
        BY <4>1 DEF Kinds, ToSet
    <3>2. /\ <<Stamps>> \in Seq(Kinds) /\ <<>> \in Seq(Kinds)
          /\ <<"detector_images", "selection_overlays">> \in Seq(Kinds)
      BY <3>1
    <3> HIDE DEF Kinds
    <3>3. rest \in Seq(Kinds)
      BY <3>2 DEF PLOT_TABLES
    <3> HIDE DEF rest
    <3>4. <<Stamps>> \o rest \in Seq(Kinds)
      BY <3>2, <3>3, ConcatProperties
    <3> QED
      BY <2>1, <3>4
  <2>3. CoordinatorTyped'
    BY <1>1, <2>1, <2>2 DEF CoordinatorTyped
  <2>4. OneInFlight' /\ OnlyHandedOverIsWritten'
    BY <1>1, <1>3, <1>5, <2>1 DEF OneInFlight, OnlyHandedOverIsWritten
  <2> QED
    BY <1>2, <2>3, <2>4 DEF TablesInv
<1> QED
  BY <1>4, <1>5

\* No step of the writing shows anything but what was written to its end.
LEMMA WriteStep ==
    ASSUME TablesInv, PlotsInv, OpenTmp \/ FillTmp \/ WriteFails \/ DeferredDone
    PROVE  TablesInv'
<1> USE OutputsFacts
<1> DEFINE j == coord.job
<1>1. /\ coord.at \in {"writing", "opened", "written"} /\ j \in Jobs /\ HandedOver(j) /\ DEFERRED = None
      /\ coord \in [at : {"computing", "replied", "writing", "opened", "written"}, job : Jobs]
      /\ UNCHANGED <<JOBS, waiting, command, response, served, untold, DEFERRED, table>>
  BY AtWork DEF OpenTmp, FillTmp, WriteFails, DeferredDone, CoordinatorTyped,
                OnlyHandedOverIsWritten, frontEnd
<1>2. toWrite \in Seq(Kinds) /\ (toWrite # <<>> => Tail(toWrite) \in Seq(Kinds))
  BY HeadTailProperties DEF CoordinatorTyped
<1>3. /\ CoordinatorTyped' /\ coord'.at \in {"recv", "writing", "opened", "written"}
      /\ coord'.at # "recv" => coord'.job = j
  <2>1. CASE OpenTmp
    BY <1>1, <1>2, <2>1 DEF OpenTmp, CoordinatorTyped
  <2>2. CASE FillTmp
    BY <1>1, <1>2, <2>2 DEF FillTmp, CoordinatorTyped
  <2>3. CASE WriteFails
    BY <1>1, <1>2, <2>3 DEF WriteFails, CoordinatorTyped
  <2>4. CASE DeferredDone
    BY <1>1, <1>2, <2>4 DEF DeferredDone, CoordinatorTyped, Idle
  <2> QED
    BY <2>1, <2>2, <2>3, <2>4
<1>4. RecordsTyped' /\ TablesTyped' /\ VisibleIsWhole'
  BY <1>1 DEF RecordsTyped, TablesTyped, VisibleIsWhole
<1>5. \A k : HandedOver(k)' = HandedOver(k)
  BY <1>1 DEF HandedOver, Succeeding
<1>6. OneInFlight' /\ OnlyHandedOverIsWritten'
  BY <1>1, <1>3, <1>5 DEF OneInFlight, OnlyHandedOverIsWritten
<1> QED
  BY <1>3, <1>4, <1>6 DEF TablesInv

\* os.replace shows the temporary file, which at that point is whole.
LEMMA ReplaceStep ==
    ASSUME TablesInv, PlotsInv, Replace
    PROVE  TablesInv'
<1> USE OutputsFacts
<1> DEFINE j == coord.job
           kind == Head(toWrite)
           old == table[j]
           new == [k \in DOMAIN old \cup {kind} |-> IF k = kind THEN tmp ELSE old[k]]
<1>1. /\ coord.at = "written" /\ j \in Jobs /\ HandedOver(j) /\ DEFERRED = None
      /\ coord \in [at : {"computing", "replied", "writing", "opened", "written"}, job : Jobs]
      /\ tmp = "whole" /\ toWrite # <<>>
      /\ UNCHANGED <<JOBS, waiting, command, response, served, untold, DEFERRED, spoiled>>
      /\ coord' = [coord EXCEPT !.at = "writing"] /\ toWrite' = Tail(toWrite) /\ tmp' = "none"
      /\ table' = [table EXCEPT ![j] = new]
  BY AtWork DEF Replace, CoordinatorTyped, OnlyHandedOverIsWritten, frontEnd
<1>2. toWrite \in Seq(Kinds) /\ kind \in Kinds /\ Tail(toWrite) \in Seq(Kinds)
  BY <1>1, HeadTailProperties DEF CoordinatorTyped
<1>3. table \in [Jobs -> Tables] /\ DOMAIN old \in SUBSET Kinds
      /\ old \in [DOMAIN old -> {"none", "cut", "whole"}]
  BY <1>1 DEF TablesTyped, Tables
<1> HIDE DEF kind, old
<1>4. new \in Tables
  <2>1. new \in [DOMAIN old \cup {kind} -> {"none", "cut", "whole"}]
    BY <1>1, <1>3
  <2> HIDE DEF new
  <2> QED
    BY <1>2, <1>3, <2>1 DEF Tables
<1>5. TablesTyped'
  <2> HIDE DEF new
  <2> QED
    BY <1>1, <1>3, <1>4 DEF TablesTyped
<1>6. \A k \in Jobs : k # j => table'[k] = table[k]
  <2> HIDE DEF new
  <2> QED
    BY <1>1, <1>3
<1>7. table'[j] = new
  <2> HIDE DEF new
  <2> QED
    BY <1>1, <1>3
<1>8. VisibleIsWhole'
  <2>1. \A k \in DOMAIN old : old[k] = "whole"
    BY <1>1 DEF VisibleIsWhole, old
  <2>2. \A k \in DOMAIN new : new[k] = "whole"
    BY <1>1, <2>1
  <2> HIDE DEF new
  <2> QED
    BY <1>6, <1>7, <2>2 DEF VisibleIsWhole
<1> HIDE DEF new
<1>9. RecordsTyped' /\ CoordinatorTyped'
  BY <1>1, <1>2 DEF RecordsTyped, CoordinatorTyped
<1>10. \A k : HandedOver(k)' = HandedOver(k)
  BY <1>1 DEF HandedOver, Succeeding
<1>11. OneInFlight' /\ OnlyHandedOverIsWritten'
  BY <1>1, <1>6, <1>10 DEF OneInFlight, OnlyHandedOverIsWritten
<1> QED
  BY <1>5, <1>8, <1>9, <1>11 DEF TablesInv

\* A coordinator that is killed leaves no one in flight but its reply, and a reply
\* that nobody reads is among the untold.
LEMMA KillCoordinatorStep ==
    ASSUME TablesInv, KillCoordinator
    PROVE  TablesInv'
<1> USE OutputsFacts
<1>1. PICK lost \in {None, response} :
         /\ response' = IF lost # None THEN None ELSE response
         /\ JOBS' = [j \in Jobs |->
               IF j \in {command} \cup (IF coord.at = "computing" THEN {coord.job} ELSE {})
                                  \cup (IF lost # None THEN {lost.job} ELSE {})
               THEN "ERROR" ELSE JOBS[j]]
         /\ untold' = IF lost # None /\ lost.ok THEN untold \cup {lost.job} ELSE untold
  BY DEF KillCoordinator
<1> DEFINE ended == {command} \cup (IF coord.at = "computing" THEN {coord.job} ELSE {})
                              \cup (IF lost # None THEN {lost.job} ELSE {})
<1>2. /\ coord' = Idle /\ DEFERRED' = None /\ toWrite' = <<>> /\ command' = None
      /\ spoiled' = spoiled \cup ({coord.job} \ {None})
      /\ UNCHANGED <<waiting, served, tmp, table>>
  BY DEF KillCoordinator, FreshCoordinator
<1>3. lost # None => lost = response /\ lost.job \in Jobs /\ lost.ok \in BOOLEAN
  BY <1>1
<1>4. spoiled' \subseteq Jobs
  BY <1>2 DEF CoordinatorTyped, Idle
<1>5. RecordsTyped'
  BY <1>1, <1>2, <1>3 DEF RecordsTyped
<1>6. CoordinatorTyped' /\ TablesTyped' /\ VisibleIsWhole'
  <2>1. <<>> \in Seq(Kinds)
    OBVIOUS
  <2> QED
    BY <1>2, <1>4, <2>1 DEF CoordinatorTyped, TablesTyped, VisibleIsWhole, Idle
<1>7. \A j \in Jobs : j \in ended => JOBS[j] # "forgotten"
  BY <1>3 DEF OneInFlight
<1>8. \A j \in Jobs : JOBS'[j] = IF j \in ended THEN "ERROR" ELSE JOBS[j]
  BY <1>1
<1> HIDE DEF ended
<1>9. \A j \in Jobs : JOBS'[j] = "forgotten" <=> JOBS[j] = "forgotten"
  BY <1>7, <1>8
<1>10. OneInFlight'
  BY <1>1, <1>2, <1>9 DEF OneInFlight, Idle
<1>11. \A j \in Jobs : HandedOver(j) => HandedOver(j)'
  <2> SUFFICES ASSUME NEW j \in Jobs, HandedOver(j) PROVE HandedOver(j)'
    OBVIOUS
  <2>1. CASE Succeeding(j)
    <3>1. response # None /\ response.ok /\ response.job = j
      BY <2>1 DEF Succeeding
    <3> QED
      BY <1>1, <1>3, <2>1, <3>1 DEF HandedOver, Succeeding
  <2>2. CASE ~Succeeding(j)
    BY <1>1, <1>2, <1>9, <2>2 DEF HandedOver
  <2> QED
    BY <2>1, <2>2
<1>12. OnlyHandedOverIsWritten'
  BY <1>2, <1>11 DEF OnlyHandedOverIsWritten, Idle
<1> QED
  BY <1>5, <1>6, <1>10, <1>12 DEF TablesInv

\* The coordinator's steps touch no plot.
LEMMA CoordinatorKeeps ==
    ASSUME OutputsInv, CoordinatorStep \/ WriteFails \/ KillCoordinator
    PROVE  OutputsInv'
<1>1. UNCHANGED <<queue, plotter>> /\ (Fault \/ UNCHANGED faults)
  BY DEF CoordinatorStep, Receive, RunJob, Reply, RunDeferred, OpenTmp, FillTmp, Replace,
         DeferredDone, WriteFails, KillCoordinator
<1>2. TablesInv'
  BY ReceiveStep, RunJobStep, RunDeferredStep, WriteStep, ReplaceStep, KillCoordinatorStep
     DEF OutputsInv, CoordinatorStep
<1> QED
  BY <1>1, <1>2, PlotsUntouched, FaultCounted DEF OutputsInv

-----------------------------------------------------------------------------
(* The plot flight, which leaves the records and the tables alone.          *)

\* A job leaves the queue to be drawn.
LEMMA StartRenderStep ==
    ASSUME PlotsInv, NEW j \in Jobs, StartRender(j)
    PROVE  PlotsInv'
<1>1. /\ render = Asleep /\ j \in pending /\ pending' = pending \ {j}
      /\ render' = [at |-> "stamps", job |-> j]
      /\ UNCHANGED <<errors, unlisted, png, cutShort>>
  BY DEF StartRender
<1>2. render' \in Renders /\ None \notin Jobs /\ render.job = None /\ render'.job = j
  BY <1>1, OutputsAssumption DEF Renders, Stamps, Asleep, OutputsAssumption
<1> QED
  BY <1>1, <1>2 DEF PlotsInv, PlotsTyped, CutDrawsAreKnown, Drawing

\* A new error is on the list, and what it pushes out is off it.
LEMMA ErrorRecorded ==
    ASSUME PlotsTyped, NEW j \in Jobs, RecordError(j)
    PROVE  /\ errors' \subseteq Jobs /\ unlisted' \subseteq Jobs /\ j \in errors'
           /\ \A k : k \in errors \/ k \in unlisted => k \in errors' \/ k \in unlisted'
BY DEF PlotsTyped, RecordError

\* A render ends in the figures, in error, or in the queue.
LEMMA RenderEnds ==
    ASSUME PlotsInv, render # Asleep, render.job \in Jobs, EndRender, png' = png,
           pending' \in {pending, pending \cup {render.job}},
           errors' \subseteq Jobs, unlisted' \subseteq Jobs,
           \A k : (k \in errors \/ k \in unlisted) /\ k # render.job =>
                     k \in errors' \/ k \in unlisted',
           \/ cutShort' = cutShort \ {render.job}
           \/ cutShort' = cutShort \cup {render.job} /\ render.job \in pending' \cup errors'
    PROVE  PlotsInv'
<1>1. render' = Asleep
  BY DEF EndRender
<1>2. PlotsTyped'
  BY <1>1 DEF PlotsInv, PlotsTyped
<1>3. CutDrawsAreKnown'
  BY <1>1 DEF PlotsInv, CutDrawsAreKnown, Drawing
<1> QED
  BY <1>2, <1>3 DEF PlotsInv

\* A render that gives up puts its job in error; one that is killed may put it back.
LEMMA RenderCutStep ==
    ASSUME PlotsInv, render # Asleep, render.job \in Jobs, RenderFails \/ KillPlotFlight
    PROVE  PlotsInv'
<1>1. EndRender /\ png' = png /\ cutShort' = cutShort \cup {render.job}
  BY DEF RenderFails, KillPlotFlight
<1>2. CASE RecordError(render.job) /\ UNCHANGED pending
  <2>1. /\ errors' \subseteq Jobs /\ unlisted' \subseteq Jobs /\ render.job \in errors'
        /\ \A k : k \in errors \/ k \in unlisted => k \in errors' \/ k \in unlisted'
    BY <1>2, ErrorRecorded DEF PlotsInv
  <2> QED
    BY <1>1, <1>2, <2>1, RenderEnds
<1>3. CASE /\ pending' = pending \cup {render.job} /\ errors' = errors \ {render.job}
           /\ UNCHANGED unlisted
  <2>1. /\ errors' \subseteq Jobs /\ unlisted' \subseteq Jobs /\ render.job \in pending'
        /\ \A k : (k \in errors \/ k \in unlisted) /\ k # render.job =>
                     k \in errors' \/ k \in unlisted'
    BY <1>3 DEF PlotsInv, PlotsTyped
  <2> QED
    BY <1>1, <1>3, <2>1, RenderEnds
<1> QED
  BY <1>2, <1>3 DEF RenderFails, KillPlotFlight

\* The places of a render have different names.
LEMMA Places ==
    /\ DOMAIN PLOT_TABLES = 1..2 /\ Len(PLOT_TABLES) = 2
    /\ PLOT_TABLES[1] = "detector_images" /\ PLOT_TABLES[2] = "selection_overlays"
    /\ ToSet(PLOT_TABLES) = {"detector_images", "selection_overlays"}
    /\ DOMAIN PLOT_FIGURES = 1..3 /\ Len(PLOT_FIGURES) = 3
    /\ PLOT_FIGURES[1] = "donut" /\ PLOT_FIGURES[2] = "wavefront" /\ PLOT_FIGURES[3] = "selection"
    /\ ToSet(PLOT_FIGURES) = {"donut", "wavefront", "selection"}
<1>1. /\ DOMAIN PLOT_TABLES = 1..2 /\ Len(PLOT_TABLES) = 2
      /\ PLOT_TABLES[1] = "detector_images" /\ PLOT_TABLES[2] = "selection_overlays"
  BY DEF PLOT_TABLES
<1>2. /\ DOMAIN PLOT_FIGURES = 1..3 /\ Len(PLOT_FIGURES) = 3
      /\ PLOT_FIGURES[1] = "donut" /\ PLOT_FIGURES[2] = "wavefront" /\ PLOT_FIGURES[3] = "selection"
  BY DEF PLOT_FIGURES
<1>3. 1..2 = {1, 2} /\ 1..3 = {1, 2, 3}
  OBVIOUS
<1>4. ToSet(PLOT_TABLES) = {"detector_images", "selection_overlays"}
  BY <1>1, <1>3 DEF ToSet
<1>5. ToSet(PLOT_FIGURES) = {"donut", "wavefront", "selection"}
  BY <1>2, <1>3 DEF ToSet
<1> QED
  BY <1>1, <1>2, <1>4, <1>5

\* A render goes on to its next place, or to its end.
LEMMA RenderStepStep ==
    ASSUME PlotsInv, RenderStep
    PROVE  PlotsInv'
<1> DEFINE j == render.job
<1>1. render \in Renders /\ j \in Jobs /\ render # Asleep
  <2>1. render.at # "idle"
    BY Places DEF RenderStep, AwaitStamps, AwaitSelection, SaveFigure, RenderDone
  <2> QED
    BY <2>1 DEF PlotsInv, PlotsTyped, Asleep, Renders
<1>2. ASSUME NEW at \in {"saved"} \cup ToSet(PLOT_TABLES) \cup ToSet(PLOT_FIGURES),
             render' = [render EXCEPT !.at = at], png' \subseteq Jobs,
             UNCHANGED <<queue, cutShort>>
      PROVE  PlotsInv'
  <2>1. render' \in Renders /\ render'.job = j
    BY <1>1, <1>2 DEF Renders
  <2>2. UNCHANGED <<pending, errors, unlisted>>
    BY <1>2 DEF queue
  <2> QED
    BY <1>1, <1>2, <2>1, <2>2 DEF PlotsInv, PlotsTyped, CutDrawsAreKnown, Drawing
<1>3. png \subseteq Jobs
  BY DEF PlotsInv, PlotsTyped
<1>4. CASE AwaitStamps
  <2>1. CASE RenderFails
    BY <1>1, <2>1, RenderCutStep
  <2>2. CASE /\ render' = [render EXCEPT !.at = PLOT_TABLES[1]]
             /\ UNCHANGED <<frontEnd, coordinator, table, queue, png, cutShort, faults>>
    BY <1>2, <1>3, <2>2, Places
  <2> QED
    BY <1>4, <2>1, <2>2 DEF AwaitStamps
<1>5. CASE AwaitSelection
  <2>1. PICK i \in DOMAIN PLOT_TABLES :
          /\ render' = [render EXCEPT !.at = IF i = Len(PLOT_TABLES) THEN PLOT_FIGURES[1]
                                             ELSE PLOT_TABLES[i + 1]]
          /\ UNCHANGED <<frontEnd, coordinator, table, queue, png, cutShort, faults>>
    BY <1>5 DEF AwaitSelection
  <2> QED
    BY <1>2, <1>3, <2>1, Places
<1>6. CASE SaveFigure
  <2>1. PICK i \in DOMAIN PLOT_FIGURES :
          /\ \/ UNCHANGED png
             \/ png' = png \cup {j}
          /\ render' = [render EXCEPT !.at = IF i = Len(PLOT_FIGURES) THEN "saved"
                                             ELSE PLOT_FIGURES[i + 1]]
          /\ UNCHANGED <<frontEnd, coordinator, table, queue, cutShort, faults>>
    BY <1>6 DEF SaveFigure
  <2>2. png' \subseteq Jobs
    BY <1>1, <1>3, <2>1
  <2> QED
    BY <1>2, <1>3, <2>1, <2>2, Places
<1>7. CASE RenderDone
  <2>1. /\ EndRender /\ png' = png /\ cutShort' = cutShort \ {j}
        /\ UNCHANGED <<pending, errors, unlisted>>
    BY <1>7 DEF RenderDone, queue
  <2>2. errors \subseteq Jobs /\ unlisted \subseteq Jobs
    BY DEF PlotsInv, PlotsTyped
  <2> QED
    BY <1>1, <2>1, <2>2, RenderEnds
<1> QED
  BY <1>4, <1>5, <1>6, <1>7 DEF RenderStep

\* The plot flight's steps touch no table.
LEMMA PlotFlightKeeps ==
    ASSUME OutputsInv,
           (\E j \in Jobs : StartRender(j)) \/ RenderStep \/ RenderRaises \/ KillPlotFlight
    PROVE  OutputsInv'
<1>1. UNCHANGED <<frontEnd, coordinator, table>> /\ (Fault \/ UNCHANGED faults)
  BY DEF StartRender, RenderStep, AwaitStamps, AwaitSelection, SaveFigure, RenderDone,
         RenderRaises, RenderFails, KillPlotFlight
<1>2. ASSUME RenderRaises \/ KillPlotFlight PROVE PlotsInv'
  <2>1. render # Asleep
    <3>1. CASE RenderRaises
      <4>1. render.at # "idle"
        BY <3>1, Places DEF RenderRaises
      <4> QED
        BY <4>1 DEF Asleep
    <3> QED
      BY <1>2, <3>1 DEF KillPlotFlight
  <2>2. render.job \in Jobs
    BY <2>1, AtWork DEF OutputsInv
  <2> QED
    BY <1>2, <2>1, <2>2, RenderCutStep DEF OutputsInv, RenderRaises
<1>3. PlotsInv'
  BY <1>2, StartRenderStep, RenderStepStep DEF OutputsInv
<1> QED
  BY <1>1, <1>3, TablesUntouched, FaultCounted DEF OutputsInv

-----------------------------------------------------------------------------
(* The service.                                                            *)

\* A restart forgets the queue and the records, and lists what it forgot.
LEMMA RestartFrontEndStep ==
    ASSUME OutputsInv, RestartFrontEnd
    PROVE  OutputsInv'
<1> DEFINE drawn == {render.job} \ {None}
<1>1. /\ coord' = Idle /\ DEFERRED' = None /\ toWrite' = <<>> /\ command' = None
      /\ spoiled' = spoiled \cup ({coord.job} \ {None})
      /\ JOBS' = [j \in Jobs |-> "forgotten"] /\ waiting' = [j \in Jobs |-> 0]
      /\ response' = None /\ pending' = {} /\ errors' = {}
      /\ unlisted' = unlisted \cup pending \cup errors \cup drawn /\ cutShort' = cutShort \cup drawn
      /\ render' = Asleep
      /\ UNCHANGED <<served, untold, tmp, table, png>> /\ Fault
  BY DEF RestartFrontEnd, FreshCoordinator, EndRender
<1>2. TablesInv /\ PlotsInv /\ faults' \in 0..MaxFaults
  BY <1>1, FaultCounted DEF OutputsInv
<1> USE <1>2, OutputsFacts
<1>3. spoiled' \subseteq Jobs
  BY <1>1 DEF CoordinatorTyped, Idle
<1>4. RecordsTyped' /\ CoordinatorTyped' /\ TablesTyped'
  <2>1. <<>> \in Seq(Kinds)
    OBVIOUS
  <2> QED
    BY <1>1, <1>3, <2>1 DEF RecordsTyped, CoordinatorTyped, TablesTyped, Idle
<1>5. OneInFlight' /\ VisibleIsWhole'
  BY <1>1 DEF OneInFlight, VisibleIsWhole, Idle
<1>6. OnlyHandedOverIsWritten'
  BY <1>1 DEF OnlyHandedOverIsWritten, HandedOver, Idle
<1>7. drawn \subseteq Jobs /\ \A k \in Jobs : Drawing(k) => k \in drawn
  <2>1. render.job \in Jobs \cup {None}
    BY AtWork
  <2> QED
    BY <2>1 DEF Drawing
<1> HIDE DEF drawn
<1>8. PlotsTyped'
  BY <1>1, <1>7 DEF PlotsInv, PlotsTyped
<1>9. CutDrawsAreKnown'
  BY <1>1, <1>7 DEF PlotsInv, PlotsTyped, CutDrawsAreKnown
<1> QED
  BY <1>4, <1>5, <1>6, <1>8, <1>9 DEF OutputsInv, TablesInv, PlotsInv

\* Nothing is delivered or drawn, and what an earlier front-end left is whole.
LEMMA InitOutputs == Init => OutputsInv
<1> SUFFICES ASSUME Init PROVE OutputsInv
  OBVIOUS
<1> USE DEF Init
<1>1. PICK left \in SUBSET Earlier :
         table = [j \in Jobs |-> [k \in IF j \in left THEN {Stamps} ELSE {} |-> "whole"]]
  OBVIOUS
<1>2. TablesTyped
  <2>1. Stamps \in Kinds
    BY DEF Kinds
  <2>2. ASSUME NEW j \in Jobs
        PROVE  [k \in IF j \in left THEN {Stamps} ELSE {} |-> "whole"] \in Tables
    <3> DEFINE K == IF j \in left THEN {Stamps} ELSE {}
    <3>1. K \in SUBSET Kinds
      BY <2>1
    <3> HIDE DEF K
    <3>2. [k \in K |-> "whole"] \in [K -> {"none", "cut", "whole"}]
      OBVIOUS
    <3>3. [k \in K |-> "whole"] \in Tables
      BY <3>1, <3>2 DEF Tables
    <3> QED
      BY <3>3 DEF K
  <2> QED
    BY <1>1, <2>2 DEF TablesTyped
<1>3. VisibleIsWhole
  BY <1>1 DEF VisibleIsWhole
<1>4. OnlyHandedOverIsWritten
  <2>1. \A j \in Jobs : DOMAIN table[j] # {} => JOBS[j] = "forgotten"
    BY <1>1
  <2> QED
    BY <2>1 DEF OnlyHandedOverIsWritten, HandedOver, Idle
<1>5. RecordsTyped
  BY DEF RecordsTyped
<1>6. CoordinatorTyped
  <2>1. <<>> \in Seq(Kinds)
    OBVIOUS
  <2> QED
    BY <2>1 DEF CoordinatorTyped, Idle
<1>7. OneInFlight
  BY OutputsAssumption DEF OneInFlight, Idle, OutputsAssumption
<1>8. PlotsTyped /\ CutDrawsAreKnown /\ faults \in 0..MaxFaults
  <2>1. MaxFaults \in Nat
    BY OutputsAssumption DEF OutputsAssumption
  <2> QED
    BY <2>1 DEF PlotsTyped, CutDrawsAreKnown
<1> QED
  BY <1>2, <1>3, <1>4, <1>5, <1>6, <1>7, <1>8 DEF OutputsInv, TablesInv, PlotsInv

\* Every step keeps the invariant.
LEMMA StepKeepsOutputs == OutputsInv /\ [Next]_vars => OutputsInv'
<1> SUFFICES ASSUME OutputsInv, [Next]_vars PROVE OutputsInv'
  OBVIOUS
<1>1. CASE Next
  BY <1>1, DeliveryStep, AskForPlotsStep, AnsweredStep, CoordinatorKeeps, PlotFlightKeeps,
     RestartFrontEndStep
  DEF Next
<1>2. CASE UNCHANGED vars
  <2>1. UNCHANGED <<frontEnd, coordinator, table>> /\ UNCHANGED <<queue, plotter>> /\ faults' = faults
    BY <1>2 DEF vars
  <2> QED
    BY <2>1, TablesUntouched, PlotsUntouched DEF OutputsInv
<1> QED
  BY <1>1, <1>2

-----------------------------------------------------------------------------
\* The inductive invariant of what a job leaves behind.
THEOREM OutputsInvariant ==
    Spec => []OutputsInv
<1> QED
  BY InitOutputs, StepKeepsOutputs, PTL DEF Spec

\* The three processes and the directory they share keep their types.
THEOREM OutputsTyped ==
    Spec => []TypeOK
<1>1. OutputsInv => TypeOK
  BY DEF OutputsInv, TablesInv, PlotsInv, RecordsTyped, CoordinatorTyped, TablesTyped, Tables,
         PlotsTyped, TypeOK
<1> QED
  BY <1>1, OutputsInvariant, PTL

\* However often the coordinator is killed between any two of open, write and
\* replace, or a write fails, a table that can be seen was written to its end
\* (_write_parquet).
THEOREM SeenTablesAreWhole ==
    Spec => []VisibleIsWhole
<1>1. OutputsInv => VisibleIsWhole
  BY DEF OutputsInv, TablesInv
<1> QED
  BY <1>1, OutputsInvariant, PTL

\* A job in ERROR has a table on disk only if another delivery of it succeeded, or
\* if what failed came after the hand-over, with any number of deliveries and of
\* kills between the hand-over, the reply, its reading and the writing (run_job,
\* run_ingest, _run_deferred, push).
THEOREM FailuresLeaveNothing ==
    Spec => []FailedJobsLeaveNoTable
<1>1. OutputsInv => FailedJobsLeaveNoTable
  BY OutputsFacts DEF OutputsInv, OnlyHandedOverIsWritten, HandedOver, FailedJobsLeaveNoTable
<1> QED
  BY <1>1, OutputsInvariant, PTL

\* A draw that was cut short is queued, under way or in error until a newer error or
\* a restart takes it off the list, for any limit on that list (_drain,
\* _record_error).
THEOREM CutDrawsStayInSight ==
    Spec => []CutDrawsAreKnown
<1>1. OutputsInv => CutDrawsAreKnown
  BY DEF OutputsInv, PlotsInv
<1> QED
  BY <1>1, OutputsInvariant, PTL
=============================================================================
