------------------------------- MODULE Outputs -------------------------------
(***************************************************************************)
(* What a finished job leaves on disk, and who looks for it: the tables the  *)
(* coordinator writes after it has replied (_run_deferred), the figures a    *)
(* plot flight draws from them (render_plots), the front-end that passes     *)
(* jobs from the one to the other, and the scan that finds what is missing.  *)
(* The three processes share the directory and nothing else.  One            *)
(* coordinator and one plot flight: others would write other jobs' files.    *)
(*                                                                         *)
(* A step ends where another process may look, or a SIGKILL fall.  The two  *)
(* waits of render_plots may end whenever the file is not there.            *)
(***************************************************************************)
EXTENDS Naturals, Sequences, FiniteSets, SequencesExt, Functions

CONSTANTS
    Jobs,
    Earlier,          \* those of them that an earlier front-end ran
    Selection,        \* the jobs whose run leaves selection tables
    PlotFlights,      \* whether there are any
    PLOT_ERROR_CAP,
    MaxWaiting,       \* bound on the deliveries that wait at one time
    MaxFaults,        \* bound on kills, restarts and failures
    None

ASSUME OutputsAssumption ==
    /\ Earlier \subseteq Jobs
    /\ Selection \subseteq Jobs
    /\ PlotFlights \in BOOLEAN
    /\ PLOT_ERROR_CAP \in Nat \ {0}
    /\ MaxWaiting \in Nat
    /\ MaxFaults \in Nat
    /\ None \notin Jobs \cup [job : Jobs, ok : BOOLEAN]

VARIABLES
    JOBS,      \* job -> the state of its record, RECEIVING counted as COMPUTING
    waiting,   \* job -> its deliveries that were admitted and wait for a lock
    command,   \* the push or ingest on its way to the coordinator
    response,  \* the coordinator's reply, on its way back
    coord,     \* where the coordinator stands in its loop, and with which job
    DEFERRED,  \* the job whose tables it holds, or None
    toWrite,   \* the tables _run_deferred has still to write
    tmp,       \* what the temporary file it wrote last holds
    table,     \* job -> the tables to be seen, whole or cut short
    pending,   \* the plot queue
    errors,    \* the jobs that could not be drawn, as far as they are remembered
    render,    \* where the plot flight stands, and with which job
    png,       \* the jobs whose first figure can be seen
    served,    \* history: the jobs a delivery of which was answered with success
    untold,    \* history: the jobs told of a failure that came after the hand-over
    spoiled,   \* history: the jobs whose deferred writes a failure or a kill cut off
    cutShort,  \* history: the jobs whose last render did not come to its end
    unlisted,  \* history: the jobs a full list of errors or a restart pushed out
    faults

queue == <<pending, errors, unlisted>>
frontEnd == <<JOBS, waiting, command, response, served, untold>>
coordinator == <<coord, DEFERRED, toWrite, tmp, spoiled>>
plotter == <<render, png, cutShort>>
vars == <<frontEnd, coordinator, table, queue, plotter, faults>>

Stamps == "stamps"
PLOT_TABLES == <<"detector_images", "selection_overlays">>
PLOT_FIGURES == <<"donut", "wavefront", "selection">>

Idle == [at |-> "recv", job |-> None]

Asleep == [at |-> "idle", job |-> None]

Fault == faults < MaxFaults /\ faults' = faults + 1

-----------------------------------------------------------------------------
(* The front-end.                                                          *)

Drawing(j) == render.job = j

\* enqueue, of each of some jobs: neither behind itself nor twice, and not at all
\* where no flight would ever draw it.  A new request drops the old error.
Enqueue(some) ==
    LET taken == {j \in some : PlotFlights /\ j \notin pending /\ ~Drawing(j)}
    IN  /\ pending' = pending \cup taken
        /\ errors' = errors \ taken
        /\ unlisted' = unlisted \ taken

\* A push or an ingest is admitted while its job is PREPARED, which a second one
\* may also find, before it waits for a lock.
Arrive(j) ==
    /\ JOBS[j] = "PREPARED"
    /\ FoldFunction(+, 0, waiting) < MaxWaiting
    /\ waiting' = [waiting EXCEPT ![j] = @ + 1]
    /\ UNCHANGED <<JOBS, command, response, served, untold, coordinator, table, queue, plotter, faults>>

\* Its command goes to the coordinator, in whatever state its job now is.
Deliver(j) ==
    /\ waiting[j] > 0
    /\ command = None /\ response = None /\ coord.at # "computing"
    /\ waiting' = [waiting EXCEPT ![j] = @ - 1]
    /\ JOBS' = [JOBS EXCEPT ![j] = "COMPUTING"]
    /\ command' = j
    /\ UNCHANGED <<response, served, untold, coordinator, table, queue, plotter, faults>>

\* Or there is no command: a body that is refused or ends early, or no coordinator.
Refuse(j) ==
    /\ waiting[j] > 0
    /\ waiting' = [waiting EXCEPT ![j] = @ - 1]
    /\ \E state \in {JOBS[j], "COMPUTING", "ERROR"} : JOBS' = [JOBS EXCEPT ![j] = state]
    /\ UNCHANGED <<command, response, served, untold, coordinator, table, queue, plotter, faults>>

\* The reply of push or ingest; a job that is DONE is to be drawn.
Answered ==
    /\ response # None
    /\ LET j == response.job
       IN  \/ /\ response.ok
              /\ JOBS' = [JOBS EXCEPT ![j] = "DONE"]
              /\ served' = served \cup {j}
              /\ Enqueue({j})
           \/ /\ ~response.ok
              /\ JOBS' = [JOBS EXCEPT ![j] = "ERROR"]
              /\ UNCHANGED <<served, queue>>
    /\ response' = None
    /\ UNCHANGED <<waiting, command, untold, coordinator, table, plotter, faults>>

\* _scan_for_missing_plots
Missing == {j \in Jobs : Stamps \in DOMAIN table[j] /\ j \notin png}

\* POST /admin/plots/{job_id}, for any job, and POST /admin/plots for all of those.
AskForPlots ==
    /\ PlotFlights
    /\ \E some \in {{j} : j \in Jobs} \cup {Missing} : Enqueue(some)
    /\ UNCHANGED <<frontEnd, coordinator, table, plotter, faults>>

-----------------------------------------------------------------------------
(* The coordinator's loop.                                                 *)

Receive ==
    /\ coord.at = "recv"
    /\ command # None
    /\ coord' = [at |-> "computing", job |-> command]
    /\ command' = None
    /\ UNCHANGED <<JOBS, waiting, response, served, untold, DEFERRED, toWrite, tmp, spoiled,
                   table, queue, plotter, faults>>

Reply(ok) ==
    /\ response' = [job |-> coord.job, ok |-> ok]
    /\ coord' = [coord EXCEPT !.at = "replied"]
    /\ UNCHANGED <<JOBS, waiting, command, served, toWrite, tmp, spoiled, table, queue, plotter, faults>>

\* Broken: the table is handed over before the run that may fail.
RunJobHandsOverEarly ==
    /\ coord.at = "computing"
    /\ DEFERRED' = coord.job
    /\ \E ok \in BOOLEAN : Reply(ok)
    /\ UNCHANGED untold

\* run_job hands the table over as its last act, and then the reply is sent.  The
\* way out of ingested_exposures lies between the two and may raise.
RunJob ==
    /\ coord.at = "computing"
    /\ \/ Reply(FALSE) /\ UNCHANGED <<DEFERRED, untold>>
       \/ /\ DEFERRED' = coord.job
          /\ \/ Reply(TRUE) /\ UNCHANGED untold
             \/ Reply(FALSE) /\ untold' = untold \cup {coord.job}

\* Broken: one arm of the loop goes back to recv() without the deferred work.
DeferredForgotten ==
    /\ coord.at = "replied"
    /\ coord' = Idle
    /\ UNCHANGED <<frontEnd, DEFERRED, toWrite, tmp, spoiled, table, queue, plotter, faults>>

\* _run_deferred takes what there is and drops the rest.
RunDeferred ==
    /\ coord.at = "replied"
    /\ DEFERRED' = None
    /\ IF DEFERRED = None
       THEN coord' = Idle /\ UNCHANGED toWrite
       ELSE /\ coord' = [at |-> "writing", job |-> DEFERRED]
            /\ toWrite' = <<Stamps>> \o IF DEFERRED \in Selection /\ PlotFlights
                                         THEN PLOT_TABLES ELSE <<>>
    /\ UNCHANGED <<frontEnd, tmp, spoiled, table, queue, plotter, faults>>

\* _write_parquet: open() leaves nothing of what the temporary file held,
OpenTmp ==
    /\ coord.at = "writing" /\ toWrite # <<>>
    /\ coord' = [coord EXCEPT !.at = "opened"]
    /\ tmp' = "cut"
    /\ UNCHANGED <<frontEnd, DEFERRED, toWrite, spoiled, table, queue, plotter, faults>>

\* Broken: a write that stops half-way goes on as if it had come to its end.
FillTmpInPart ==
    /\ coord.at = "opened"
    /\ coord' = [coord EXCEPT !.at = "written"]
    /\ UNCHANGED <<frontEnd, DEFERRED, toWrite, tmp, spoiled, table, queue, plotter, faults>>

\* write, flush and fsync come to their end,
FillTmp ==
    /\ coord.at = "opened"
    /\ coord' = [coord EXCEPT !.at = "written"]
    /\ tmp' = "whole"
    /\ UNCHANGED <<frontEnd, DEFERRED, toWrite, spoiled, table, queue, plotter, faults>>

\* and os.replace shows what the temporary file holds, whatever that is.
Replace ==
    /\ coord.at = "written"
    /\ coord' = [coord EXCEPT !.at = "writing"]
    /\ toWrite' = Tail(toWrite)
    /\ table' = [table EXCEPT ![coord.job] =
                    [k \in DOMAIN @ \cup {Head(toWrite)} |-> IF k = Head(toWrite) THEN tmp ELSE @[k]]]
    /\ tmp' = "none"
    /\ UNCHANGED <<frontEnd, DEFERRED, spoiled, queue, plotter, faults>>

\* A write that raises costs its own file and no other.
WriteFails ==
    /\ coord.at \in {"writing", "opened", "written"} /\ toWrite # <<>>
    /\ Fault
    /\ coord' = [coord EXCEPT !.at = "writing"]
    /\ toWrite' = Tail(toWrite)
    /\ spoiled' = spoiled \cup {coord.job}
    /\ UNCHANGED <<frontEnd, DEFERRED, tmp, table, queue, plotter>>

DeferredDone ==
    /\ coord.at = "writing" /\ toWrite = <<>>
    /\ coord' = Idle
    /\ UNCHANGED <<frontEnd, DEFERRED, toWrite, tmp, spoiled, table, queue, plotter, faults>>

FreshCoordinator ==
    /\ coord' = Idle
    /\ DEFERRED' = None
    /\ toWrite' = <<>>
    /\ spoiled' = spoiled \cup ({coord.job} \ {None})

\* SIGKILL and a new child.  A job that was not answered is in ERROR.  So is one
\* whose reply is not read any more, the pipe having been found empty before it
\* came; else the reply is still read.
KillCoordinator ==
    /\ Fault
    /\ FreshCoordinator
    /\ command' = None
    /\ \E lost \in {None, response} :
          LET ended == {command} \cup (IF coord.at = "computing" THEN {coord.job} ELSE {})
                                 \cup (IF lost # None THEN {lost.job} ELSE {})
          IN  /\ response' = IF lost # None THEN None ELSE response
              /\ JOBS' = [j \in Jobs |-> IF j \in ended THEN "ERROR" ELSE JOBS[j]]
              /\ untold' = IF lost # None /\ lost.ok THEN untold \cup {lost.job} ELSE untold
    /\ UNCHANGED <<waiting, served, tmp, table, queue, plotter>>

-----------------------------------------------------------------------------
(* The plot flight.                                                        *)

StartRender(j) ==
    /\ render = Asleep
    /\ j \in pending
    /\ pending' = pending \ {j}
    /\ render' = [at |-> "stamps", job |-> j]
    /\ UNCHANGED <<frontEnd, coordinator, table, errors, unlisted, png, cutShort, faults>>

Visible(kind) == kind \in DOMAIN table[render.job]

EndRender == render' = Asleep

\* _record_error: a full list loses its oldest, which one is PlotQueue's concern.
RecordError(j) ==
    \E old \in SUBSET (errors \ {j}) :
       /\ Cardinality(old) = IF Cardinality(errors \cup {j}) > PLOT_ERROR_CAP THEN 1 ELSE 0
       /\ errors' = (errors \cup {j}) \ old
       /\ unlisted' = (unlisted \ {j}) \cup old

\* FileNotFoundError, or a table or a figure that raises: the job's error.
RenderFails ==
    /\ EndRender
    /\ RecordError(render.job)
    /\ cutShort' = cutShort \cup {render.job}
    /\ UNCHANGED <<frontEnd, coordinator, table, pending, png>>

\* Broken: it waits for the result table for as long as it takes.
AwaitStampsForever ==
    /\ render.at = "stamps"
    /\ Visible(Stamps)
    /\ render' = [render EXCEPT !.at = PLOT_TABLES[1]]
    /\ UNCHANGED <<frontEnd, coordinator, table, queue, png, cutShort, faults>>

\* _await_table on the result table: it must come within TABLE_WAIT_S.
AwaitStamps ==
    /\ render.at = "stamps"
    /\ \/ ~Visible(Stamps) /\ RenderFails /\ UNCHANGED faults
       \/ /\ Visible(Stamps)
          /\ render' = [render EXCEPT !.at = PLOT_TABLES[1]]
          /\ UNCHANGED <<frontEnd, coordinator, table, queue, png, cutShort, faults>>

\* Each selection table gets a second, and may be missing.
AwaitSelection ==
    \E i \in DOMAIN PLOT_TABLES :
       /\ render.at = PLOT_TABLES[i]
       /\ render' = [render EXCEPT !.at = IF i = Len(PLOT_TABLES) THEN PLOT_FIGURES[1]
                                          ELSE PLOT_TABLES[i + 1]]
       /\ UNCHANGED <<frontEnd, coordinator, table, queue, png, cutShort, faults>>

\* A figure is saved, by way of a temporary file; one with nothing to draw is None
\* and is skipped, whichever tables were found.  The first is what the scan looks for.
SaveFigure ==
    \E i \in DOMAIN PLOT_FIGURES :
       /\ render.at = PLOT_FIGURES[i]
       /\ \/ UNCHANGED png
          \/ i = 1 /\ png' = png \cup {render.job}
       /\ render' = [render EXCEPT !.at = IF i = Len(PLOT_FIGURES) THEN "saved"
                                          ELSE PLOT_FIGURES[i + 1]]
       /\ UNCHANGED <<frontEnd, coordinator, table, queue, cutShort, faults>>

RenderDone ==
    /\ render.at = "saved"
    /\ EndRender
    /\ cutShort' = cutShort \ {render.job}
    /\ UNCHANGED <<frontEnd, coordinator, table, queue, png, faults>>

RenderRaises ==
    /\ render.at \in ToSet(PLOT_TABLES) \cup ToSet(PLOT_FIGURES)
    /\ Fault
    /\ RenderFails

\* Broken: a draw that lost its flight is not put back.
KillPlotFlightForgets ==
    /\ render # Asleep
    /\ Fault
    /\ EndRender
    /\ cutShort' = cutShort \cup {render.job}
    /\ UNCHANGED <<frontEnd, coordinator, table, queue, png>>

\* SIGKILL and a new child: the job is put back, or given up after enough tries.
KillPlotFlight ==
    /\ render # Asleep
    /\ Fault
    /\ EndRender
    /\ cutShort' = cutShort \cup {render.job}
    /\ \/ /\ pending' = pending \cup {render.job}
          /\ errors' = errors \ {render.job}
          /\ UNCHANGED unlisted
       \/ RecordError(render.job) /\ UNCHANGED pending
    /\ UNCHANGED <<frontEnd, coordinator, table, png>>

-----------------------------------------------------------------------------
\* A new front-end with new children: the records, the queue and its errors are
\* gone, and the directory is as it was.
RestartFrontEnd ==
    /\ Fault
    /\ FreshCoordinator
    /\ JOBS' = [j \in Jobs |-> "forgotten"]
    /\ waiting' = [j \in Jobs |-> 0]
    /\ command' = None
    /\ response' = None
    /\ pending' = {}
    /\ errors' = {}
    /\ LET drawn == {render.job} \ {None}
       IN  /\ unlisted' = unlisted \cup pending \cup errors \cup drawn
           /\ cutShort' = cutShort \cup drawn
    /\ EndRender
    /\ UNCHANGED <<served, untold, tmp, table, png>>

\* The directory may hold the result table of a job of an earlier front-end.
Init ==
    /\ JOBS = [j \in Jobs |-> IF j \in Earlier THEN "forgotten" ELSE "PREPARED"]
    /\ waiting = [j \in Jobs |-> 0]
    /\ command = None
    /\ response = None
    /\ coord = Idle
    /\ DEFERRED = None
    /\ toWrite = <<>>
    /\ tmp = "none"
    /\ \E left \in SUBSET Earlier :
          table = [j \in Jobs |-> [k \in IF j \in left THEN {Stamps} ELSE {} |-> "whole"]]
    /\ pending = {}
    /\ errors = {}
    /\ render = Asleep
    /\ png = {}
    /\ served = {}
    /\ untold = {}
    /\ spoiled = {}
    /\ cutShort = {}
    /\ unlisted = {}
    /\ faults = 0

CoordinatorStep ==
    Receive \/ RunJob \/ RunDeferred \/ OpenTmp \/ FillTmp \/ Replace \/ DeferredDone

RenderStep == AwaitStamps \/ AwaitSelection \/ SaveFigure \/ RenderDone

Next ==
    \/ \E j \in Jobs : Arrive(j) \/ Deliver(j) \/ Refuse(j) \/ StartRender(j)
    \/ Answered \/ AskForPlots
    \/ CoordinatorStep \/ WriteFails \/ KillCoordinator
    \/ RenderStep \/ RenderRaises \/ KillPlotFlight
    \/ RestartFrontEnd

Spec == Init /\ [][Next]_vars

\* Children that live go on, and the front-end reads its pipes.
FairSpec == Spec /\ WF_vars(CoordinatorStep) /\ WF_vars(RenderStep) /\ WF_vars(Answered)

-----------------------------------------------------------------------------
(* Properties.                                                             *)

Kinds == {Stamps} \cup ToSet(PLOT_TABLES)

Renders ==
    [at : {Stamps, "saved"} \cup ToSet(PLOT_TABLES) \cup ToSet(PLOT_FIGURES), job : Jobs]

TypeOK ==
    /\ JOBS \in [Jobs -> {"PREPARED", "COMPUTING", "DONE", "ERROR", "forgotten"}]
    /\ waiting \in [Jobs -> Nat]
    /\ command \in Jobs \cup {None}
    /\ response \in [job : Jobs, ok : BOOLEAN] \cup {None}
    /\ served \subseteq Jobs
    /\ untold \subseteq Jobs
    /\ coord \in {Idle} \cup
          [at : {"computing", "replied", "writing", "opened", "written"}, job : Jobs]
    /\ DEFERRED \in Jobs \cup {None}
    /\ DEFERRED # None => coord = [at |-> "replied", job |-> DEFERRED]
    /\ toWrite \in Seq(Kinds)
    /\ tmp \in {"none", "cut", "whole"}
    /\ spoiled \subseteq Jobs
    /\ table \in [Jobs -> UNION {[K -> {"none", "cut", "whole"}] : K \in SUBSET Kinds}]
    /\ pending \subseteq Jobs
    /\ errors \subseteq Jobs
    /\ unlisted \subseteq Jobs
    /\ render \in {Asleep} \cup Renders
    /\ render # Asleep => render.job \notin pending
    /\ png \subseteq Jobs
    /\ cutShort \subseteq Jobs
    /\ faults \in 0..MaxFaults

\* Existence means completeness: what a table that can be seen holds was written to
\* its end, wherever a SIGKILL or a failed write fell (write_stamp_table,
\* _write_parquet).
VisibleIsWhole ==
    \A j \in Jobs : \A kind \in DOMAIN table[j] : table[j][kind] = "whole"

Succeeding(j) == response = [job |-> j, ok |-> TRUE]

\* A job in ERROR has left no table for a plot flight or the backfill to find, though
\* the table is handed over before the reply and written after it.  The exceptions
\* are all: another delivery of the job succeeded, or its answer is on its way; or
\* what failed came after the hand-over, the exit of ingested_exposures or the
\* reading of the reply (run_job, run_ingest, _run_deferred, push).
FailedJobsLeaveNoTable ==
    \A j \in Jobs :
       JOBS[j] = "ERROR" /\ DOMAIN table[j] # {} =>
          j \in served \/ Succeeding(j) \/ j \in untold

\* A render that did not come to its end is not lost from sight: its job is on its
\* way again or shown in error (_drain), until a newer error or a restart of the
\* service takes it off the list (_record_error, lifespan).
CutDrawsAreKnown ==
    \A j \in cutShort :
       j \in pending \/ Drawing(j) \/ j \in errors \/ j \in unlisted

\* The 409 of /result/{job_id}/images is only early: the table of a finished job
\* comes, unless its write failed or the coordinator was killed over it.
ImagesArrive ==
    \A j \in Jobs : JOBS[j] = "DONE" ~> Stamps \in DOMAIN table[j] \/ j \in spoiled

\* A render ends, even for a job whose tables never come, so the queue behind it
\* moves on (_await_table's deadline).
RenderSettles == render # Asleep ~> render = Asleep
=============================================================================
