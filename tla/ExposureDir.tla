---------------------------- MODULE ExposureDir ----------------------------
(***************************************************************************)
(* What daq.py and replay.py make of a directory of DAQ files before any     *)
(* pixel is read.  A file says which detector it is, and what it shows: the  *)
(* exposure its pixels are of.  A file the emulator wrote has the header of  *)
(* whatever the test stand did, and names the exposure it replays in         *)
(* EMUIMAGE; with replay on, the headers of that exposure's originals take   *)
(* the place of the live ones.  An exception is the value Raised.           *)
(***************************************************************************)
EXTENDS Naturals, Sequences, FiniteSets, FiniteSetsExt, SequencesExt

CONSTANTS
    Dets,          \* the corner sensors: EXPECTED_SENSORS of them
    Exposures,
    Emulated,      \* the exposure a replayed file's own header claims to be
    FilterOf,      \* exposure -> physical_filter
    KnownFilters,
    ReplayTree,    \* DONUT_SERVER_REPLAY_DIR: exposure -> the detectors of its files
    PinnedExposure,\* DONUT_SERVER_REPLAY_OBSID, where it is set
    None, Raised

ASSUME ExposureDirAssumption ==
    /\ IsFiniteSet(Dets) /\ Dets \subseteq Nat
    /\ Emulated \notin Exposures
    /\ DOMAIN FilterOf = Exposures \cup {Emulated}
    /\ DOMAIN ReplayTree \subseteq Exposures
    /\ \A e \in DOMAIN ReplayTree : ReplayTree[e] \in Seq(Dets)
    /\ PinnedExposure \in Exposures

Modes == {"off", "emuimage", "pinned"}

Files == [det : Dets, exp : Exposures, emulated : BOOLEAN]

-----------------------------------------------------------------------------
\* read_header, with the cards that matter.
ReadHeader(f) ==
    [det |-> f.det,
     exp |-> IF f.emulated THEN Emulated ELSE f.exp,
     emuimage |-> IF f.emulated THEN f.exp ELSE None]

\* read_live_headers: by the detector the header names, and never twice.
ReadLiveHeaders(dir) ==
    LET live == [p \in DOMAIN dir |-> ReadHeader(dir[p])]
    IN  IF \E p, q \in DOMAIN dir : p # q /\ live[p].det = live[q].det
        THEN Raised
        ELSE [d \in {live[p].det : p \in DOMAIN dir} |->
                 live[CHOOSE p \in DOMAIN dir : live[p].det = d]]

\* Broken: the marker is read off the first sensor alone.
ReadEmuimageOfOne(live) ==
    LET first == Min(DOMAIN live)
    IN  IF live[first].emuimage = None THEN Raised ELSE live[first].emuimage

\* read_emuimage: present on every sensor, and the same.
ReadEmuimage(live) ==
    LET values == {live[d].emuimage : d \in DOMAIN live}
    IN  IF None \notin values /\ Cardinality(values) = 1
        THEN CHOOSE e \in values : TRUE
        ELSE Raised

\* replay_headers: one original per detector, and all of them.
ReplayHeaders(e) ==
    IF /\ e \in DOMAIN ReplayTree
       /\ IsInjective(ReplayTree[e])
       /\ Len(ReplayTree[e]) = Cardinality(Dets)
    THEN [d \in ToSet(ReplayTree[e]) |-> [det |-> d, exp |-> e, emuimage |-> None]]
    ELSE Raised

\* substituted_headers: None where replay is off.
SubstitutedHeaders(mode, dir) ==
    IF mode = "off" THEN None
    ELSE LET live == ReadLiveHeaders(dir)
             e == IF live = Raised THEN Raised
                  ELSE IF mode = "pinned" THEN PinnedExposure ELSE ReadEmuimage(live)
         IN  IF DOMAIN dir = {} \/ e = Raised THEN Raised ELSE ReplayHeaders(e)

\* What marks that replay is off is no set of headers.
ASSUME NoneAssumption == \A e \in Exposures : ReplayHeaders(e) # None

-----------------------------------------------------------------------------
\* The header a file goes under: the live one decides which detector it is, the
\* substitute is that detector's.
HeaderFor(f, headers) ==
    LET live == ReadHeader(f)
    IN  IF headers = None THEN live
        ELSE IF live.det \in DOMAIN headers THEN headers[live.det] ELSE Raised

\* resolve_exposure_dir: one filter, one exposure, every sensor; of two files
\* for a detector the last path stays.  The boresight is the first path's.
ResolveExposureDir(dir, headers) ==
    LET used == [p \in DOMAIN dir |-> HeaderFor(dir[p], headers)]
        exposures == {used[p].exp : p \in DOMAIN dir}
        detectors == {dir[p].det : p \in DOMAIN dir}
        LastPath(d) == Max({p \in DOMAIN dir : dir[p].det = d})
    IN  IF \/ DOMAIN dir = {}
           \/ \E p \in DOMAIN dir : used[p] = Raised
        THEN Raised
        ELSE IF \/ Cardinality({FilterOf[e] : e \in exposures}) # 1
                \/ Cardinality(exposures) # 1
                \/ Cardinality(detectors) # Cardinality(Dets)
                \/ FilterOf[used[Min(DOMAIN dir)].exp] \notin KnownFilters
        THEN Raised
        ELSE [visit |-> used[Min(DOMAIN dir)].exp,
              physical_filter |-> FilterOf[used[Min(DOMAIN dir)].exp],
              boresight |-> used[Min(DOMAIN dir)].exp,
              handles |-> [d \in detectors |->
                  [path |-> LastPath(d), det |-> d, header |-> used[LastPath(d)]]]]
=============================================================================
