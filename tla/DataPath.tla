------------------------------ MODULE DataPath ------------------------------
(***************************************************************************)
(* How the pixels and the headers of one exposure reach the task, job after  *)
(* job on one flight.  "push": a producer reads the directory, assembles the *)
(* detectors in forked workers that write into a shared segment, frames them *)
(* in place (or packs them serially) and streams the body into the flight's  *)
(* block, where the coordinator decodes it.  "ingest": the coordinator reads *)
(* the directory itself, once for the prepare and again for the job, and     *)
(* hands the task views onto its own segment.                                *)
(*                                                                          *)
(* A byte says which job wrote it and what it is of.  A file may be replaced *)
(* under a job (`touched`), a worker may die, a producer other than this one *)
(* may frame its body wrongly (`mangled`).                                   *)
(***************************************************************************)
EXTENDS ExposureDir, WireFormat

CONSTANTS
    Dirs,           \* what a directory may hold: paths 1.. -> Files
    ShardsOf,       \* exposure -> the reference shards its field touches
    ImgSize,        \* bytes of one assembled detector, from cameraGeom
    MetaSize,       \* exposure -> bytes of one meta part
    MetaAllowance,  \* meta_allowance, of all meta parts together
    MAX_PUSH_BYTES, SHM_SIZE,
    ShmRoom,        \* segments /dev/shm has room for
    MaxJobs, MaxMishaps

ASSUME DataPathAssumption ==
    /\ \A d \in Dirs : /\ DOMAIN d \subseteq Nat /\ IsFiniteSet(DOMAIN d)
                       /\ \A p \in DOMAIN d : d[p] \in Files
    /\ ImgSize \in Nat \ {0} /\ MetaAllowance \in Nat
    /\ DOMAIN MetaSize = Exposures \cup {Emulated}
    /\ \A e \in DOMAIN MetaSize : MetaSize[e] \in Nat \ {0}
    /\ MAX_PUSH_BYTES \in Nat /\ SHM_SIZE \in Nat /\ SHM_SIZE >= MAX_PUSH_BYTES

VARIABLES
    mode,       \* how replay is configured
    job,        \* jobs so far: what the bytes of this one are marked with
    route, dir, touched,
    pc,
    headers,    \* the substitutes, or None
    prepared,   \* what /prepare loaded, as far as the job checks it
    source,     \* the RawSource
    task,       \* detector -> how its worker fares
    segment,    \* the bytes of the producer's or the coordinator's own segment
    segments,   \* segments that exist in /dev/shm
    leaked,     \* of these, the ones nobody will unlink
    body, mangled,
    shm,        \* the flight's block; every push is written over the last one
    layout,
    given,      \* what the task is handed: name -> image bytes and metadata
    mishaps     \* files replaced, bodies mangled, kills

input == <<route, dir, touched>>
taken == <<headers, prepared, source>>
forks == <<task, segment, segments, leaked>>
wire  == <<body, mangled, shm, layout>>
vars  == <<mode, job, input, pc, taken, forks, wire, given, mishaps>>

\* sorted(source.handles).
DetSeq(s) ==
    LET dets == DOMAIN s.handles
    IN  CHOOSE q \in [1..Cardinality(dets) -> dets] : \A i, j \in DOMAIN q : i < j => q[i] < q[j]

\* An untouched byte of a segment or of the block.
Zero == [kind |-> "zero", job |-> 0]

ImgBytes(d) ==
    LET f == dir[source.handles[d].path]
    IN  [k \in 1..ImgSize |-> [kind |-> "img", job |-> job, det |-> f.det, exp |-> f.exp]]

MetaBytes(d) ==
    LET h == source.handles[d].header
    IN  [k \in 1..MetaSize[h.exp] |->
            [kind |-> "meta", job |-> job, det |-> h.det, exp |-> h.exp, k |-> k]]

NoBody == [magic |-> FALSE, desc |-> <<>>, payload |-> 0, bytes |-> <<>>]

Init ==
    /\ mode \in Modes
    /\ job = 0
    /\ route = None /\ dir = <<>> /\ touched = FALSE
    /\ pc = "idle"
    /\ headers = None /\ prepared = None /\ source = None
    /\ task = <<>> /\ segment = <<>> /\ segments = 0 /\ leaked = 0
    /\ body = NoBody /\ mangled = FALSE /\ layout = <<>>
    /\ shm = [i \in 1..SHM_SIZE |-> Zero]
    /\ given = <<>>
    /\ mishaps = 0

-----------------------------------------------------------------------------
(* The end of a job, whichever way it goes: what it held is let go.  Only    *)
(* the block keeps its bytes.                                                *)

Forget ==
    /\ pc' = "idle"
    /\ route' = None /\ dir' = <<>> /\ touched' = FALSE
    /\ headers' = None /\ prepared' = None /\ source' = None
    /\ task' = <<>> /\ segment' = <<>>
    /\ body' = NoBody /\ mangled' = FALSE /\ layout' = <<>>
    /\ given' = <<>>

HasSegment == segment # <<>>

\* close() and unlink(), in the finally of whoever created the segment.
Unlink == segments' = IF HasSegment THEN segments - 1 ELSE segments

AllDone == \A d \in DOMAIN task : task[d] = "done"

\* close() raises, and unlink() is not reached, if a view that an ingest cut from
\* its segment outlives it.  (A producer dies of that, and its resource tracker
\* unlinks.)
CloseRaises ==
    /\ route = "ingest" /\ HasSegment /\ AllDone
    /\ leaked' = leaked + 1
    /\ UNCHANGED segments

End == Forget /\ ((Unlink /\ UNCHANGED leaked) \/ CloseRaises)

Fail == End /\ UNCHANGED <<mode, job, mishaps>>

\* ParallelEncodeUnavailable: a push goes serial, an ingest has no other way.
Unavailable ==
    \/ /\ route = "push"
       /\ pc' = "serial"
       /\ task' = <<>> /\ segment' = <<>>
       /\ Unlink
       /\ UNCHANGED <<mode, job, input, taken, leaked, wire, given, mishaps>>
    \/ route = "ingest" /\ Fail /\ UNCHANGED shm

-----------------------------------------------------------------------------
(* The headers.                                                            *)

Arrive(r, d) ==
    /\ pc = "idle" /\ job < MaxJobs
    /\ job' = job + 1
    /\ route' = r /\ dir' = d
    /\ pc' = "substitute"
    /\ UNCHANGED <<mode, touched, taken, forks, wire, given, mishaps>>

Substitute ==
    /\ pc = "substitute"
    /\ LET h == SubstitutedHeaders(mode, dir)
       IN  \/ h = Raised /\ Fail /\ UNCHANGED shm
           \/ /\ h # Raised
              /\ headers' = h
              /\ pc' = "resolve"
              /\ UNCHANGED <<mode, job, input, prepared, source, forks, wire, given, mishaps>>

\* The first resolution makes the /prepare.  A push goes on with the source it
\* has; run_ingest reads the directory again.
Resolve ==
    /\ pc = "resolve"
    /\ LET s == ResolveExposureDir(dir, headers)
       IN  \/ s = Raised /\ Fail /\ UNCHANGED shm
           \/ /\ s # Raised /\ prepared = None
              /\ prepared' = [physical_filter |-> s.physical_filter,
                              shards |-> ShardsOf[s.boresight]]
              /\ IF route = "push"
                 THEN source' = s /\ pc' = "create"
                 ELSE pc' = "substitute" /\ UNCHANGED source
              /\ UNCHANGED <<mode, job, input, headers, forks, wire, given, mishaps>>
           \/ /\ s # Raised /\ prepared # None
              /\ source' = s /\ pc' = "create"
              /\ UNCHANGED <<mode, job, input, headers, prepared, forks, wire, given, mishaps>>

-----------------------------------------------------------------------------
(* The workers.                                                            *)

\* Where the images begin in a segment: after the framing to come, in a push.
ImagesAt ==
    IF route = "push"
    THEN HEADER_SIZE + DESC_SIZE * 2 * Cardinality(DOMAIN source.handles)
    ELSE 0

\* The offset of a detector's slot: back to back, in the order of the numbers.
SlotAt(d) == ImagesAt + ImgSize * Cardinality({e \in DOMAIN source.handles : e < d})

CreateSegment ==
    /\ pc = "create" /\ segments < ShmRoom
    /\ segment' = [i \in 1..(ImagesAt + ImgSize * Cardinality(DOMAIN source.handles)
                              + IF route = "push" THEN MetaAllowance ELSE 0) |-> Zero]
    /\ segments' = segments + 1
    /\ task' = [d \in DOMAIN source.handles |-> "running"]
    /\ pc' = "forked"
    /\ UNCHANGED <<mode, job, input, taken, leaked, wire, given, mishaps>>

\* No room, unclamped threads, DONUT_SERVER_SERIAL_ENCODE, an OSError.
CannotFork == pc = "create" /\ Unavailable

\* _encode_one and _assemble_one: the pixels go to the detector's slot.
Worker(d) ==
    /\ pc = "forked" /\ d \in DOMAIN task /\ task[d] = "running"
    /\ task' = [task EXCEPT ![d] = "done"]
    /\ LET at  == SlotAt(d)
           img == ImgBytes(d)
       IN  segment' = [i \in DOMAIN segment |->
                          IF i \in at + 1 .. at + ImgSize THEN img[i - at] ELSE segment[i]]
    /\ UNCHANGED <<mode, job, input, pc, taken, segments, leaked, wire, given, mishaps>>

\* The error comes back as a value; some of the pixels may have been written.
WorkerRaises(d) ==
    /\ pc = "forked" /\ d \in DOMAIN task /\ task[d] = "running"
    /\ task' = [task EXCEPT ![d] = "error"]
    /\ UNCHANGED <<mode, job, input, pc, taken, segment, segments, leaked, wire, given, mishaps>>

\* SIGKILL, a segfault, SIGBUS on a page /dev/shm cannot back: no answer.
WorkerDies(d) ==
    /\ pc = "forked" /\ d \in DOMAIN task /\ task[d] = "running"
    /\ task' = [task EXCEPT ![d] = "dead"]
    /\ UNCHANGED <<mode, job, input, pc, taken, segment, segments, leaked, wire, given, mishaps>>

Answered == \A d \in DOMAIN task : task[d] \in {"done", "error"}

\* Broken: Pool.map without a timeout.
TimesOutNever == FALSE

\* FAN_OUT_TIMEOUT_S, then terminate() and join().
TimesOut == pc = "forked" /\ ~Answered /\ Unavailable

\* Broken: the failures are raised past the cleanup.
WorkersFailedUnlinked ==
    /\ pc = "forked" /\ Answered /\ ~AllDone
    /\ \/ /\ route = "push" /\ pc' = "serial"
          /\ task' = <<>> /\ segment' = <<>>
          /\ UNCHANGED <<mode, job, input, taken, segments, leaked, wire, given, mishaps>>
       \/ /\ route = "ingest" /\ Forget
          /\ UNCHANGED <<mode, job, shm, segments, leaked, mishaps>>

\* The errors of _fan_out's results.
WorkersFailed == pc = "forked" /\ Answered /\ ~AllDone /\ Unavailable

-----------------------------------------------------------------------------
(* The push: framing, body, block, decoding.                               *)

\* build_parts_parallel: images first, as laid out before the fork, then the
\* metas.
Names(dets) ==
    [i \in DOMAIN dets |-> PartName(dets[i], IMG_SUFFIX)]
    \o [i \in DOMAIN dets |-> PartName(dets[i], META_SUFFIX)]

Frame ==
    /\ pc = "forked" /\ route = "push" /\ AllDone
    /\ LET dets    == DetSeq(source)
           sizes   == [i \in DOMAIN dets |-> ImgSize]
                      \o [i \in DOMAIN dets |-> MetaSize[source.handles[dets[i]].header.exp]]
           before  == Cumulative(sizes)
           offsets == [i \in DOMAIN sizes |-> before[i-1]]
           framing == BuildFraming(Names(dets), sizes, offsets)
           images  == ImagesAt + ImgSize * Len(dets)
       IN  \/ framing.total > Len(segment) /\ Unavailable
           \/ /\ framing.total <= Len(segment)
              /\ body' = [magic |-> TRUE, desc |-> framing.desc, payload |-> framing.payload,
                          bytes |-> Framing(ImagesAt)
                                    \o SubSeq(segment, ImagesAt + 1, images)
                                    \o FlattenSeq([i \in DOMAIN dets |-> MetaBytes(dets[i])])]
              /\ pc' = "send"
              /\ UNCHANGED <<mode, job, input, taken, forks, mangled, shm, layout, given, mishaps>>

\* load_raw and encode_exposure: the two parts of one file.
LoadRaw(d) == <<ImgBytes(d), MetaBytes(d)>>

\* build_raw_parts and pack_blob: one file after the other, or a file that
\* cannot be read.
Serial ==
    /\ pc = "serial"
    /\ \/ LET dets  == DetSeq(source)
              names == FlattenSeq([i \in DOMAIN dets |->
                           <<PartName(dets[i], IMG_SUFFIX), PartName(dets[i], META_SUFFIX)>>])
              parts == FlattenSeq([i \in DOMAIN dets |->
                           LoadRaw(dets[i])])
          IN  /\ body' = PackBlob(names, parts)
              /\ pc' = "send"
              /\ UNCHANGED <<mode, job, input, taken, forks, mangled, shm, layout, given, mishaps>>
       \/ Fail /\ UNCHANGED shm

\* A producer that frames its body wrongly, or a connection that ends early.
Mangle ==
    /\ pc = "send" /\ mishaps < MaxMishaps
    /\ mangled' = TRUE
    /\ mishaps' = mishaps + 1
    /\ \/ body' = [body EXCEPT !.magic = FALSE]
       \/ \E n \in 0..Len(body.bytes)-1 : body' = [body EXCEPT !.bytes = SubSeq(@, 1, n)]
       \/ \E n \in {1, SHM_SIZE} :
             body' = [body EXCEPT !.bytes = @ \o [i \in 1..n |-> [kind |-> "pad", job |-> job]]]
       \/ \E n \in {1, MAX_PUSH_BYTES} : body' = [body EXCEPT !.payload = @ + n]
       \/ \E i \in DOMAIN body.desc :
             \/ body' = [body EXCEPT !.desc[i].offset = @ + 1]
             \/ body' = [body EXCEPT !.desc[i].size = @ + 1]
             \/ body.desc[i].size > 0 /\ body' = [body EXCEPT !.desc[i].size = @ - 1]
             \/ \E j \in DOMAIN body.desc :
                   body' = [body EXCEPT !.desc[i].name = body.desc[j].name]
    /\ UNCHANGED <<mode, job, input, pc, taken, forks, shm, layout, given>>

Written(n) == [i \in DOMAIN shm |-> IF i <= n THEN body.bytes[i] ELSE shm[i]]

\* The body does not fit, or its header does not do: 413 or 400.
TooLong ==
    /\ pc = "send" /\ Len(body.bytes) > Len(shm)
    /\ \E n \in 0..Len(shm) : shm' = Written(n)
    /\ Fail

BadHeader ==
    /\ pc = "send" /\ Len(body.bytes) <= Len(shm)
    /\ ~ParseHeader(body) \/ body.payload > MAX_PUSH_BYTES
    /\ \E n \in 0..Len(body.bytes) : shm' = Written(n)
    /\ Fail

\* The body is in.  The producer holds on to its segment until it is answered.
Receive ==
    /\ pc = "send" /\ Len(body.bytes) <= Len(shm)
    /\ ParseHeader(body) /\ body.payload <= MAX_PUSH_BYTES
    /\ shm' = Written(Len(body.bytes))
    /\ LET l == ParseLayout(body)
       IN  \/ l = Malformed /\ Fail
           \/ /\ l # Malformed
              /\ layout' = l
              /\ pc' = "decode"
              /\ body' = NoBody
              /\ UNCHANGED <<mode, job, input, taken, forks, mangled, given, mishaps>>

View(part) == SubSeq(shm, part.offset + 1, part.offset + part.size)

\* A pickle loads if it is whole, whatever follows it.
Loads(bytes) ==
    /\ bytes # <<>> /\ bytes[1].kind = "meta"
    /\ LET n == MetaSize[bytes[1].exp]
       IN  /\ n <= Len(bytes)
           /\ \A k \in 1..n : bytes[k] = [bytes[1] EXCEPT !.k = k]

Decodes(parts) ==
    /\ parts # Malformed
    /\ \A s \in DOMAIN parts : Loads(View(parts[s].meta)) /\ parts[s].img.size = ImgSize

\* reconstruct_exposures and decode_exposure.
Decode ==
    /\ pc = "decode"
    /\ LET parts == SplitParts(layout)
       IN  \/ ~Decodes(parts) /\ Fail /\ UNCHANGED shm
           \/ /\ Decodes(parts)
              /\ given' = [s \in DOMAIN parts |-> [img  |-> View(parts[s].img),
                                                   meta |-> View(parts[s].meta)[1]]]
              /\ pc' = "run"
              /\ UNCHANGED <<mode, job, input, taken, forks, wire, mishaps>>

-----------------------------------------------------------------------------
(* The ingest: views onto the segment, metadata from the headers it read, or *)
(* a header that no metadata can be built from.                              *)

Wrap ==
    /\ pc = "forked" /\ route = "ingest" /\ AllDone
    /\ \/ /\ given' = [d \in DOMAIN source.handles |->
                           [img  |-> SubSeq(segment, SlotAt(d) + 1, SlotAt(d) + ImgSize),
                            meta |-> [kind |-> "meta", job |-> job,
                                      det |-> source.handles[d].header.det,
                                      exp |-> source.handles[d].header.exp, k |-> 1]]]
          /\ pc' = "run"
          /\ UNCHANGED <<mode, job, input, taken, forks, wire, mishaps>>
       \/ Fail /\ UNCHANGED shm

-----------------------------------------------------------------------------
(* run_job.                                                                 *)

\* The filter of the first exposure, known detectors, one visit, and no
\* reference shards but those the prepare loaded.
Checked ==
    LET visits == {given[d].meta.exp : d \in DOMAIN given}
    IN  /\ given # <<>> /\ DOMAIN given \subseteq Dets
        /\ \E e \in visits : prepared.physical_filter = FilterOf[e]
        /\ Cardinality(visits) = 1
        /\ \A e \in visits : ShardsOf[e] \subseteq prepared.shards

RunJob ==
    /\ pc = "run"
    /\ \/ Checked /\ pc' = "running"
          /\ UNCHANGED <<mode, job, input, taken, forks, wire, given, mishaps>>
       \/ ~Checked /\ Fail /\ UNCHANGED shm

Done == pc = "running" /\ Fail /\ UNCHANGED shm

-----------------------------------------------------------------------------
(* What may happen meanwhile.                                              *)

\* A file is replaced by the same detector's file of another exposure.
Touch(p, e) ==
    /\ pc # "idle" /\ mishaps < MaxMishaps
    /\ p \in DOMAIN dir /\ dir[p].exp # e
    /\ dir' = [dir EXCEPT ![p].exp = e]
    /\ touched' = TRUE
    /\ mishaps' = mishaps + 1
    /\ UNCHANGED <<mode, job, route, pc, taken, forks, wire, given>>

\* The process at work is killed.  A producer's resource tracker unlinks its
\* segment; the coordinator's tracker is the front-end's, and lives on.
Kill ==
    /\ pc # "idle" /\ mishaps < MaxMishaps
    /\ mishaps' = mishaps + 1
    /\ Forget
    /\ IF route = "ingest" /\ HasSegment
       THEN leaked' = leaked + 1 /\ UNCHANGED segments
       ELSE Unlink /\ UNCHANGED leaked
    /\ UNCHANGED <<mode, job, shm>>

Producer ==
    \/ Substitute \/ Resolve \/ CreateSegment \/ CannotFork
    \/ \E d \in Dets : Worker(d) \/ WorkerRaises(d)
    \/ WorkersFailed \/ Frame \/ Serial
Coordinator == TooLong \/ BadHeader \/ Receive \/ Decode \/ Wrap \/ RunJob \/ Done

Next ==
    \/ \E r \in {"push", "ingest"}, d \in Dirs : Arrive(r, d)
    \/ Producer \/ Coordinator \/ TimesOut
    \/ \E d \in Dets : WorkerDies(d)
    \/ Mangle
    \/ \E p \in UNION {DOMAIN d : d \in Dirs}, e \in Exposures : Touch(p, e)
    \/ Kill

\* The processes run; the wait for the workers is the only one, and has a timeout.
Fairness == WF_vars(Producer \/ Coordinator \/ TimesOut)

Spec == Init /\ [][Next]_vars
FairSpec == Spec /\ Fairness

-----------------------------------------------------------------------------
(* Properties.                                                             *)

\* The task runs on raws of the filter the prepare was for, within the shards it
\* loaded, and unless a file was replaced meanwhile or the producer is not this
\* one: on every detector, each with its own pixels, and pixels and header of one
\* exposure.  Only an operator who pins the exposure, or runs a replay without
\* saying so, may mix them.
\* (replay.py:67, daq.py:1059, coordinator.py:1522.)
OwnPixels ==
    pc = "running" =>
        /\ \A d \in DOMAIN given :
              /\ FilterOf[given[d].meta.exp] = prepared.physical_filter
              /\ ShardsOf[given[d].meta.exp] \subseteq prepared.shards
        /\ ~touched /\ ~mangled =>
              /\ DOMAIN given = Dets
              /\ \A d \in Dets :
                    /\ given[d].meta.det = d
                    /\ \A k \in DOMAIN given[d].img :
                          /\ given[d].img[k].kind = "img"
                          /\ given[d].img[k].det = d
                          /\ \/ given[d].img[k].exp = given[d].meta.exp
                             \/ mode = "pinned"
                             \/ mode = "off" /\ dir[source.handles[d].path].emulated

\* However a body is framed, no byte the task reads is one an earlier push left
\* in the block.  (protocol.py:267.)
NoStaleBytes ==
    \A d \in DOMAIN given :
        /\ given[d].meta.job = job
        /\ \A k \in DOMAIN given[d].img : given[d].img[k].job = job

\* Between jobs the only segments in /dev/shm are those of killed coordinators and
\* of ingests whose views outlived them: every other way out of an ingest or an
\* encode gives its segment back.  (daq.py:771, daq.py:1011.)
SegmentsReturned ==
    segments = leaked + (IF HasSegment THEN 1 ELSE 0)

\* A job ends, whether its workers answer, fail or die.  (daq.py:803.)
EveryJobEnds == pc # "idle" ~> pc = "idle"
=============================================================================
