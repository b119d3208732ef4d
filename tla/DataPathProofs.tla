--------------------------- MODULE DataPathProofs ---------------------------
(***************************************************************************)
(* Proofs about DataPath and the layout its receiver parses: for any         *)
(* sensors, directories, sizes and numbers of jobs and mishaps, the segments *)
(* in /dev/shm are those of an encode under way and of killed coordinators,  *)
(* no accepted layout reaches behind what was received, no task is given a   *)
(* byte of an earlier job, and a task that runs has each detector's own      *)
(* pixels.                                                                  *)
(***************************************************************************)
EXTENDS DataPath, DataLemmas, TLAPS

\* A directory under the job, through any replaced file.
DirTyped == \A p \in DOMAIN dir : dir[p] \in Files

\* A source that was resolved has a sensor, and not infinitely many: what a
\* segment is sized by is not nothing.
SourceHasSensors ==
    pc = "create" => /\ DOMAIN source.handles # {}
                     /\ IsFiniteSet(DOMAIN source.handles)

\* A push holds its segment until it is answered, an ingest until the job is over.
InUse == {"forked", "send", "decode", "run", "running"}

\* A segment has bytes, the workers have one to write to, and nobody is about to
\* create one while one is held.
HeldWhileUsed ==
    /\ HasSegment => pc \in InUse /\ DOMAIN segment # {}
    /\ pc = "forked" => HasSegment

Counted == segments \in Nat /\ leaked \in Nat /\ SegmentsReturned

\* The inductive invariant.
SegmentInv == DirTyped /\ SourceHasSensors /\ HeldWhileUsed /\ Counted

-----------------------------------------------------------------------------
(* The layout.                                                             *)

Descriptors == [name : Dets \X {IMG_SUFFIX, META_SUFFIX}, offset : Nat, size : Nat]

\* Whatever is received, a layout that is accepted names only bytes that are
\* there, behind the framing: a part neither reaches into the descriptors nor
\* into what an earlier push left in the block.  (protocol.py:267.)
THEOREM LayoutInBounds ==
    ASSUME NEW b,
           Len(b.bytes) \in Nat, b.payload \in Nat,
           b.desc \in Seq(Descriptors),
           ParseLayout(b) # Malformed
    PROVE  \A i \in DOMAIN ParseLayout(b) :
              /\ ParseLayout(b)[i].offset >= HEADER_SIZE + DescriptorRegionSize(b.desc)
              /\ ParseLayout(b)[i].offset + ParseLayout(b)[i].size <= Len(b.bytes)
<1> DEFINE dataStart == HEADER_SIZE + DescriptorRegionSize(b.desc)
           longest == Len(b.bytes)
<1>1. dataStart \in Nat
  <2>1. Len(b.desc) \in Nat
    BY LenProperties
  <2> QED BY <2>1, WireFormatAssumption DEF DescriptorRegionSize
<1>2. \A i \in DOMAIN b.desc : b.desc[i] \in Descriptors
  BY ElementOfSeq, LenProperties
<1>3. /\ ~(dataStart + b.payload > longest)
      /\ \A i \in DOMAIN b.desc : ~(b.desc[i].offset + b.desc[i].size > b.payload)
  BY DEF ParseLayout
<1>4. ParseLayout(b) = [i \in DOMAIN b.desc |-> [b.desc[i] EXCEPT !.offset = dataStart + @]]
  BY DEF ParseLayout
<1> HIDE DEF dataStart, longest
<1>5. ASSUME NEW i \in DOMAIN b.desc
      PROVE  /\ ParseLayout(b)[i].offset >= dataStart
             /\ ParseLayout(b)[i].offset + ParseLayout(b)[i].size <= longest
  <2>1. /\ b.desc[i].offset \in Nat
        /\ b.desc[i].size \in Nat
        /\ ParseLayout(b)[i].offset = dataStart + b.desc[i].offset
        /\ ParseLayout(b)[i].size = b.desc[i].size
    BY SMTT(40), <1>2, <1>4 DEF Descriptors
  <2>2. longest \in Nat
    BY DEF longest
  <2>3. dataStart + b.payload <= longest
    <3>1. \A l \in Nat : ~(dataStart + b.payload > l) => dataStart + b.payload <= l
      BY <1>1
    <3> QED BY <1>3, <2>2, <3>1
  <2>4. b.desc[i].offset + b.desc[i].size <= b.payload
    <3>1. \A o, z \in Nat : ~(o + z > b.payload) => o + z <= b.payload
      OBVIOUS
    <3> QED BY <1>3, <2>1, <3>1
  <2>5. \A s, o, z, p, l \in Nat : s + p <= l /\ o + z <= p => s + o >= s /\ s + o + z <= l
    OBVIOUS
  <2> QED BY SMTT(40), <1>1, <2>1, <2>2, <2>3, <2>4, <2>5
<1> QED BY <1>4, <1>5 DEF dataStart, longest

-----------------------------------------------------------------------------
(* The segments.                                                           *)

\* Nothing is held before the first job.
LEMMA InitSegments == Init => SegmentInv
BY DEF Init, SegmentInv, DirTyped, SourceHasSensors, HeldWhileUsed, InUse, Counted,
       SegmentsReturned, HasSegment

\* However a job ends, what it held goes back.
LEMMA EndKeeps ==
    ASSUME SegmentInv, End
    PROVE  SegmentInv'
BY DEF SegmentInv, End, Forget, Unlink, CloseRaises, DirTyped, SourceHasSensors, HeldWhileUsed,
       InUse, Counted, SegmentsReturned, HasSegment

\* The way back to the serial encoder, and out of an ingest.
LEMMA UnavailableKeeps ==
    ASSUME SegmentInv, Unavailable
    PROVE  SegmentInv'
<1>1. CASE route = "ingest" /\ Fail /\ UNCHANGED shm
  BY <1>1, EndKeeps DEF Fail
<1>2. CASE route = "push" /\ pc' = "serial" /\ segment' = <<>> /\ Unlink
           /\ UNCHANGED <<dir, source, leaked>>
  BY <1>2 DEF SegmentInv, Unlink, DirTyped, SourceHasSensors, HeldWhileUsed, InUse, Counted,
              SegmentsReturned, HasSegment
<1> QED BY <1>1, <1>2 DEF Unavailable, input, taken

\* A step that leaves the directory and the segments alone, and does not go to
\* where a segment is created, nor away from where one is held.
LEMMA ElsewhereKeeps ==
    ASSUME SegmentInv,
           UNCHANGED <<dir, segments, leaked>>,
           segment' = segment \/ (HasSegment /\ DOMAIN segment' # {}),
           pc' # "create",
           HasSegment => pc' \in InUse,
           pc' = "forked" => HasSegment
    PROVE  SegmentInv'
BY DEF SegmentInv, DirTyped, SourceHasSensors, HeldWhileUsed, InUse, Counted, SegmentsReturned,
       HasSegment

\* What resolve_exposure_dir returns has a handle for each detector it saw.
LEMMA ResolvedSensors ==
    ASSUME DirTyped, NEW h, ResolveExposureDir(dir, h) # Raised
    PROVE  /\ DOMAIN ResolveExposureDir(dir, h).handles # {}
           /\ IsFiniteSet(DOMAIN ResolveExposureDir(dir, h).handles)
<1> DEFINE detectors == {dir[p].det : p \in DOMAIN dir}
           s == ResolveExposureDir(dir, h)
<1>1. DOMAIN dir # {}
  BY DEF ResolveExposureDir
<1>2. DOMAIN s.handles = detectors
  BY DEF ResolveExposureDir
<1>3. detectors \subseteq Dets
  BY DEF DirTyped, Files
<1> QED BY <1>1, <1>2, <1>3, ExposureDirAssumption, FS_Subset

\* What a directory resolves to has a sensor (Resolve).
LEMMA ResolveKeeps ==
    ASSUME SegmentInv, Resolve
    PROVE  SegmentInv'
<1> DEFINE s == ResolveExposureDir(dir, headers)
<1>1. CASE s = Raised
  BY <1>1, EndKeeps DEF Resolve, Fail
<1>2. CASE s # Raised
  <2>1. DOMAIN s.handles # {} /\ IsFiniteSet(DOMAIN s.handles)
    BY <1>2, ResolvedSensors DEF SegmentInv
  <2>2. /\ pc = "resolve"
        /\ UNCHANGED <<dir, segment, segments, leaked>>
        /\ pc' = "create" => source' = s
    BY <1>2 DEF Resolve, input, forks
  <2>3. pc' = "resolve" \/ pc' = "substitute" \/ pc' = "create"
    BY <1>2 DEF Resolve
  <2> HIDE DEF s
  <2>4. segment = <<>>
    BY <2>2 DEF SegmentInv, HeldWhileUsed, InUse, HasSegment
  <2>5. DirTyped' /\ SourceHasSensors'
    BY <2>1, <2>2 DEF SegmentInv, DirTyped, SourceHasSensors
  <2>6. HeldWhileUsed' /\ Counted'
    BY <2>2, <2>3, <2>4 DEF SegmentInv, HeldWhileUsed, InUse, Counted, SegmentsReturned, HasSegment
  <2> QED BY <2>5, <2>6 DEF SegmentInv
<1> QED BY <1>1, <1>2

\* A segment is created where none is held, and is not empty.
LEMMA CreateSegmentKeeps ==
    ASSUME SegmentInv, CreateSegment
    PROVE  SegmentInv'
<1> DEFINE n == Cardinality(DOMAIN source.handles)
           room == IF route = "push" THEN MetaAllowance ELSE 0
           size == ImagesAt + ImgSize * n + room
<1>1. n \in Nat \ {0}
  BY FS_CardinalityType, FS_EmptySet DEF CreateSegment, SegmentInv, SourceHasSensors
<1>2. ImgSize * n \in Nat \ {0}
  <2>1. \A a, b \in Nat \ {0} : a * b \in Nat \ {0}
    OBVIOUS
  <2> HIDE DEF n
  <2> QED BY <1>1, <2>1, DataPathAssumption
<1>3. ImagesAt \in Nat
  <2>1. DESC_SIZE * 2 * n \in Nat
    BY <1>1, WireFormatAssumption
  <2> QED BY <2>1, WireFormatAssumption DEF ImagesAt
<1>4. room \in Nat
  BY DataPathAssumption
<1>5. size \in Nat \ {0}
  <2> HIDE DEF n, room
  <2> QED BY <1>2, <1>3, <1>4
<1>6. segment' # <<>> /\ DOMAIN segment' # {}
  <2>1. segment' = [i \in 1..size |-> Zero]
    BY DEF CreateSegment
  <2>2. 1 \in 1..size
    BY <1>5
  <2> HIDE DEF size
  <2>3. DOMAIN segment' # {}
    BY <2>1, <2>2
  <2> QED BY <2>3
<1>7. /\ pc = "create" /\ pc' = "forked"
      /\ segments' = segments + 1
      /\ UNCHANGED <<dir, leaked>>
  BY DEF CreateSegment, input
<1>8. segment = <<>>
  BY <1>6, <1>7 DEF SegmentInv, HeldWhileUsed, InUse, HasSegment
<1> HIDE DEF n, room, size
<1>9. Counted'
  <2>1. segments = leaked /\ segments' = leaked' + 1 /\ leaked' \in Nat
    BY <1>7, <1>8 DEF SegmentInv, Counted, SegmentsReturned, HasSegment
  <2>2. (IF HasSegment' THEN 1 ELSE 0) = 1
    BY <1>6 DEF HasSegment
  <2>3. segments' = leaked' + (IF HasSegment' THEN 1 ELSE 0)
    BY <2>1, <2>2, Zenon
  <2>4. segments' \in Nat
    <3>1. \A k \in Nat : k + 1 \in Nat
      OBVIOUS
    <3> QED BY <2>1, <3>1, Zenon
  <2> QED BY <2>1, <2>3, <2>4, Zenon DEF Counted, SegmentsReturned
<1>10. DirTyped' /\ SourceHasSensors'
  BY <1>7 DEF SegmentInv, DirTyped, SourceHasSensors
<1>11. HeldWhileUsed'
  BY <1>6, <1>7 DEF HeldWhileUsed, InUse, HasSegment
<1> QED BY <1>9, <1>10, <1>11 DEF SegmentInv

\* Every step of the specification.
LEMMA StepSegments == SegmentInv /\ [Next]_vars => SegmentInv'
<1> SUFFICES ASSUME SegmentInv, [Next]_vars PROVE SegmentInv'
  OBVIOUS
<1>1. CASE UNCHANGED vars
  BY <1>1 DEF vars, input, taken, forks, SegmentInv, DirTyped, SourceHasSensors, HeldWhileUsed, InUse,
              Counted, SegmentsReturned, HasSegment
<1>2. ASSUME NEW r \in {"push", "ingest"}, NEW d \in Dirs, Arrive(r, d) PROVE SegmentInv'
  <2>1. \A p \in DOMAIN d : d[p] \in Files
    BY DataPathAssumption
  <2> QED BY <1>2, <2>1 DEF Arrive, forks, SegmentInv, DirTyped, SourceHasSensors,
                            HeldWhileUsed, InUse, Counted, SegmentsReturned, HasSegment
<1>3. CASE Substitute
  <2>1. CASE Fail
    BY <2>1, EndKeeps DEF Fail
  <2>2. CASE ~Fail
    <3>1. /\ pc = "substitute" /\ pc' = "resolve"
          /\ UNCHANGED <<dir, segment, segments, leaked>>
      BY <1>3, <2>2 DEF Substitute, input, forks
    <3> QED BY <3>1, ElsewhereKeeps DEF SegmentInv, HeldWhileUsed, InUse
  <2> QED BY <2>1, <2>2
<1>4. CASE Resolve
  BY <1>4, ResolveKeeps
<1>5. CASE CreateSegment
  BY <1>5, CreateSegmentKeeps
<1>6. CASE CannotFork
  BY <1>6, UnavailableKeeps DEF CannotFork
<1>7. ASSUME NEW d \in Dets, Worker(d) PROVE SegmentInv'
  <2>1. /\ pc = "forked" /\ UNCHANGED <<pc, dir, segments, leaked>>
        /\ DOMAIN segment' = DOMAIN segment
    BY <1>7 DEF Worker, input
  <2> QED BY <2>1, ElsewhereKeeps DEF SegmentInv, HeldWhileUsed, InUse
<1>8. ASSUME NEW d \in Dets, WorkerRaises(d) \/ WorkerDies(d) PROVE SegmentInv'
  <2>1. pc = "forked" /\ UNCHANGED <<pc, dir, segment, segments, leaked>>
    BY <1>8 DEF WorkerRaises, WorkerDies, input
  <2> QED BY <2>1, ElsewhereKeeps DEF SegmentInv, HeldWhileUsed, InUse
<1>9. CASE WorkersFailed \/ TimesOut
  BY <1>9, UnavailableKeeps DEF WorkersFailed, TimesOut
<1>10. CASE Frame
  <2>1. CASE Unavailable
    BY <2>1, UnavailableKeeps
  <2>2. CASE ~Unavailable
    <3>1. /\ pc = "forked" /\ pc' = "send"
          /\ UNCHANGED <<dir, segment, segments, leaked>>
      BY <1>10, <2>2 DEF Frame, input, forks
    <3> QED BY <3>1, ElsewhereKeeps DEF SegmentInv, HeldWhileUsed, InUse
  <2> QED BY <2>1, <2>2
<1>11. CASE Serial
  <2>1. CASE Fail
    BY <2>1, EndKeeps DEF Fail
  <2>2. CASE ~Fail
    <3>1. /\ pc = "serial" /\ pc' = "send"
          /\ UNCHANGED <<dir, segment, segments, leaked>>
      BY <1>11, <2>2 DEF Serial, input, forks
    <3> QED BY <3>1, ElsewhereKeeps DEF SegmentInv, HeldWhileUsed, InUse
  <2> QED BY <2>1, <2>2
<1>12. CASE Mangle
  <2>1. UNCHANGED <<pc, dir, segment, segments, leaked>> /\ pc = "send"
    BY <1>12 DEF Mangle, input, forks
  <2> QED BY <2>1, ElsewhereKeeps DEF SegmentInv, HeldWhileUsed, InUse
<1>13. CASE TooLong \/ BadHeader
  BY <1>13, EndKeeps DEF TooLong, BadHeader, Fail
<1>14. CASE Receive
  <2>1. CASE Fail
    BY <2>1, EndKeeps DEF Fail
  <2>2. CASE ~Fail
    <3>1. pc = "send" /\ pc' = "decode" /\ UNCHANGED <<dir, segment, segments, leaked>>
      BY <1>14, <2>2 DEF Receive, input, forks
    <3> QED BY <3>1, ElsewhereKeeps DEF SegmentInv, HeldWhileUsed, InUse
  <2> QED BY <2>1, <2>2
<1>15. CASE Decode \/ RunJob \/ Done
  <2>1. CASE Fail
    BY <2>1, EndKeeps DEF Fail
  <2>2. CASE ~Fail
    <3>1. /\ pc \in {"decode", "run"} /\ pc' \in {"run", "running"}
          /\ UNCHANGED <<dir, segment, segments, leaked>>
      BY <1>15, <2>2 DEF Decode, RunJob, Done, input, forks
    <3> QED BY <3>1, ElsewhereKeeps DEF SegmentInv, HeldWhileUsed, InUse
  <2> QED BY <2>1, <2>2
<1>16. CASE Wrap
  <2>1. CASE Fail
    BY <2>1, EndKeeps DEF Fail
  <2>2. CASE ~Fail
    <3>1. pc = "forked" /\ pc' = "run" /\ UNCHANGED <<dir, segment, segments, leaked>>
      BY <1>16, <2>2 DEF Wrap, input, forks
    <3> QED BY <3>1, ElsewhereKeeps DEF SegmentInv, HeldWhileUsed, InUse
  <2> QED BY <2>1, <2>2
<1>17. ASSUME NEW p, NEW e \in Exposures, Touch(p, e) PROVE SegmentInv'
  <2>1. /\ p \in DOMAIN dir /\ dir' = [dir EXCEPT ![p].exp = e]
        /\ UNCHANGED <<pc, source, segment, segments, leaked>>
    BY <1>17 DEF Touch, taken, forks
  <2>2. DirTyped'
    BY <2>1 DEF SegmentInv, DirTyped, Files
  <2> QED BY <2>1, <2>2 DEF SegmentInv, SourceHasSensors, HeldWhileUsed, InUse, Counted,
                            SegmentsReturned, HasSegment
<1>18. CASE Kill
  BY <1>18 DEF Kill, Forget, Unlink, SegmentInv, DirTyped, SourceHasSensors, HeldWhileUsed, InUse,
               Counted, SegmentsReturned, HasSegment
<1> QED
  BY <1>1, <1>2, <1>3, <1>4, <1>5, <1>6, <1>7, <1>8, <1>9, <1>10, <1>11, <1>12, <1>13, <1>14,
     <1>15, <1>16, <1>17, <1>18 DEF Next, Producer, Coordinator

\* The invariant holds of every job on the flight, whatever dies and whatever is
\* replaced.
THEOREM SegmentInvariant == Spec => []SegmentInv
BY InitSegments, StepSegments, PTL DEF Spec

\* Between jobs the only segments in /dev/shm are those of killed coordinators and
\* of ingests whose views outlived them.  (daq.py:771, daq.py:1011.)
THEOREM SegmentsAlwaysReturned == Spec => []SegmentsReturned
<1>1. SegmentInv => SegmentsReturned
  BY DEF SegmentInv, Counted
<1> QED BY <1>1, SegmentInvariant, PTL

-----------------------------------------------------------------------------
(* Running sums, as offsets are computed, and flattened sequences.         *)

\* g is the running sums of sizes, up to the n-th: what Cumulative chooses.
SumsUpTo(sizes, n, g) == g = [i \in 0..n |-> IF i = 0 THEN 0 ELSE g[i-1] + sizes[i]]

\* There are such sums.
LEMMA SumsExist ==
    ASSUME NEW sizes
    PROVE  \A n \in Nat : \E g : SumsUpTo(sizes, n, g)
<1> DEFINE P == {n \in Nat : \E g : SumsUpTo(sizes, n, g)}
<1>1. 0 \in P
  <2> DEFINE g == [i \in 0..0 |-> 0]
  <2>1. SumsUpTo(sizes, 0, g)
    BY DEF SumsUpTo
  <2> QED BY <2>1
<1>2. ASSUME NEW n \in Nat, n \in P PROVE n + 1 \in P
  <2>1. PICK g : SumsUpTo(sizes, n, g)
    BY <1>2
  <2> DEFINE h == [i \in 0..(n + 1) |-> IF i = n + 1 THEN g[n] + sizes[n + 1] ELSE g[i]]
  <2>2. \A i \in 0..(n + 1) : h[i] = IF i = 0 THEN 0 ELSE h[i-1] + sizes[i]
    <3>1. \A i \in 0..n : g[i] = IF i = 0 THEN 0 ELSE g[i-1] + sizes[i]
      BY <2>1 DEF SumsUpTo
    <3> QED BY <3>1
  <2>3. SumsUpTo(sizes, n + 1, h)
    BY <2>2 DEF SumsUpTo
  <2> QED BY <2>3
<1> HIDE DEF P
<1>3. Nat \subseteq P
  BY <1>1, <1>2, NatInduct
<1> QED BY <1>3 DEF P

\* Cumulative computes the running sums.
LEMMA CumulativeIsSums ==
    ASSUME NEW sizes, Len(sizes) \in Nat
    PROVE  SumsUpTo(sizes, Len(sizes), Cumulative(sizes))
<1>1. PICK g : SumsUpTo(sizes, Len(sizes), g)
  BY SumsExist
<1>2. Cumulative(sizes) = CHOOSE c : SumsUpTo(sizes, Len(sizes), c)
  BY DEF Cumulative, SumsUpTo
<1> QED BY <1>1, <1>2

\* The offsets are sums of sizes: naturals that start at 0, each the one before
\* and the size between them.
LEMMA CumulativeFacts ==
    ASSUME NEW sizes \in Seq(Nat)
    PROVE  /\ Cumulative(sizes) \in [0..Len(sizes) -> Nat]
           /\ Cumulative(sizes)[0] = 0
           /\ \A i \in 1..Len(sizes) : Cumulative(sizes)[i] = Cumulative(sizes)[i-1] + sizes[i]
<1> DEFINE c == Cumulative(sizes)
           n == Len(sizes)
           P == {i \in Nat : i <= n => c[i] \in Nat}
<1>1. n \in Nat /\ sizes \in [1..n -> Nat]
  BY LenProperties
<1>2. c = [i \in 0..n |-> IF i = 0 THEN 0 ELSE c[i-1] + sizes[i]]
  BY <1>1, CumulativeIsSums DEF SumsUpTo
<1> HIDE DEF c, n
<1>3. c[0] = 0 /\ \A i \in 1..n : c[i] = c[i-1] + sizes[i]
  BY <1>1, <1>2
<1>4. Nat \subseteq P
  <2>1. 0 \in P
    BY <1>3
  <2>2. ASSUME NEW i \in Nat, i \in P PROVE i + 1 \in P
    BY <1>1, <1>3, <2>2
  <2> HIDE DEF P
  <2> QED BY <2>1, <2>2, NatInduct
<1>5. c \in [0..n -> Nat]
  <2>1. ASSUME NEW i \in 0..n PROVE c[i] \in Nat
    <3>1. i \in Nat /\ i <= n
      BY <1>1
    <3> QED BY <1>4, <3>1
  <2>2. DOMAIN c = 0..n /\ c = [i \in 0..n |-> c[i]]
    BY <1>2
  <2> QED BY <2>1, <2>2
<1> QED BY <1>3, <1>5 DEF c, n

\* Offsets never go back.
LEMMA CumulativeMonotone ==
    ASSUME NEW sizes \in Seq(Nat), NEW i \in 0..Len(sizes), NEW j \in 0..Len(sizes), i <= j
    PROVE  Cumulative(sizes)[i] <= Cumulative(sizes)[j]
<1> DEFINE c == Cumulative(sizes)
           n == Len(sizes)
           P == {k \in Nat : i + k <= n => c[i] <= c[i + k]}
<1>1. /\ n \in Nat /\ sizes \in [1..n -> Nat] /\ c \in [0..n -> Nat]
      /\ \A k \in 1..n : c[k] = c[k-1] + sizes[k]
      /\ i \in 0..n /\ j \in 0..n
  BY LenProperties, CumulativeFacts
<1> HIDE DEF c, n
<1>2. Nat \subseteq P
  <2>1. 0 \in P
    BY <1>1
  <2>2. ASSUME NEW k \in Nat, k \in P PROVE k + 1 \in P
    <3>1. CASE i + (k + 1) <= n
      <4>1. /\ i + k \in 0..n /\ i + (k + 1) \in 1..n /\ (i + (k + 1)) - 1 = i + k
            /\ c[i] <= c[i + k]
        BY <1>1, <2>2, <3>1
      <4>2. c[i + (k + 1)] = c[i + k] + sizes[i + (k + 1)]
        BY <1>1, <4>1
      <4>3. c[i] \in Nat /\ c[i + k] \in Nat /\ sizes[i + (k + 1)] \in Nat
        BY <1>1, <4>1
      <4> QED BY <4>1, <4>2, <4>3
    <3> QED BY <3>1
  <2> HIDE DEF P
  <2> QED BY <2>1, <2>2, NatInduct
<1>3. j - i \in Nat /\ i + (j - i) = j /\ j <= n
  BY <1>1
<1>4. j - i \in P
  BY <1>2, <1>3
<1>5. c[i] <= c[j]
  BY <1>3, <1>4
<1> QED BY <1>5 DEF c

\* The offsets of two runs of parts, one behind the other.
LEMMA CumulativeConcat ==
    ASSUME NEW s \in Seq(Nat), NEW t \in Seq(Nat)
    PROVE  /\ s \o t \in Seq(Nat) /\ Len(s \o t) = Len(s) + Len(t)
           /\ \A i \in 0..Len(s) : Cumulative(s \o t)[i] = Cumulative(s)[i]
           /\ \A j \in 0..Len(t) :
                 Cumulative(s \o t)[Len(s) + j] = Cumulative(s)[Len(s)] + Cumulative(t)[j]
<1> DEFINE u == s \o t
           m == Len(s)
           n == Len(t)
           cs == Cumulative(s)
           ct == Cumulative(t)
           cu == Cumulative(u)
<1>1. /\ m \in Nat /\ n \in Nat /\ u \in Seq(Nat) /\ Len(u) = m + n
      /\ \A i \in 1..(m + n) : u[i] = IF i <= m THEN s[i] ELSE t[i - m]
      /\ s \in [1..m -> Nat] /\ t \in [1..n -> Nat]
  BY LenProperties, ConcatProperties
<1> HIDE DEF u
<1>2. /\ cs \in [0..m -> Nat] /\ cs[0] = 0 /\ \A i \in 1..m : cs[i] = cs[i-1] + s[i]
      /\ ct \in [0..n -> Nat] /\ ct[0] = 0 /\ \A i \in 1..n : ct[i] = ct[i-1] + t[i]
      /\ cu \in [0..(m + n) -> Nat] /\ cu[0] = 0
      /\ \A i \in 1..(m + n) : cu[i] = cu[i-1] + u[i]
  BY <1>1, CumulativeFacts
<1> HIDE DEF m, n, cs, ct, cu
<1>3. \A i \in 0..m : cu[i] = cs[i]
  <2> DEFINE P == {i \in Nat : i <= m => cu[i] = cs[i]}
  <2>1. 0 \in P
    BY <1>2
  <2>2. ASSUME NEW i \in Nat, i \in P PROVE i + 1 \in P
    <3> SUFFICES ASSUME i + 1 <= m PROVE cu[i + 1] = cs[i + 1]
      OBVIOUS
    <3>1. /\ i + 1 \in 1..m /\ i + 1 \in 1..(m + n) /\ (i + 1) - 1 = i /\ cu[i] = cs[i]
      BY <1>1, <2>2
    <3>2. u[i + 1] = s[i + 1]
      BY <1>1, <3>1
    <3> QED BY <1>2, <3>1, <3>2
  <2> HIDE DEF P
  <2>3. Nat \subseteq P
    BY <2>1, <2>2, NatInduct
  <2>4. \A i \in 0..m : i \in Nat /\ i <= m
    BY <1>1
  <2> QED BY <2>3, <2>4 DEF P
<1>4. \A j \in 0..n : cu[m + j] = cs[m] + ct[j]
  <2> DEFINE P == {j \in Nat : j <= n => cu[m + j] = cs[m] + ct[j]}
  <2>1. 0 \in P
    <3>1. cs[m] \in Nat /\ cu[m] = cs[m] /\ m + 0 = m
      BY <1>1, <1>2, <1>3
    <3> QED BY <1>2, <3>1
  <2>2. ASSUME NEW j \in Nat, j \in P PROVE j + 1 \in P
    <3> SUFFICES ASSUME j + 1 <= n PROVE cu[m + (j + 1)] = cs[m] + ct[j + 1]
      OBVIOUS
    <3>1. /\ j + 1 \in 1..n /\ m + (j + 1) \in 1..(m + n) /\ (j + 1) - 1 = j
          /\ (m + (j + 1)) - 1 = m + j /\ (m + (j + 1)) - m = j + 1 /\ ~(m + (j + 1) <= m)
          /\ cu[m + j] = cs[m] + ct[j]
      BY <1>1, <2>2
    <3>2. u[m + (j + 1)] = t[j + 1]
      BY <1>1, <3>1
    <3>3. cu[m + (j + 1)] = (cs[m] + ct[j]) + t[j + 1] /\ ct[j + 1] = ct[j] + t[j + 1]
      BY <1>2, <3>1, <3>2
    <3>4. cs[m] \in Nat /\ ct[j] \in Nat /\ t[j + 1] \in Nat
      <4>1. j \in 0..n /\ m \in 0..m
        BY <1>1, <3>1
      <4> QED BY <1>1, <1>2, <3>1, <4>1
    <3> QED BY <3>3, <3>4
  <2> HIDE DEF P
  <2>3. Nat \subseteq P
    BY <2>1, <2>2, NatInduct
  <2>4. \A j \in 0..n : j \in Nat /\ j <= n
    BY <1>1
  <2> QED BY <2>3, <2>4 DEF P
<1> QED BY <1>1, <1>3, <1>4 DEF u, m, n, cs, ct, cu

\* The offsets of parts of one size.
LEMMA CumulativeConstant ==
    ASSUME NEW s \in Seq(Nat), NEW a \in Nat, \A i \in 1..Len(s) : s[i] = a
    PROVE  \A i \in 0..Len(s) : Cumulative(s)[i] = a * i
<1> DEFINE c == Cumulative(s)
           n == Len(s)
           P == {i \in Nat : i <= n => c[i] = a * i}
<1>1. n \in Nat /\ c[0] = 0 /\ \A i \in 1..n : c[i] = c[i-1] + a
  BY LenProperties, CumulativeFacts
<1> HIDE DEF c, n
<1>2. 0 \in P
  <2>1. a * 0 = 0
    OBVIOUS
  <2> QED BY <1>1, <2>1
<1>3. ASSUME NEW i \in Nat, i \in P PROVE i + 1 \in P
  <2> SUFFICES ASSUME i + 1 <= n PROVE c[i + 1] = a * (i + 1)
    OBVIOUS
  <2>1. i + 1 \in 1..n /\ (i + 1) - 1 = i /\ c[i] = a * i
    BY <1>1, <1>3
  <2>2. a * (i + 1) = a * i + a
    OBVIOUS
  <2> QED BY <1>1, <2>1, <2>2
<1> HIDE DEF P
<1>4. Nat \subseteq P
  BY <1>2, <1>3, NatInduct
<1>5. \A i \in 0..n : i \in Nat /\ i <= n
  BY <1>1
<1> QED BY <1>4, <1>5 DEF P, c, n

\* g is the running concatenations of ss, up to the n-th: what FlattenSeq
\* chooses.
JoinsUpTo(ss, n, g) == g = [i \in 1..n |-> IF i = 1 THEN ss[i] ELSE g[i-1] \o ss[i]]

\* There are such concatenations.
LEMMA JoinsExist ==
    ASSUME NEW ss
    PROVE  \A n \in Nat : \E g : JoinsUpTo(ss, n, g)
<1> DEFINE P == {n \in Nat : \E g : JoinsUpTo(ss, n, g)}
<1>1. 0 \in P
  <2> DEFINE g == [i \in 1..0 |-> 0]
  <2>1. JoinsUpTo(ss, 0, g)
    BY DEF JoinsUpTo
  <2> QED BY <2>1
<1>2. ASSUME NEW n \in Nat, n \in P PROVE n + 1 \in P
  <2>1. PICK g : JoinsUpTo(ss, n, g)
    BY <1>2
  <2> DEFINE step == IF n = 0 THEN ss[1] ELSE g[n] \o ss[n + 1]
             h == [i \in 1..(n + 1) |-> IF i = n + 1 THEN step ELSE g[i]]
  <2>2. \A i \in 1..(n + 1) : h[i] = IF i = 1 THEN ss[i] ELSE h[i-1] \o ss[i]
    <3>1. \A i \in 1..n : g[i] = IF i = 1 THEN ss[i] ELSE g[i-1] \o ss[i]
      BY <2>1 DEF JoinsUpTo
    <3> QED BY <3>1
  <2>3. JoinsUpTo(ss, n + 1, h)
    BY <2>2 DEF JoinsUpTo
  <2> QED BY <2>3
<1> HIDE DEF P
<1>3. Nat \subseteq P
  BY <1>1, <1>2, NatInduct
<1> QED BY <1>3 DEF P

\* FlattenSeq is the last of them.
LEMMA FlattenIsJoins ==
    ASSUME NEW ss, Len(ss) \in Nat \ {0}
    PROVE  \E g : JoinsUpTo(ss, Len(ss), g) /\ FlattenSeq(ss) = g[Len(ss)]
<1>1. PICK g : JoinsUpTo(ss, Len(ss), g)
  BY JoinsExist
<1> DEFINE chosen == CHOOSE f : JoinsUpTo(ss, Len(ss), f)
<1>2. FlattenSeq(ss) = chosen[Len(ss)]
  BY DEF FlattenSeq, JoinsUpTo
<1>3. JoinsUpTo(ss, Len(ss), chosen)
  BY <1>1
<1> QED BY <1>2, <1>3

\* How long each piece is.
Sizes(ss) == [i \in DOMAIN ss |-> Len(ss[i])]

\* A flattened sequence has its pieces back to back, each at the sum of the
\* sizes before it.
LEMMA FlattenFacts ==
    ASSUME NEW S, NEW ss \in Seq(Seq(S))
    PROVE  /\ Sizes(ss) \in Seq(Nat) /\ Len(Sizes(ss)) = Len(ss)
           /\ FlattenSeq(ss) \in Seq(S)
           /\ Len(FlattenSeq(ss)) = Cumulative(Sizes(ss))[Len(ss)]
           /\ \A i \in 1..Len(ss) : \A k \in 1..Len(ss[i]) :
                 FlattenSeq(ss)[Cumulative(Sizes(ss))[i-1] + k] = ss[i][k]
<1> DEFINE n == Len(ss)
           c == Cumulative(Sizes(ss))
<1>1. n \in Nat /\ DOMAIN ss = 1..n /\ \A i \in 1..n : ss[i] \in Seq(S) /\ Len(ss[i]) \in Nat
  BY LenProperties
<1>2. Sizes(ss) \in Seq(Nat) /\ Len(Sizes(ss)) = n /\ \A i \in 1..n : Sizes(ss)[i] = Len(ss[i])
  BY <1>1 DEF Sizes
<1>3. /\ c \in [0..n -> Nat] /\ c[0] = 0
      /\ \A i \in 1..n : c[i] = c[i-1] + Len(ss[i])
  BY <1>2, CumulativeFacts
<1>4. CASE n = 0
  <2>1. FlattenSeq(ss) = ss /\ ss = <<>>
    BY <1>4 DEF FlattenSeq
  <2> QED BY <1>2, <1>3, <1>4, <2>1
<1>5. CASE n # 0
  <2>1. PICK g : JoinsUpTo(ss, n, g) /\ FlattenSeq(ss) = g[n]
    BY <1>1, <1>5, FlattenIsJoins
  <2>2. \A i \in 1..n : g[i] = IF i = 1 THEN ss[i] ELSE g[i-1] \o ss[i]
    BY <2>1 DEF JoinsUpTo
  <2> DEFINE Good(m) == /\ g[m] \in Seq(S) /\ Len(g[m]) = c[m]
                        /\ \A i \in 1..m : \A k \in 1..Len(ss[i]) : g[m][c[i-1] + k] = ss[i][k]
             P == {m \in Nat : m + 1 <= n => Good(m + 1)}
  <2> HIDE DEF n, c
  <2>3. 0 \in P
    <3>1. g[1] = ss[1] /\ 1 \in 1..n
      BY <1>1, <1>5, <2>2
    <3>2. c[0] = 0 /\ c[1] = Len(ss[1])
      BY <1>1, <1>3, <3>1
    <3>3. Good(1)
      BY <1>1, <3>1, <3>2
    <3> QED BY <3>3
  <2>4. ASSUME NEW m \in Nat, m \in P, m + 2 <= n PROVE Good(m + 2)
    <3> DEFINE s == g[m + 1]
               t == ss[m + 2]
    <3>1. m + 1 \in 1..n /\ m + 2 \in 1..n /\ (m + 2) - 1 = m + 1 /\ m + 2 # 1
      BY <1>1, <2>4
    <3>2. g[m + 2] = s \o t
      BY <2>2, <3>1
    <3>3. /\ s \in Seq(S) /\ Len(s) = c[m + 1]
          /\ \A i \in 1..(m + 1) : \A k \in 1..Len(ss[i]) : s[c[i-1] + k] = ss[i][k]
      BY <2>4, <3>1
    <3>4. t \in Seq(S) /\ Len(t) \in Nat /\ c[m + 2] = c[m + 1] + Len(t)
      BY <1>1, <1>3, <3>1
    <3> HIDE DEF s, t
    <3>5. /\ s \o t \in Seq(S) /\ Len(s \o t) = Len(s) + Len(t)
          /\ \A i \in 1..(Len(s) + Len(t)) :
                (s \o t)[i] = IF i <= Len(s) THEN s[i] ELSE t[i - Len(s)]
      BY <3>3, <3>4, ConcatProperties
    <3>6. ASSUME NEW i \in 1..(m + 2), NEW k \in 1..Len(ss[i])
          PROVE  (s \o t)[c[i-1] + k] = ss[i][k]
      <4>0. c[m + 1] \in Nat /\ c[i - 1] \in Nat /\ Len(ss[i]) \in Nat
        <5>1. m + 1 \in 0..n /\ i - 1 \in 0..n /\ i \in 1..n
          BY <1>1, <3>1
        <5>2. \A j \in 0..n : c[j] \in Nat
          BY <1>3
        <5> QED BY <1>1, <5>1, <5>2
      <4>1. CASE i = m + 2
        <5>1. i - 1 = m + 1 /\ k \in 1..Len(t) /\ ss[i] = t
          BY <4>1 DEF t
        <5>2. /\ c[i-1] + k \in 1..(Len(s) + Len(t)) /\ ~(c[i-1] + k <= Len(s))
              /\ (c[i-1] + k) - Len(s) = k
          BY <3>3, <3>4, <4>0, <5>1
        <5> QED BY <3>5, <5>1, <5>2
      <4>2. CASE i # m + 2
        <5>1. i \in 1..(m + 1) /\ i \in 1..n /\ m + 1 \in 0..n /\ i \in 0..n /\ i <= m + 1
          BY <1>1, <3>1, <4>2
        <5>2. c[i] <= c[m + 1] /\ c[i] = c[i-1] + Len(ss[i])
          BY <1>2, <1>3, <5>1, CumulativeMonotone DEF c
        <5>3. c[i-1] + Len(ss[i]) <= Len(s) /\ Len(s) \in Nat
          BY <3>3, <4>0, <5>2
        <5>4. \A a, l, z, b \in Nat : \A j \in 1..l :
                 a + l <= z => a + j \in 1..(z + b) /\ a + j <= z
          OBVIOUS
        <5>5. c[i-1] + k \in 1..(Len(s) + Len(t)) /\ c[i-1] + k <= Len(s)
          BY <3>4, <4>0, <5>3, <5>4
        <5> QED BY <3>3, <3>5, <5>1, <5>5
      <4> QED BY <4>1, <4>2
    <3>7. Len(g[m + 2]) = c[m + 2] /\ g[m + 2] \in Seq(S)
      BY <3>2, <3>3, <3>4, <3>5
    <3> QED BY <3>2, <3>6, <3>7
  <2> HIDE DEF Good
  <2>5. \A m \in Nat : m \in P => m + 1 \in P
    <3> SUFFICES ASSUME NEW m \in Nat, m \in P, (m + 1) + 1 <= n PROVE Good((m + 1) + 1)
      OBVIOUS
    <3>1. (m + 1) + 1 = m + 2 /\ m + 2 <= n
      BY <1>1
    <3>2. Good(m + 2)
      BY <2>4, <3>1
    <3> QED BY <3>1, <3>2
  <2>6. Nat \subseteq P
    <3> HIDE DEF P
    <3> QED BY <2>3, <2>5, NatInduct
  <2>7. Good(n)
    <3>1. n - 1 \in Nat /\ (n - 1) + 1 = n /\ n <= n
      BY <1>1, <1>5
    <3>2. n - 1 \in P
      BY <2>6, <3>1
    <3>3. Good((n - 1) + 1)
      BY <3>1, <3>2
    <3> QED BY <3>1, <3>3
  <2> QED BY <1>2, <2>1, <2>7 DEF Good, n, c
<1> QED BY <1>4, <1>5

\* Of pairs, flattened, the j-th is at places 2j-1 and 2j.
LEMMA PairsFlatten ==
    ASSUME NEW S, NEW ss \in Seq(Seq(S)), \A j \in 1..Len(ss) : Len(ss[j]) = 2
    PROVE  /\ FlattenSeq(ss) \in Seq(S) /\ Len(FlattenSeq(ss)) = 2 * Len(ss)
           /\ \A j \in 1..Len(ss) : \A k \in 1..2 : FlattenSeq(ss)[2 * (j - 1) + k] = ss[j][k]
<1> DEFINE n == Len(ss)
           c == Cumulative(Sizes(ss))
<1>1. /\ n \in Nat /\ DOMAIN ss = 1..n
      /\ Sizes(ss) \in Seq(Nat) /\ Len(Sizes(ss)) = n
      /\ FlattenSeq(ss) \in Seq(S) /\ Len(FlattenSeq(ss)) = c[n]
      /\ \A i \in 1..n : \A k \in 1..Len(ss[i]) : FlattenSeq(ss)[c[i-1] + k] = ss[i][k]
  BY LenProperties, FlattenFacts
<1>2. \A i \in 1..n : Sizes(ss)[i] = 2
  BY <1>1 DEF Sizes
<1>3. \A i \in 0..n : c[i] = 2 * i
  <2>1. 2 \in Nat /\ \A i \in 1..Len(Sizes(ss)) : Sizes(ss)[i] = 2
    BY <1>1, <1>2
  <2>2. \A i \in 0..Len(Sizes(ss)) : Cumulative(Sizes(ss))[i] = 2 * i
    BY <1>1, <2>1, CumulativeConstant
  <2> QED BY <1>1, <2>2
<1> HIDE DEF n, c
<1>4. c[n] = 2 * n /\ \A j \in 1..n : c[j - 1] = 2 * (j - 1)
  BY <1>1, <1>3
<1> QED BY <1>1, <1>4 DEF n

-----------------------------------------------------------------------------
(* The bytes of a job, from the files of its directory to its task.        *)

\* The headers there are: a detector's, of an exposure or of none, of an
\* exposure's emulation or of none.
Header == [det : Dets, exp : Exposures \cup {Emulated}, emuimage : Exposures \cup {None}]

\* The file a detector's pixels are read from.
FileOf(d) == dir[source.handles[d].path]

\* A directory has files of detectors, finitely many, under numbers.
DirInv ==
    /\ DOMAIN dir \subseteq Nat /\ IsFiniteSet(DOMAIN dir)
    /\ \A p \in DOMAIN dir : dir[p] \in Files

\* The substitutes in hand are those of the directory, until a file is replaced.
HeadersInv ==
    pc = "resolve" =>
        /\ headers # Raised
        /\ headers # None => \A d \in DOMAIN headers : headers[d] \in Header /\ headers[d].det = d
        /\ ~touched => headers = SubstitutedHeaders(mode, dir)

\* The places of a job that has resolved its directory.
Resolved == {"create", "forked", "serial", "send", "decode", "run", "running"}

\* A resolved source has each detector's file and its header; of one exposure,
\* unless a file was replaced or the operator mixes them.
SourceInv ==
    pc \in Resolved =>
        /\ DOMAIN source.handles = Dets /\ Dets # {}
        /\ \A d \in Dets :
              /\ source.handles[d].header \in Header
              /\ source.handles[d].header.det = d
              /\ source.handles[d].path \in DOMAIN dir
              /\ FileOf(d).det = d
              /\ \/ touched
                 \/ FileOf(d).exp = source.handles[d].header.exp
                 \/ mode = "pinned"
                 \/ mode = "off" /\ FileOf(d).emulated

\* A pixel of detector d, of this job.
PixelOf(b, d) ==
    /\ b.job = job
    /\ ~touched => b.kind = "img" /\ b.det = d /\ b.exp = FileOf(d).exp

\* A slot holds its own detector's pixels once its worker is done.
SegmentBytesInv ==
    pc = "forked" =>
        /\ DOMAIN task = Dets
        /\ IsSeq(segment) /\ ImagesAt + ImgSize * Cardinality(Dets) <= Len(segment)
        /\ \A d \in Dets : task[d] = "done" =>
              \A k \in 1..ImgSize : PixelOf(segment[SlotAt(d) + k], d)

\* A part as the producer of this code frames it: a detector's pixels, or its
\* header; bytes from `start` on.
HonestPart(p, bytes, start) ==
    LET d == p.name[1]
    IN  /\ d \in Dets
        /\ \/ /\ p.name = PartName(d, IMG_SUFFIX)
              /\ p.size = ImgSize
              /\ \A k \in 1..ImgSize : PixelOf(bytes[start + p.offset + k], d)
           \/ /\ p.name = PartName(d, META_SUFFIX)
              /\ p.size > 0
              /\ bytes[start + p.offset + 1].det = d
              /\ bytes[start + p.offset + 1].exp = source.handles[d].header.exp

\* Parts a producer of this code frames, an image of each detector among them.
Honest(parts, bytes, start) ==
    /\ \A i \in DOMAIN parts : HonestPart(parts[i], bytes, start)
    /\ \A d \in Dets : \E i \in DOMAIN parts : parts[i].name = PartName(d, IMG_SUFFIX)

\* Where the payload of a body begins.
StartOf(b) == HEADER_SIZE + DescriptorRegionSize(b.desc)

\* Behind the framing of a body are bytes of this job.
Framed(b) ==
    /\ b = [magic |-> b.magic, desc |-> b.desc, payload |-> b.payload, bytes |-> b.bytes]
    /\ b.desc \in Seq(Descriptors)
    /\ b.payload \in Nat
    /\ IsSeq(b.bytes)
    /\ \A j \in 1..Len(b.bytes) : j > StartOf(b) => b.bytes[j].job = job

\* The body on the wire is framed by this job, as this code frames it unless it
\* was mangled.
BodyInv ==
    pc = "send" =>
        /\ Framed(body)
        /\ ~mangled => Honest(body.desc, body.bytes, StartOf(body))

\* The coordinator's block keeps its size.
ShmInv == Len(shm) = SHM_SIZE /\ IsSeq(shm)

\* An accepted layout names bytes of this job, as they were framed unless the
\* body was mangled.
LayoutInv ==
    pc = "decode" =>
        /\ layout \in Seq(Descriptors)
        /\ \A i \in DOMAIN layout :
              \A k \in 1..layout[i].size : shm[layout[i].offset + k].job = job
        /\ ~mangled => Honest(layout, shm, 0)

\* Nothing is given to a task before its bytes are in; what is given is of this
\* job, and of the detector it is given for, of one exposure with its header.
GivenInv ==
    /\ pc \notin {"run", "running"} => given = <<>>
    /\ \A d \in DOMAIN given :
          /\ given[d].meta.job = job
          /\ \A k \in DOMAIN given[d].img : given[d].img[k].job = job
    /\ pc \in {"run", "running"} /\ ~touched /\ ~mangled =>
          /\ DOMAIN given = Dets
          /\ \A d \in Dets :
                /\ given[d].meta.det = d
                /\ given[d].meta.exp = source.handles[d].header.exp
                /\ \A k \in DOMAIN given[d].img : PixelOf(given[d].img[k], d)

\* A job runs on what the prepare was for.
RunInv ==
    pc = "running" =>
        \A d \in DOMAIN given : /\ FilterOf[given[d].meta.exp] = prepared.physical_filter
                                /\ ShardsOf[given[d].meta.exp] \subseteq prepared.shards

\* The inductive invariant of the bytes, along their way from a directory to a
\* task.
BytesInv ==
    /\ DirInv
    /\ HeadersInv
    /\ SourceInv
    /\ SegmentBytesInv
    /\ BodyInv
    /\ ShmInv
    /\ LayoutInv
    /\ GivenInv
    /\ RunInv

-----------------------------------------------------------------------------
(* Headers, directories and slots.                                         *)

\* A header of the replay tree is of its detector and of the exposure it was
\* looked up under.
LEMMA ReplayFacts ==
    ASSUME NEW e, ReplayHeaders(e) # Raised
    PROVE  /\ e \in Exposures
           /\ \A d \in DOMAIN ReplayHeaders(e) :
                 /\ d \in Dets /\ ReplayHeaders(e)[d] \in Header
                 /\ ReplayHeaders(e)[d].det = d /\ ReplayHeaders(e)[d].exp = e
<1>1. /\ e \in DOMAIN ReplayTree
      /\ ReplayHeaders(e) = [d \in ToSet(ReplayTree[e]) |-> [det |-> d, exp |-> e, emuimage |-> None]]
  BY DEF ReplayHeaders
<1>2. e \in Exposures /\ ReplayTree[e] \in Seq(Dets)
  BY <1>1, ExposureDirAssumption
<1>3. ToSet(ReplayTree[e]) \subseteq Dets
  BY <1>2 DEF ToSet
<1> QED BY <1>1, <1>2, <1>3 DEF Header

\* So are the substitutes a directory gets, from whichever exposure they are.
LEMMA SubstituteFacts ==
    ASSUME NEW m, NEW D, NEW h, h = SubstitutedHeaders(m, D), h # Raised, h # None
    PROVE  \A d \in DOMAIN h : h[d] \in Header /\ h[d].det = d
<1>1. PICK e : h = ReplayHeaders(e)
  BY DEF SubstitutedHeaders
<1> QED BY <1>1, ReplayFacts

\* What a file says it shows; a header is typed.
LEMMA ReadFacts ==
    ASSUME NEW f \in Files
    PROVE  ReadHeader(f) \in Header /\ ReadHeader(f).det = f.det
BY DEF ReadHeader, Files, Header

\* With one marker on all live headers, every file is a replay of what it names.
LEMMA EmuimageFacts ==
    ASSUME DirInv, ReadLiveHeaders(dir) # Raised, ReadEmuimage(ReadLiveHeaders(dir)) # Raised
    PROVE  \A p \in DOMAIN dir : dir[p].exp = ReadEmuimage(ReadLiveHeaders(dir))
<1> DEFINE dets == {dir[p].det : p \in DOMAIN dir}
           live == ReadLiveHeaders(dir)
           values == {live[d].emuimage : d \in DOMAIN live}
           mark == [d \in dets |-> live[d].emuimage]
<1>1. \A p \in DOMAIN dir : /\ dir[p] \in Files
                            /\ ReadHeader(dir[p]).det = dir[p].det
                            /\ ReadHeader(dir[p]).emuimage = IF dir[p].emulated THEN dir[p].exp ELSE None
  BY DEF DirInv, ReadHeader, Files
<1>2. /\ DOMAIN live = dets
      /\ \A p \in DOMAIN dir : live[dir[p].det] = ReadHeader(dir[p])
  <2> DEFINE each == [p \in DOMAIN dir |-> ReadHeader(dir[p])]
  <2>1. \A p \in DOMAIN dir : each[p].det = dir[p].det
    BY <1>1
  <2>2. /\ \A p, q \in DOMAIN dir : p # q => each[p].det # each[q].det
        /\ live = [d \in {each[p].det : p \in DOMAIN dir} |->
                      each[CHOOSE p \in DOMAIN dir : each[p].det = d]]
    BY DEF ReadLiveHeaders
  <2>3. {each[p].det : p \in DOMAIN dir} = dets
    BY <2>1
  <2>4. ASSUME NEW p \in DOMAIN dir PROVE live[dir[p].det] = each[p]
    <3>1. (CHOOSE q \in DOMAIN dir : each[q].det = dir[p].det) = p
      BY <2>1, <2>2
    <3>2. dir[p].det \in {each[q].det : q \in DOMAIN dir}
      BY <2>3
    <3> HIDE DEF each
    <3> QED BY <2>2, <3>1, <3>2
  <2>5. DOMAIN live = dets
    BY <2>2, <2>3
  <2> QED BY <2>4, <2>5
<1> HIDE DEF live
<1>3. None \notin values /\ Cardinality(values) = 1 /\ ReadEmuimage(live) \in values
  <2>1. None \notin values /\ Cardinality(values) = 1
    BY DEF ReadEmuimage, live
  <2>2. ReadEmuimage(live) = CHOOSE e \in values : TRUE
    BY <2>1 DEF ReadEmuimage
  <2>3. values # {}
    BY <2>1, FS_EmptySet
  <2> QED BY <2>1, <2>2, <2>3
<1>4. \E x : values = {x}
  <2>1. dets \subseteq Dets
    BY <1>1 DEF Files
  <2>2. IsFiniteSet(dets)
    BY <2>1, ExposureDirAssumption, FS_Subset
  <2>3. mark \in Surjection(dets, values)
    BY <1>2 DEF Surjection
  <2> HIDE DEF dets, mark, values
  <2>4. IsFiniteSet(values)
    BY <2>2, <2>3, FS_Surjection
  <2> QED BY <1>3, <2>4, FS_Singleton
<1>5. ASSUME NEW p \in DOMAIN dir PROVE dir[p].exp = ReadEmuimage(live)
  <2>1. ReadHeader(dir[p]).emuimage \in values
    BY <1>2
  <2>2. ReadHeader(dir[p]).emuimage = ReadEmuimage(live) /\ ReadHeader(dir[p]).emuimage # None
    BY <1>3, <1>4, <2>1
  <2> QED BY <1>1, <2>2
<1> QED BY <1>5 DEF live

\* What resolve_exposure_dir makes of a directory and of the headers in hand.
LEMMA ResolveFacts ==
    ASSUME DirInv, HeadersInv, pc = "resolve", ResolveExposureDir(dir, headers) # Raised
    PROVE  LET handles == ResolveExposureDir(dir, headers).handles
           IN  /\ DOMAIN handles = Dets /\ Dets # {}
               /\ \A d \in Dets :
                     /\ handles[d].header \in Header
                     /\ handles[d].header.det = d
                     /\ handles[d].path \in DOMAIN dir
                     /\ dir[handles[d].path].det = d
                     /\ \/ touched
                        \/ dir[handles[d].path].exp = handles[d].header.exp
                        \/ mode = "pinned"
                        \/ mode = "off" /\ dir[handles[d].path].emulated
<1> DEFINE used == [p \in DOMAIN dir |-> HeaderFor(dir[p], headers)]
           detectors == {dir[p].det : p \in DOMAIN dir}
           Paths(d) == {p \in DOMAIN dir : dir[p].det = d}
           handles == ResolveExposureDir(dir, headers).handles
<1>1. /\ DOMAIN dir # {}
      /\ \A p \in DOMAIN dir : used[p] # Raised
      /\ Cardinality(detectors) = Cardinality(Dets)
      /\ handles = [d \in detectors |-> [path |-> Max(Paths(d)), det |-> d,
                                         header |-> used[Max(Paths(d))]]]
  BY DEF ResolveExposureDir
<1>2. detectors = Dets
  <2>1. detectors \in SUBSET Dets
    BY DEF DirInv, Files
  <2> HIDE DEF detectors
  <2> QED BY <1>1, <2>1, ExposureDirAssumption, FS_Subset
<1> HIDE DEF handles
<1>3. ASSUME NEW d \in Dets PROVE Max(Paths(d)) \in DOMAIN dir /\ dir[Max(Paths(d))].det = d
  <2>1. Paths(d) \in SUBSET Nat /\ Paths(d) # {} /\ Paths(d) \in SUBSET DOMAIN dir
    BY <1>2 DEF DirInv
  <2>2. IsFiniteSet(Paths(d))
    <3> HIDE DEF Paths
    <3> QED BY <2>1, FS_Subset DEF DirInv
  <2>3. Max(Paths(d)) \in Paths(d)
    <3> HIDE DEF Paths
    <3> QED BY <2>1, <2>2, MaxFacts
  <2> QED BY <2>3
<1>4. ASSUME NEW p \in DOMAIN dir
      PROVE  /\ used[p] \in Header /\ used[p].det = dir[p].det
             /\ \/ touched
                \/ dir[p].exp = used[p].exp
                \/ mode = "pinned"
                \/ mode = "off" /\ dir[p].emulated
  <2>1. /\ dir[p] \in Files /\ ReadHeader(dir[p]) \in Header
        /\ ReadHeader(dir[p]).det = dir[p].det
    BY ReadFacts DEF DirInv
  <2>2. used[p] = HeaderFor(dir[p], headers) /\ used[p] # Raised
    BY <1>1
  <2> HIDE DEF used
  <2>3. CASE headers = None
    <3>1. used[p] = ReadHeader(dir[p])
      BY <2>2, <2>3 DEF HeaderFor
    <3>2. dir[p].emulated \/ dir[p].exp = used[p].exp
      BY <2>1, <3>1 DEF ReadHeader
    <3>3. ASSUME ~touched, mode # "pinned" PROVE mode = "off"
      <4> SUFFICES ASSUME mode # "off" PROVE FALSE
        OBVIOUS
      <4>1. SubstitutedHeaders(mode, dir) = None /\ None # Raised
        BY <2>3, <3>3 DEF HeadersInv
      <4>2. PICK e : ReplayHeaders(e) = None
        BY <4>1 DEF SubstitutedHeaders
      <4>3. e \in Exposures
        BY <4>1, <4>2, ReplayFacts
      <4> QED BY <4>2, <4>3, NoneAssumption
    <3> QED BY <2>1, <3>1, <3>2, <3>3
  <2>4. CASE headers # None
    <3>1. /\ dir[p].det \in DOMAIN headers /\ used[p] = headers[dir[p].det]
          /\ used[p] \in Header /\ used[p].det = dir[p].det
      BY <2>1, <2>2, <2>4 DEF HeaderFor, HeadersInv
    <3>2. ASSUME ~touched, mode # "pinned" PROVE dir[p].exp = used[p].exp
      <4> DEFINE live == ReadLiveHeaders(dir)
                 e == ReadEmuimage(live)
      <4>1. headers = SubstitutedHeaders(mode, dir) /\ mode # "off"
        BY <2>4, <3>2 DEF HeadersInv, SubstitutedHeaders
      <4>2. headers # Raised
        BY DEF HeadersInv
      <4>3. live # Raised /\ e # Raised /\ headers = ReplayHeaders(e)
        BY <3>2, <4>1, <4>2 DEF SubstitutedHeaders
      <4> HIDE DEF live
      <4>4. dir[p].exp = e
        BY <4>3, EmuimageFacts DEF live
      <4>5. used[p].exp = e
        BY <3>1, <4>2, <4>3, ReplayFacts
      <4> QED BY <4>4, <4>5
    <3> QED BY <3>1, <3>2
  <2> QED BY <2>3, <2>4
<1>5. \A d \in Dets : handles[d].path = Max(Paths(d)) /\ handles[d].header = used[Max(Paths(d))]
  BY <1>1, <1>2
<1>6. DOMAIN handles = Dets /\ Dets # {}
  BY <1>1, <1>2
<1> HIDE DEF used, Paths
<1> QED BY <1>3, <1>4, <1>5, <1>6 DEF handles

\* The slots follow the framing, in the order of the detectors, and none
\* overlaps the next or the end.
LEMMA SlotFacts ==
    ASSUME DOMAIN source.handles = Dets
    PROVE  /\ Cardinality(Dets) \in Nat /\ ImagesAt \in Nat /\ ImgSize * Cardinality(Dets) \in Nat
           /\ \A d \in Dets :
                 /\ Rank(Dets, d) \in 0..(Cardinality(Dets) - 1)
                 /\ SlotAt(d) = ImagesAt + ImgSize * Rank(Dets, d)
                 /\ SlotAt(d) \in Nat
                 /\ SlotAt(d) + ImgSize <= ImagesAt + ImgSize * Cardinality(Dets)
           /\ \A d, e \in Dets : d < e => SlotAt(d) + ImgSize <= SlotAt(e)
<1> DEFINE n == Cardinality(Dets)
<1>1. /\ n \in Nat /\ Dets \in SUBSET Nat /\ IsFiniteSet(Dets) /\ ImgSize \in Nat
      /\ \A d \in Dets : Rank(Dets, d) \in 0..(n - 1)
      /\ \A d, e \in Dets : d < e => Rank(Dets, d) < Rank(Dets, e)
  BY ExposureDirAssumption, DataPathAssumption, RankFacts
<1>2. ImagesAt \in Nat
  <2>1. \A x, y \in Nat : x * 2 * y \in Nat
    OBVIOUS
  <2>2. DESC_SIZE * 2 * n \in Nat
    BY <1>1, <2>1, WireFormatAssumption
  <2> QED BY <2>2, WireFormatAssumption DEF ImagesAt
<1>3. ImgSize * n \in Nat
  <2>1. \A x, y \in Nat : x * y \in Nat
    OBVIOUS
  <2> HIDE DEF n
  <2> QED BY <1>1, <2>1
<1>4. \A d \in Dets : SlotAt(d) = ImagesAt + ImgSize * Rank(Dets, d)
  BY DEF SlotAt, Rank
<1> HIDE DEF n
<1>5. ASSUME NEW d \in Dets
      PROVE  SlotAt(d) \in Nat /\ SlotAt(d) + ImgSize <= ImagesAt + ImgSize * n
  <2>1. Rank(Dets, d) \in Nat /\ Rank(Dets, d) < n
    BY <1>1
  <2>2. ImgSize * Rank(Dets, d) \in Nat /\ ImgSize * Rank(Dets, d) + ImgSize <= ImgSize * n
    BY <1>1, <2>1, SlotEnds
  <2>3. \A i, x, y, z \in Nat : x + y <= z => i + x \in Nat /\ (i + x) + y <= i + z
    OBVIOUS
  <2> QED BY <1>1, <1>2, <1>3, <1>4, <2>2, <2>3
<1>6. ASSUME NEW d \in Dets, NEW e \in Dets, d < e PROVE SlotAt(d) + ImgSize <= SlotAt(e)
  <2>1. Rank(Dets, d) \in Nat /\ Rank(Dets, e) \in Nat /\ Rank(Dets, d) < Rank(Dets, e)
    BY <1>1, <1>6
  <2>2. /\ ImgSize * Rank(Dets, d) \in Nat /\ ImgSize * Rank(Dets, e) \in Nat
        /\ ImgSize * Rank(Dets, d) + ImgSize <= ImgSize * Rank(Dets, e)
    BY <1>1, <2>1, SlotEnds
  <2>3. \A i, x, y, z \in Nat : x + y <= z => (i + x) + y <= i + z
    OBVIOUS
  <2> QED BY <1>1, <1>2, <1>4, <2>2, <2>3
<1> QED BY <1>1, <1>2, <1>3, <1>4, <1>5, <1>6 DEF n

\* The detectors in order: each of them, at the place its rank says.
LEMMA DetSeqFacts ==
    ASSUME SourceInv, pc \in Resolved
    PROVE  /\ Cardinality(Dets) \in Nat \ {0}
           /\ DetSeq(source) \in Seq(Dets) /\ Len(DetSeq(source)) = Cardinality(Dets)
           /\ DOMAIN DetSeq(source) = 1..Cardinality(Dets)
           /\ \A i \in 1..Cardinality(Dets) : /\ DetSeq(source)[i] \in Dets
                                              /\ Rank(Dets, DetSeq(source)[i]) = i - 1
           /\ \A d \in Dets : \E i \in 1..Cardinality(Dets) : DetSeq(source)[i] = d
<1> DEFINE n == Cardinality(Dets)
           q == InOrder(Dets)
<1>1. IsFiniteSet(Dets) /\ Dets \in SUBSET Nat /\ Dets # {} /\ DOMAIN source.handles = Dets
  BY ExposureDirAssumption DEF SourceInv
<1>2. n \in Nat \ {0}
  BY <1>1, FS_CardinalityType, FS_EmptySet
<1>3. DetSeq(source) = q
  BY <1>1 DEF DetSeq, InOrder
<1>4. /\ q \in [1..n -> Dets]
      /\ \A i \in 1..n : Rank(Dets, q[i]) = i - 1
      /\ \A d \in Dets : d = q[Rank(Dets, d) + 1]
  BY <1>1, OrderFacts
<1>5. \A d \in Dets : Rank(Dets, d) \in 0..(n - 1)
  BY <1>1, RankFacts
<1> HIDE DEF n, q
<1>6. q \in Seq(Dets) /\ Len(q) = n
  <2>1. q = [i \in 1..n |-> q[i]]
    BY <1>4
  <2>2. Len(q) = n
    BY <1>2, <2>1, FunctionIsSeq
  <2> QED BY <1>2, <1>4, <2>2, SeqDef
<1>7. \A d \in Dets : \E i \in 1..n : q[i] = d
  <2> SUFFICES ASSUME NEW d \in Dets PROVE \E i \in 1..n : q[i] = d
    OBVIOUS
  <2>1. Rank(Dets, d) + 1 \in 1..n
    BY <1>2, <1>5
  <2> QED BY <1>4, <2>1
<1> QED BY <1>2, <1>3, <1>4, <1>6, <1>7 DEF n

\* A detector's two parts are of this job: the pixels of its file, and a header
\* that is not empty and names the detector and its exposure.
LEMMA PartFacts ==
    ASSUME SourceInv, pc \in Resolved, NEW d \in Dets
    PROVE  /\ IsSeq(ImgBytes(d)) /\ Len(ImgBytes(d)) = ImgSize /\ ImgSize \in Nat
           /\ \A k \in 1..ImgSize : PixelOf(ImgBytes(d)[k], d)
           /\ IsSeq(MetaBytes(d))
           /\ Len(MetaBytes(d)) = MetaSize[source.handles[d].header.exp]
           /\ Len(MetaBytes(d)) \in Nat /\ Len(MetaBytes(d)) > 0
           /\ \A k \in 1..Len(MetaBytes(d)) : MetaBytes(d)[k].job = job
           /\ MetaBytes(d)[1].det = d
           /\ MetaBytes(d)[1].exp = source.handles[d].header.exp
<1> DEFINE h == source.handles[d].header
           m == MetaSize[h.exp]
           img == ImgBytes(d)
           meta == MetaBytes(d)
<1>1. FileOf(d).det = d /\ h \in Header /\ h.det = d
  BY DEF SourceInv
<1>2. ImgSize \in Nat /\ m \in Nat \ {0}
  BY <1>1, DataPathAssumption DEF Header
<1>3. img = [k \in 1..ImgSize |->
                [kind |-> "img", job |-> job, det |-> FileOf(d).det, exp |-> FileOf(d).exp]]
  BY DEF ImgBytes, FileOf
<1>4. meta = [k \in 1..m |-> [kind |-> "meta", job |-> job, det |-> h.det, exp |-> h.exp, k |-> k]]
  BY DEF MetaBytes
<1> HIDE DEF h, m, img, meta
<1>5. IsSeq(img) /\ Len(img) = ImgSize
  <2>1. img = [k \in 1..ImgSize |-> img[k]]
    BY <1>3
  <2> QED BY <1>2, <2>1, FunctionIsSeq
<1>6. IsSeq(meta) /\ Len(meta) = m
  <2>1. meta = [k \in 1..m |-> meta[k]]
    BY <1>4
  <2> QED BY <1>2, <2>1, FunctionIsSeq
<1>7. \A k \in 1..ImgSize : PixelOf(img[k], d)
  BY <1>1, <1>3 DEF PixelOf
<1>8. /\ \A k \in 1..m : meta[k].job = job
      /\ meta[1].det = d /\ meta[1].exp = h.exp
  BY <1>1, <1>2, <1>4
<1> QED BY <1>2, <1>5, <1>6, <1>7, <1>8 DEF h, m, img, meta

\* The bytes the workers and the serial encoder make in this job.
JobBytes ==
    {ImgBytes(d)[k] : d \in Dets, k \in 1..ImgSize}
    \cup UNION {{MetaBytes(d)[k] : k \in 1..Len(MetaBytes(d))} : d \in Dets}

\* The names of parts there are.
Tags == Dets \X {IMG_SUFFIX, META_SUFFIX}

\* They are of this job, and every part is made of them.
LEMMA JobBytesFacts ==
    ASSUME SourceInv, pc \in Resolved
    PROVE  /\ \A b \in JobBytes : b.job = job
           /\ \A d \in Dets : ImgBytes(d) \in Seq(JobBytes) /\ MetaBytes(d) \in Seq(JobBytes)
<1>1. \A d \in Dets : /\ IsSeq(ImgBytes(d)) /\ Len(ImgBytes(d)) = ImgSize
                      /\ \A k \in 1..ImgSize : PixelOf(ImgBytes(d)[k], d)
                      /\ IsSeq(MetaBytes(d))
                      /\ \A k \in 1..Len(MetaBytes(d)) : MetaBytes(d)[k].job = job
  BY PartFacts
<1>2. \A b \in JobBytes : b.job = job
  BY <1>1 DEF JobBytes, PixelOf
<1>3. ASSUME NEW d \in Dets PROVE ImgBytes(d) \in Seq(JobBytes) /\ MetaBytes(d) \in Seq(JobBytes)
  <2>1. ImgBytes(d) \in Seq({ImgBytes(d)[k] : k \in 1..ImgSize})
    BY <1>1, SequenceOfAny
  <2>2. MetaBytes(d) \in Seq({MetaBytes(d)[k] : k \in 1..Len(MetaBytes(d))})
    BY <1>1, SequenceOfAny
  <2>3. {ImgBytes(d)[k] : k \in 1..ImgSize} \subseteq JobBytes
    BY DEF JobBytes
  <2>4. {MetaBytes(d)[k] : k \in 1..Len(MetaBytes(d))} \subseteq JobBytes
    <3> DEFINE M(e) == {MetaBytes(e)[k] : k \in 1..Len(MetaBytes(e))}
    <3>1. UNION {M(e) : e \in Dets} \subseteq JobBytes
      BY DEF JobBytes
    <3>2. M(d) \subseteq UNION {M(e) : e \in Dets}
      <4> HIDE DEF M
      <4> QED OBVIOUS
    <3> QED BY <3>1, <3>2
  <2> QED BY <2>1, <2>2, <2>3, <2>4, SeqMonotonic
<1> QED BY <1>2, <1>3

-----------------------------------------------------------------------------
(* Bodies and what they are packed from.                                   *)

\* What stands behind a framing is found at its own place, moved by the
\* framing's length.
LEMMA FramedBytes ==
    ASSUME NEW start \in Nat, NEW S, NEW rest \in Seq(S)
    PROVE  /\ IsSeq(Framing(start) \o rest)
           /\ Len(Framing(start) \o rest) = start + Len(rest)
           /\ \A r \in 1..Len(rest) : (Framing(start) \o rest)[start + r] = rest[r]
           /\ \A j \in 1..(start + Len(rest)) :
                 j > start => j - start \in 1..Len(rest) /\ (Framing(start) \o rest)[j] = rest[j - start]
<1> DEFINE T == S \cup {[kind |-> "framing", job |-> 0]}
           f == Framing(start)
           n == Len(rest)
<1>1. f \in Seq(T) /\ Len(f) = start
  <2>1. f = [i \in 1..start |-> f[i]]
    BY DEF Framing
  <2>2. Len(f) = start
    BY <2>1, FunctionIsSeq
  <2>3. f \in [1..start -> T]
    BY DEF Framing
  <2> QED BY <2>2, <2>3, SeqDef
<1>2. rest \in Seq(T) /\ n \in Nat
  BY SeqMonotonic, LenProperties
<1> HIDE DEF T, f, n
<1>3. /\ f \o rest \in Seq(T) /\ Len(f \o rest) = start + n
      /\ \A i \in 1..(start + n) : (f \o rest)[i] = IF i <= start THEN f[i] ELSE rest[i - start]
  BY <1>1, <1>2, ConcatProperties DEF n
<1>4. IsSeq(f \o rest)
  <2>1. f \o rest \in [1..Len(f \o rest) -> T] /\ Len(f \o rest) \in Nat
    BY <1>3, LenProperties
  <2> QED BY <2>1 DEF IsSeq
<1>5. \A j \in 1..(start + n) : j > start => j - start \in 1..n /\ (f \o rest)[j] = rest[j - start]
  <2> SUFFICES ASSUME NEW j \in 1..(start + n), j > start
               PROVE  j - start \in 1..n /\ (f \o rest)[j] = rest[j - start]
    OBVIOUS
  <2>1. j - start \in 1..n /\ ~(j <= start)
    BY <1>2
  <2> QED BY <1>3, <2>1
<1>6. \A r \in 1..n : (f \o rest)[start + r] = rest[r]
  <2> SUFFICES ASSUME NEW r \in 1..n PROVE (f \o rest)[start + r] = rest[r]
    OBVIOUS
  <2>1. start + r \in 1..(start + n) /\ ~(start + r <= start) /\ (start + r) - start = r
    BY <1>2
  <2> QED BY <1>3, <2>1
<1> QED BY <1>3, <1>4, <1>5, <1>6 DEF f, n

\* Each part is in b where its descriptor says, behind the framing.
Packed(b, names, parts, S) ==
    /\ Len(b.desc) = Len(names) /\ DOMAIN b.desc = 1..Len(names)
    /\ StartOf(b) = HEADER_SIZE + DescriptorRegionSize(names) /\ StartOf(b) \in Nat
    /\ \A i \in 1..Len(names) :
          /\ b.desc[i] = [name |-> names[i], offset |-> Cumulative(Sizes(parts))[i-1],
                          size |-> Len(parts[i])]
          /\ b.desc[i].offset \in Nat /\ b.desc[i].size \in Nat
          /\ b.desc[i].offset + b.desc[i].size <= b.payload
          /\ \A k \in 1..Len(parts[i]) :
                b.bytes[StartOf(b) + b.desc[i].offset + k] = parts[i][k]
    /\ b.payload \in Nat
    /\ IsSeq(b.bytes) /\ Len(b.bytes) = StartOf(b) + b.payload
    /\ \A j \in 1..Len(b.bytes) : j > StartOf(b) => b.bytes[j] \in S

\* That is how a packed blob is laid out (PackBlob).
LEMMA PackedFacts ==
    ASSUME NEW S, NEW T, NEW names \in Seq(T), NEW parts \in Seq(Seq(S)), Len(parts) = Len(names),
           NEW b, b = PackBlob(names, parts)
    PROVE  Packed(b, names, parts, S)
<1> DEFINE n == Len(names)
           sizes == Sizes(parts)
           c == Cumulative(sizes)
           start == HEADER_SIZE + DescriptorRegionSize(names)
           rest == FlattenSeq(parts)
           desc == [i \in 1..n |-> [name |-> names[i], offset |-> c[i-1], size |-> sizes[i]]]
<1>1. /\ n \in Nat /\ DOMAIN names = 1..n /\ DOMAIN parts = 1..n
      /\ \A i \in 1..n : Len(parts[i]) \in Nat /\ sizes[i] = Len(parts[i])
  BY LenProperties DEF Sizes
<1>2. /\ sizes \in Seq(Nat) /\ Len(sizes) = n
      /\ rest \in Seq(S) /\ Len(rest) = c[n]
      /\ \A i \in 1..n : \A k \in 1..Len(parts[i]) : rest[c[i-1] + k] = parts[i][k]
  BY FlattenFacts
<1>3. /\ c \in [0..n -> Nat] /\ \A i \in 1..n : c[i] = c[i-1] + sizes[i]
      /\ \A i \in 0..n : c[i] <= c[n]
  <2>1. c \in [0..n -> Nat] /\ \A i \in 1..n : c[i] = c[i-1] + sizes[i]
    BY <1>2, CumulativeFacts
  <2>2. \A i \in 0..n : i <= n /\ n \in 0..n
    BY <1>1
  <2>3. \A i \in 0..n : c[i] <= c[n]
    BY <1>2, <2>2, CumulativeMonotone
  <2> QED BY <2>1, <2>3
<1>4. start \in Nat
  <2>1. \A x, y \in Nat : x * y \in Nat
    OBVIOUS
  <2> HIDE DEF n
  <2>2. DESC_SIZE * n \in Nat /\ HEADER_SIZE \in Nat
    BY <1>1, <2>1, WireFormatAssumption
  <2>3. DescriptorRegionSize(names) = DESC_SIZE * n
    BY DEF DescriptorRegionSize, n
  <2> QED BY <2>2, <2>3
<1>5. b.desc = desc /\ b.payload = c[n] /\ b.bytes = Framing(start) \o rest
  <2>1. sizes = [i \in DOMAIN names |-> Len(parts[i])]
    BY <1>1 DEF Sizes
  <2> QED BY <1>1, <1>2, <2>1 DEF PackBlob
<1>6. Len(desc) = n /\ DOMAIN desc = 1..n
  <2>1. desc = [i \in 1..n |-> desc[i]]
    OBVIOUS
  <2> HIDE DEF desc
  <2> QED BY <1>1, <2>1, FunctionIsSeq
<1>7. StartOf(b) = start
  BY <1>5, <1>6 DEF StartOf, DescriptorRegionSize
<1>8. \A i \in 1..n : desc[i] = [name |-> names[i], offset |-> c[i-1], size |-> Len(parts[i])]
  BY <1>1
<1> HIDE DEF n, sizes, c, start, rest, desc
<1>9. /\ IsSeq(b.bytes) /\ Len(b.bytes) = start + c[n]
      /\ \A r \in 1..c[n] : b.bytes[start + r] = rest[r]
      /\ \A j \in 1..(start + c[n]) : j > start => j - start \in 1..c[n] /\ b.bytes[j] = rest[j - start]
  <2>1. rest \in Seq(S)
    BY <1>2
  <2>2. /\ IsSeq(Framing(start) \o rest)
        /\ Len(Framing(start) \o rest) = start + Len(rest)
        /\ \A r \in 1..Len(rest) : (Framing(start) \o rest)[start + r] = rest[r]
        /\ \A j \in 1..(start + Len(rest)) :
              j > start => j - start \in 1..Len(rest) /\ (Framing(start) \o rest)[j] = rest[j - start]
    BY <1>4, <2>1, FramedBytes
  <2> QED BY <1>2, <1>5, <2>2
<1>10. ASSUME NEW i \in 1..n
       PROVE  /\ c[i-1] \in Nat /\ c[i-1] + Len(parts[i]) <= c[n]
              /\ \A k \in 1..Len(parts[i]) : b.bytes[start + c[i-1] + k] = parts[i][k]
  <2>1. i - 1 \in 0..n /\ i \in 0..n /\ n \in 0..n
    BY <1>1
  <2>2. c[i-1] \in Nat /\ c[n] \in Nat /\ c[i-1] + Len(parts[i]) <= c[n]
    BY <1>1, <1>3, <2>1
  <2>3. ASSUME NEW k \in 1..Len(parts[i]) PROVE b.bytes[start + c[i-1] + k] = parts[i][k]
    <3>1. c[i-1] + k \in 1..c[n] /\ start + (c[i-1] + k) = (start + c[i-1]) + k
      <4>1. \A s, x, y, z \in Nat : \A j \in 1..y :
               x + y <= z => x + j \in 1..z /\ s + (x + j) = (s + x) + j
        OBVIOUS
      <4> QED BY <1>1, <1>4, <2>2, <4>1
    <3> QED BY <1>2, <1>9, <3>1
  <2> QED BY <2>2, <2>3
<1>11. c[n] \in Nat
  BY <1>1, <1>3
<1>12. \A j \in 1..Len(b.bytes) : j > start => b.bytes[j] \in S
  <2> SUFFICES ASSUME NEW j \in 1..(start + c[n]), j > start PROVE b.bytes[j] \in S
    BY <1>9
  <2>1. j - start \in 1..Len(rest) /\ b.bytes[j] = rest[j - start]
    BY <1>2, <1>9
  <2> QED BY <1>2, <2>1, ElementOfSeq
<1>13. n = Len(names) /\ start = HEADER_SIZE + DescriptorRegionSize(names) /\ c = Cumulative(Sizes(parts))
  BY DEF n, start, c, sizes
<1>14. ASSUME NEW i \in 1..Len(names)
       PROVE  /\ b.desc[i] = [name |-> names[i], offset |-> Cumulative(Sizes(parts))[i-1],
                              size |-> Len(parts[i])]
              /\ b.desc[i].offset \in Nat /\ b.desc[i].size \in Nat
              /\ b.desc[i].offset + b.desc[i].size <= b.payload
              /\ \A k \in 1..Len(parts[i]) :
                    b.bytes[StartOf(b) + b.desc[i].offset + k] = parts[i][k]
  <2>1. b.desc[i] = [name |-> names[i], offset |-> c[i-1], size |-> Len(parts[i])]
    BY <1>5, <1>8, <1>13
  <2>2. b.desc[i].offset = c[i-1] /\ b.desc[i].size = Len(parts[i])
    BY <2>1
  <2> QED BY <1>1, <1>5, <1>7, <1>10, <1>13, <2>1, <2>2
<1>15. /\ Len(b.desc) = Len(names) /\ DOMAIN b.desc = 1..Len(names)
       /\ StartOf(b) = HEADER_SIZE + DescriptorRegionSize(names) /\ StartOf(b) \in Nat
  BY <1>4, <1>5, <1>6, <1>7, <1>13
<1>16. /\ b.payload \in Nat
       /\ IsSeq(b.bytes) /\ Len(b.bytes) = StartOf(b) + b.payload
       /\ \A j \in 1..Len(b.bytes) : j > StartOf(b) => b.bytes[j] \in S
  BY <1>5, <1>7, <1>9, <1>11, <1>12
<1> QED BY <1>14, <1>15, <1>16, Zenon DEF Packed

\* A framing of parts back to back has a descriptor of each, and a payload that
\* is a number (BuildFraming).
LEMMA FramingFacts ==
    ASSUME NEW T, NEW names \in Seq(T), NEW sizes \in Seq(Nat), Len(names) = Len(sizes), Len(sizes) # 0,
           NEW offsets, \A i \in 1..Len(sizes) : offsets[i] = Cumulative(sizes)[i-1],
           NEW f, f = BuildFraming(names, sizes, offsets)
    PROVE  /\ Len(f.desc) = Len(sizes) /\ DOMAIN f.desc = 1..Len(sizes) /\ Len(sizes) \in Nat
           /\ IsSeq(f.desc)
           /\ \A i \in 1..Len(sizes) :
                 /\ f.desc[i] = [name |-> names[i], offset |-> Cumulative(sizes)[i-1], size |-> sizes[i]]
                 /\ names[i] \in T /\ Cumulative(sizes)[i-1] \in Nat /\ sizes[i] \in Nat
           /\ f.payload \in Nat
<1> DEFINE n == Len(sizes)
           c == Cumulative(sizes)
           ends == {offsets[i] + sizes[i] : i \in DOMAIN names}
           desc == [i \in DOMAIN names |-> [name |-> names[i], offset |-> offsets[i], size |-> sizes[i]]]
<1>1. /\ n \in Nat /\ DOMAIN sizes = 1..n /\ DOMAIN names = 1..n
      /\ \A i \in 1..n : sizes[i] \in Nat /\ names[i] \in T
  BY LenProperties, ElementOfSeq
<1>2. /\ c \in [0..n -> Nat] /\ \A i \in 1..n : c[i] = c[i-1] + sizes[i]
      /\ \A i \in 0..n : c[i] <= c[n]
  <2>1. c \in [0..n -> Nat] /\ \A i \in 1..n : c[i] = c[i-1] + sizes[i]
    BY CumulativeFacts
  <2>2. \A i \in 0..n : i <= n /\ n \in 0..n
    BY <1>1
  <2>3. \A i \in 0..n : c[i] <= c[n]
    BY <2>2, CumulativeMonotone
  <2> QED BY <2>1, <2>3
<1>3. f.desc = desc /\ f.payload = Max(ends)
  BY DEF BuildFraming
<1> HIDE DEF n, c
<1>4. \A i \in 1..n : c[i-1] \in Nat /\ c[i] \in Nat /\ offsets[i] + sizes[i] = c[i] /\ c[i] <= c[n]
  <2> SUFFICES ASSUME NEW i \in 1..n
               PROVE  c[i-1] \in Nat /\ c[i] \in Nat /\ offsets[i] + sizes[i] = c[i] /\ c[i] <= c[n]
    OBVIOUS
  <2>1. i - 1 \in 0..n /\ i \in 0..n
    BY <1>1
  <2>2. offsets[i] = c[i-1]
    BY DEF n, c
  <2> QED BY <1>1, <1>2, <2>1, <2>2
<1>5. Max(ends) \in Nat
  <2>1. ends \in SUBSET Nat /\ \A e \in ends : e <= c[n]
    BY <1>1, <1>4
  <2>2. c[n] \in Nat /\ 1 \in 1..n /\ offsets[1] + sizes[1] \in ends
    <3>1. n \in 0..n /\ 1 \in 1..n
      BY <1>1 DEF n
    <3> QED BY <1>1, <1>2, <3>1
  <2> HIDE DEF ends
  <2>3. IsFiniteSet(ends) /\ ends # {}
    BY <2>1, <2>2, FS_BoundedSetOfNaturals
  <2> QED BY <2>1, <2>3, MaxFacts
<1>6. Len(desc) = n /\ DOMAIN desc = 1..n /\ IsSeq(desc)
  <2>1. desc = [i \in 1..n |-> desc[i]]
    BY <1>1
  <2> HIDE DEF desc
  <2> QED BY <1>1, <2>1, FunctionIsSeq
<1>7. \A i \in 1..n : desc[i] = [name |-> names[i], offset |-> c[i-1], size |-> sizes[i]]
  <2>1. \A i \in 1..n : offsets[i] = c[i-1]
    BY DEF n, c
  <2> QED BY <1>1, <2>1
<1> HIDE DEF desc, ends
<1> QED BY <1>1, <1>3, <1>4, <1>5, <1>6, <1>7 DEF n, c

\* Once every worker is done, the picture region of a segment is the detectors'
\* pixels, in order.
LEMMA PictureFacts ==
    ASSUME BytesInv, pc = "forked", AllDone,
           NEW picture, picture = SubSeq(segment, ImagesAt + 1, ImagesAt + ImgSize * Cardinality(Dets))
    PROVE  /\ ImgSize * Cardinality(Dets) \in Nat
           /\ picture \in Seq({picture[r] : r \in 1..(ImgSize * Cardinality(Dets))})
           /\ Len(picture) = ImgSize * Cardinality(Dets)
           /\ \A i \in 1..Cardinality(Dets) : \A k \in 1..ImgSize :
                 /\ ImgSize * (i - 1) + k \in 1..(ImgSize * Cardinality(Dets))
                 /\ PixelOf(picture[ImgSize * (i - 1) + k], DetSeq(source)[i])
           /\ \A r \in 1..(ImgSize * Cardinality(Dets)) : picture[r].job = job
<1> DEFINE n == Cardinality(Dets)
           q == DetSeq(source)
           all == ImgSize * n
<1>1. SourceInv /\ pc \in Resolved /\ DOMAIN source.handles = Dets /\ SegmentBytesInv
  BY DEF BytesInv, SourceInv, Resolved
<1>2. /\ n \in Nat \ {0}
      /\ \A i \in 1..n : q[i] \in Dets /\ Rank(Dets, q[i]) = i - 1
  BY <1>1, DetSeqFacts
<1>3. /\ ImagesAt \in Nat /\ all \in Nat
      /\ \A d \in Dets : SlotAt(d) = ImagesAt + ImgSize * Rank(Dets, d)
  BY <1>1, SlotFacts
<1>4. \A d \in Dets : \A k \in 1..ImgSize : PixelOf(segment[SlotAt(d) + k], d)
  BY <1>1 DEF SegmentBytesInv, AllDone
<1>5. /\ Len(picture) = all /\ IsSeq(picture)
      /\ \A r \in 1..all : picture[r] = segment[ImagesAt + r]
  <2> DEFINE S == {segment[r] : r \in (ImagesAt + 1)..(ImagesAt + all)}
             from == ImagesAt + 1
             to == ImagesAt + all
  <2> HIDE DEF all, n
  <2>1. from \in Int /\ to \in Int /\ \A r \in from..to : segment[r] \in S
    BY <1>3
  <2>2. (IF from <= to THEN to - from + 1 ELSE 0) = all /\ to - from + 1 = all
    BY <1>3
  <2>3. \A r \in 1..all : from + r - 1 = ImagesAt + r
    BY <1>3
  <2>4. picture = SubSeq(segment, from, to)
    BY DEF all, n
  <2> HIDE DEF S, from, to
  <2>5. /\ picture \in Seq(S) /\ Len(picture) = (IF from <= to THEN to - from + 1 ELSE 0)
        /\ \A r \in 1..(to - from + 1) : picture[r] = segment[from + r - 1]
    <3>1. /\ SubSeq(segment, from, to) \in Seq(S)
          /\ Len(SubSeq(segment, from, to)) = IF from <= to THEN to - from + 1 ELSE 0
          /\ \A r \in 1..(to - from + 1) : SubSeq(segment, from, to)[r] = segment[from + r - 1]
      BY <2>1, SubSeqProperties
    <3> QED BY <2>4, <3>1
  <2>6. picture = [i \in 1..Len(picture) |-> picture[i]] /\ Len(picture) \in Nat
    BY <2>5, LenProperties
  <2> QED BY <2>2, <2>3, <2>5, <2>6 DEF IsSeq
<1>6. picture \in Seq({picture[r] : r \in 1..all})
  BY <1>5, SequenceOfAny
<1>7. ASSUME NEW i \in 1..n, NEW k \in 1..ImgSize
      PROVE  ImgSize * (i - 1) + k \in 1..all /\ PixelOf(picture[ImgSize * (i - 1) + k], q[i])
  <2> DEFINE x == ImgSize * (i - 1)
  <2>1. i - 1 \in Nat /\ i - 1 < n /\ ImgSize \in Nat
    BY <1>2, DataPathAssumption
  <2>2. x \in Nat /\ x + ImgSize <= all
    BY <1>2, <2>1, SlotEnds
  <2>3. SlotAt(q[i]) = ImagesAt + x
    BY <1>2, <1>3
  <2> HIDE DEF x, all, n, q
  <2>4. x + k \in 1..all /\ ImagesAt + (x + k) = (ImagesAt + x) + k
    BY <1>3, <2>1, <2>2
  <2>5. picture[x + k] = segment[SlotAt(q[i]) + k]
    BY <1>5, <2>3, <2>4
  <2> QED BY <1>2, <1>4, <2>4, <2>5 DEF x
<1>8. ASSUME NEW r \in 1..all PROVE picture[r].job = job
  <2>1. \E i \in 1..n : \E k \in 1..ImgSize : r = ImgSize * (i - 1) + k
    BY <1>2, SlotsCover, DataPathAssumption
  <2> QED BY <1>7, <2>1 DEF PixelOf
<1> QED BY <1>3, <1>5, <1>6, <1>7, <1>8

\* A body of this job stays one, with other descriptors, as many, or with other
\* bytes of the job behind its framing.
LEMMA FramedChange ==
    ASSUME NEW b, Framed(b), NEW c,
           c = [magic |-> c.magic, desc |-> c.desc, payload |-> c.payload, bytes |-> c.bytes],
           c.desc \in Seq(Descriptors), Len(c.desc) = Len(b.desc),
           c.payload \in Nat, IsSeq(c.bytes),
           \A j \in 1..Len(c.bytes) : j > StartOf(b) => c.bytes[j].job = job
    PROVE  Framed(c)
BY DEF Framed, StartOf, DescriptorRegionSize

\* A descriptor may be replaced by another.
LEMMA DescriptorChange ==
    ASSUME NEW desc \in Seq(Descriptors), NEW i \in DOMAIN desc, NEW x \in Descriptors
    PROVE  [desc EXCEPT ![i] = x] \in Seq(Descriptors) /\ Len([desc EXCEPT ![i] = x]) = Len(desc)
<1>1. Len(desc) \in Nat /\ DOMAIN desc = 1..Len(desc) /\ desc \in [1..Len(desc) -> Descriptors]
  BY LenProperties
<1> DEFINE e == [desc EXCEPT ![i] = x]
<1>2. e \in [1..Len(desc) -> Descriptors]
  BY <1>1
<1>3. e \in Seq(Descriptors)
  BY <1>1, <1>2, SeqDef
<1>4. e = [k \in 1..Len(desc) |-> e[k]]
  BY <1>2
<1> HIDE DEF e
<1>5. Len(e) = Len(desc)
  BY <1>1, <1>4, FunctionIsSeq
<1> QED BY <1>3, <1>5 DEF e

\* The block keeps its size, whatever is written to it, and holds the bytes that
\* were.
LEMMA WrittenFacts ==
    ASSUME ShmInv, NEW n, shm' = Written(n)
    PROVE  /\ ShmInv'
           /\ DOMAIN shm' = 1..SHM_SIZE
           /\ \A j \in 1..SHM_SIZE : shm'[j] = IF j <= n THEN body.bytes[j] ELSE shm[j]
<1>1. DOMAIN shm = 1..SHM_SIZE /\ SHM_SIZE \in Nat
  BY SequenceOfAny, DataPathAssumption DEF ShmInv
<1>2. shm' = [j \in 1..SHM_SIZE |-> IF j <= n THEN body.bytes[j] ELSE shm[j]]
  BY <1>1 DEF Written
<1>3. IsSeq(shm') /\ Len(shm') = SHM_SIZE
  <2>1. shm' = [j \in 1..SHM_SIZE |-> shm'[j]]
    BY <1>2
  <2> QED BY <1>1, <2>1, FunctionIsSeq
<1>4. IsSeq(shm)'
  BY <1>3 DEF IsSeq
<1> QED BY <1>2, <1>3, <1>4 DEF ShmInv

\* The part of a name is one of the layout's parts of that name.
LEMMA PartsFacts ==
    ASSUME NEW parts, parts = SplitParts(layout), parts # Malformed, layout \in Seq(Descriptors)
    PROVE  /\ DOMAIN parts = {layout[i].name[1] : i \in DOMAIN layout}
           /\ \A s \in DOMAIN parts :
                 /\ \E i \in DOMAIN layout : /\ parts[s].img = layout[i]
                                             /\ layout[i].name = PartName(s, IMG_SUFFIX)
                 /\ \E i \in DOMAIN layout : /\ parts[s].meta = layout[i]
                                             /\ layout[i].name = PartName(s, META_SUFFIX)
<1> DEFINE sensors == {layout[i].name[1] : i \in DOMAIN layout}
           Of(s, suffix) == {i \in DOMAIN layout : layout[i].name = PartName(s, suffix)}
<1>1. /\ parts = [s \in sensors |-> [img  |-> layout[Max(Of(s, IMG_SUFFIX))],
                                     meta |-> layout[Max(Of(s, META_SUFFIX))]]]
      /\ \A s \in sensors : Of(s, IMG_SUFFIX) # {} /\ Of(s, META_SUFFIX) # {}
  BY DEF SplitParts
<1>2. DOMAIN layout = 1..Len(layout) /\ Len(layout) \in Nat
  BY LenProperties
<1>3. ASSUME NEW s, NEW suffix, Of(s, suffix) # {} PROVE Max(Of(s, suffix)) \in Of(s, suffix)
  <2>1. Of(s, suffix) \in SUBSET Nat /\ \A i \in Of(s, suffix) : i <= Len(layout)
    BY <1>2
  <2> HIDE DEF Of
  <2>2. IsFiniteSet(Of(s, suffix))
    BY <1>2, <2>1, FS_BoundedSetOfNaturals
  <2> QED BY <1>3, <2>1, <2>2, MaxFacts
<1> HIDE DEF sensors
<1>4. ASSUME NEW s \in sensors
      PROVE  /\ \E i \in DOMAIN layout : /\ parts[s].img = layout[i]
                                         /\ layout[i].name = PartName(s, IMG_SUFFIX)
             /\ \E i \in DOMAIN layout : /\ parts[s].meta = layout[i]
                                         /\ layout[i].name = PartName(s, META_SUFFIX)
  <2>1. Max(Of(s, IMG_SUFFIX)) \in Of(s, IMG_SUFFIX) /\ Max(Of(s, META_SUFFIX)) \in Of(s, META_SUFFIX)
    BY <1>1, <1>3
  <2>2. /\ parts[s].img = layout[Max(Of(s, IMG_SUFFIX))]
        /\ parts[s].meta = layout[Max(Of(s, META_SUFFIX))]
    BY <1>1
  <2> QED BY <2>1, <2>2
<1>5. DOMAIN parts = sensors
  BY <1>1
<1> QED BY <1>4, <1>5 DEF sensors

\* A view of a part is its bytes in the block.
LEMMA ViewFacts ==
    ASSUME NEW p \in Descriptors
    PROVE  /\ DOMAIN View(p) = 1..p.size
           /\ \A k \in 1..p.size : View(p)[k] = shm[p.offset + k]
           /\ View(p) # <<>> => 1 \in 1..p.size
<1> DEFINE from == p.offset + 1
           to == p.offset + p.size
           S == {shm[i] : i \in from..to}
<1>1. p.offset \in Nat /\ p.size \in Nat
  BY DEF Descriptors
<1>2. View(p) = SubSeq(shm, from, to)
  BY DEF View
<1>3. /\ from \in Int /\ to \in Int
      /\ (IF from <= to THEN to - from + 1 ELSE 0) = p.size /\ to - from + 1 = p.size
      /\ \A k \in 1..p.size : from + k - 1 = p.offset + k
  BY <1>1
<1>4. \A i \in from..to : shm[i] \in S
  OBVIOUS
<1> HIDE DEF from, to, S
<1>5. /\ SubSeq(shm, from, to) \in Seq(S)
      /\ Len(SubSeq(shm, from, to)) = (IF from <= to THEN to - from + 1 ELSE 0)
      /\ \A k \in 1..(to - from + 1) : SubSeq(shm, from, to)[k] = shm[from + k - 1]
  BY <1>3, <1>4, SubSeqProperties
<1>6. View(p) \in Seq(S) /\ Len(View(p)) = p.size
  BY <1>2, <1>3, <1>5
<1>7. \A k \in 1..p.size : View(p)[k] = shm[p.offset + k]
  BY <1>2, <1>3, <1>5
<1>8. DOMAIN View(p) = 1..p.size
  BY <1>6, LenProperties
<1>9. View(p) # <<>> => 1 \in 1..p.size
  BY <1>1, <1>6, EmptySeq
<1> QED BY <1>7, <1>8, <1>9

-----------------------------------------------------------------------------
(* What each step makes of the bytes.                                      *)

\* The step goes on with the same source.
LEMMA SameSource ==
    ASSUME BytesInv, pc \in Resolved, pc' \in Resolved,
           UNCHANGED <<mode, job, input, taken, shm>>
    PROVE  DirInv' /\ HeadersInv' /\ SourceInv' /\ ShmInv' /\ \A b, d : PixelOf(b, d)' = PixelOf(b, d)
BY DEF BytesInv, DirInv, HeadersInv, SourceInv, ShmInv, IsSeq, Resolved, FileOf, PixelOf, input, taken

\* A body of honest parts may be sent, or a mangled one of this job's bytes.
LEMMA SendBytes ==
    ASSUME BytesInv, pc \in Resolved, pc' = "send",
           NEW b, body' = b,
           UNCHANGED <<mode, job, input, taken, shm, layout, given>>, pc \notin {"run", "running"},
           Framed(b),
           mangled' \/ Honest(b.desc, b.bytes, StartOf(b))
    PROVE  BytesInv'
<1>1. DirInv' /\ HeadersInv' /\ SourceInv' /\ ShmInv' /\ \A c, d : PixelOf(c, d)' = PixelOf(c, d)
  BY SameSource DEF Resolved
<1>2. job' = job /\ source' = source
  BY DEF taken
<1>3. Framed(b)' <=> Framed(b)
  BY <1>2 DEF Framed
<1>4. Honest(b.desc, b.bytes, StartOf(b))' <=> Honest(b.desc, b.bytes, StartOf(b))
  <2>1. \A p : HonestPart(p, b.bytes, StartOf(b))' <=> HonestPart(p, b.bytes, StartOf(b))
    BY <1>1, <1>2 DEF HonestPart
  <2> QED BY <2>1 DEF Honest
<1>5. BodyInv'
  BY <1>3, <1>4 DEF BodyInv
<1>6. GivenInv' /\ RunInv' /\ SegmentBytesInv' /\ LayoutInv'
  BY DEF GivenInv, RunInv, SegmentBytesInv, LayoutInv, BytesInv, input
<1> QED BY <1>1, <1>5, <1>6 DEF BytesInv

\* A job that ends, however it ends, leaves nothing but the block.
LEMMA EndBytes ==
    ASSUME BytesInv, Forget, ShmInv'
    PROVE  BytesInv'
<1>1. /\ pc' = "idle" /\ dir' = <<>> /\ given' = <<>>
  BY DEF Forget
<1>2. DirInv'
  BY <1>1, FS_EmptySet DEF DirInv
<1> QED
  BY <1>1, <1>2 DEF BytesInv, HeadersInv, SourceInv, Resolved, SegmentBytesInv, BodyInv, LayoutInv,
                    GivenInv, RunInv

\* A job begins with a directory and nothing else (Arrive).
LEMMA ArriveBytes ==
    ASSUME BytesInv, NEW r \in {"push", "ingest"}, NEW d \in Dirs, Arrive(r, d)
    PROVE  BytesInv'
<1>1. /\ pc = "idle" /\ pc' = "substitute" /\ dir' = d /\ given' = given /\ shm' = shm
  BY DEF Arrive, wire
<1>2. given = <<>>
  BY <1>1 DEF BytesInv, GivenInv
<1>3. DirInv'
  BY <1>1, DataPathAssumption DEF DirInv
<1>4. ShmInv'
  BY <1>1 DEF BytesInv, ShmInv, IsSeq
<1> QED
  BY <1>1, <1>2, <1>3, <1>4 DEF BytesInv, HeadersInv, SourceInv, Resolved, SegmentBytesInv, BodyInv,
                                LayoutInv, GivenInv, RunInv

\* The substitutes are those of the directory (Substitute).
LEMMA SubstituteBytes ==
    ASSUME BytesInv, Substitute
    PROVE  BytesInv'
<1> DEFINE h == SubstitutedHeaders(mode, dir)
<1>1. CASE Fail /\ UNCHANGED shm
  <2>1. ShmInv'
    BY <1>1 DEF BytesInv, ShmInv, IsSeq
  <2> QED BY <1>1, <2>1, EndBytes DEF Fail, End
<1>2. CASE ~(Fail /\ UNCHANGED shm)
  <2>1. /\ pc = "substitute" /\ pc' = "resolve" /\ h # Raised /\ headers' = h
        /\ UNCHANGED <<mode, job, input, prepared, source, forks, wire, given, mishaps>>
    BY <1>2 DEF Substitute
  <2>2. h # None => \A d \in DOMAIN h : h[d] \in Header /\ h[d].det = d
    BY <2>1, SubstituteFacts
  <2>3. HeadersInv'
    <3>1. headers' = SubstitutedHeaders(mode', dir')
      BY <2>1 DEF input
    <3>2. PICK x : x = h
      OBVIOUS
    <3> HIDE DEF h
    <3>3. headers' = x /\ x # Raised /\ (x # None => \A d \in DOMAIN x : x[d] \in Header /\ x[d].det = d)
      BY <2>1, <2>2, <3>2
    <3> QED BY <3>1, <3>3 DEF HeadersInv
  <2>4. DirInv' /\ ShmInv'
    BY <2>1 DEF BytesInv, DirInv, ShmInv, IsSeq, input, wire
  <2>5. SourceInv' /\ SegmentBytesInv' /\ BodyInv' /\ LayoutInv' /\ GivenInv' /\ RunInv'
    BY <2>1 DEF BytesInv, SourceInv, Resolved, SegmentBytesInv, BodyInv, LayoutInv, GivenInv, RunInv
  <2> QED BY <2>3, <2>4, <2>5 DEF BytesInv
<1> QED BY <1>1, <1>2

\* What was resolved is of the directory and its substitutes (Resolve).
LEMMA ResolveBytes ==
    ASSUME BytesInv, Resolve
    PROVE  BytesInv'
<1> DEFINE s == ResolveExposureDir(dir, headers)
<1>1. CASE Fail /\ UNCHANGED shm
  <2>1. ShmInv'
    BY <1>1 DEF BytesInv, ShmInv, IsSeq
  <2> QED BY <1>1, <2>1, EndBytes DEF Fail, End
<1>2. CASE ~(Fail /\ UNCHANGED shm)
  <2>1. /\ pc = "resolve" /\ s # Raised
        /\ pc' = "substitute" \/ (pc' = "create" /\ source' = s)
        /\ UNCHANGED <<mode, job, input, forks, wire, given>>
    BY <1>2 DEF Resolve
  <2>2. LET handles == s.handles
        IN  /\ DOMAIN handles = Dets /\ Dets # {}
            /\ \A d \in Dets :
                  /\ handles[d].header \in Header
                  /\ handles[d].header.det = d
                  /\ handles[d].path \in DOMAIN dir
                  /\ dir[handles[d].path].det = d
                  /\ \/ touched
                     \/ dir[handles[d].path].exp = handles[d].header.exp
                     \/ mode = "pinned"
                     \/ mode = "off" /\ dir[handles[d].path].emulated
    BY <2>1, ResolveFacts DEF BytesInv
  <2> HIDE DEF s
  <2>3. SourceInv'
    <3>1. dir' = dir /\ touched' = touched /\ mode' = mode
      BY <2>1 DEF input
    <3> QED BY <2>1, <2>2, <3>1 DEF SourceInv, Resolved, FileOf
  <2>4. DirInv' /\ ShmInv'
    BY <2>1 DEF BytesInv, DirInv, ShmInv, IsSeq, input, wire
  <2>5. HeadersInv' /\ SegmentBytesInv' /\ BodyInv' /\ LayoutInv' /\ GivenInv' /\ RunInv'
    BY <2>1 DEF BytesInv, HeadersInv, SegmentBytesInv, BodyInv, LayoutInv, GivenInv, RunInv
  <2> QED BY <2>3, <2>4, <2>5 DEF BytesInv
<1> QED BY <1>1, <1>2

\* A new segment has room for every slot, and no slot is written (CreateSegment).
LEMMA CreateSegmentBytes ==
    ASSUME BytesInv, CreateSegment
    PROVE  BytesInv'
<1> DEFINE size == ImagesAt + ImgSize * Cardinality(DOMAIN source.handles)
                   + IF route = "push" THEN MetaAllowance ELSE 0
<1>1. /\ pc = "create" /\ pc' = "forked" /\ segment' = [i \in 1..size |-> Zero]
      /\ task' = [d \in DOMAIN source.handles |-> "running"]
      /\ UNCHANGED <<mode, job, input, taken, wire, given>>
  BY DEF CreateSegment
<1>2. DOMAIN source.handles = Dets
  BY <1>1 DEF BytesInv, SourceInv, Resolved
<1>3. ImagesAt \in Nat /\ ImgSize * Cardinality(Dets) \in Nat
  BY <1>2, SlotFacts
<1>4. size \in Nat /\ ImagesAt + ImgSize * Cardinality(Dets) <= size
  <2>1. (IF route = "push" THEN MetaAllowance ELSE 0) \in Nat
    BY DataPathAssumption
  <2> QED BY <1>2, <1>3, <2>1
<1> HIDE DEF size
<1>5. IsSeq(segment') /\ Len(segment') = size
  <2>1. segment' = [i \in 1..size |-> segment'[i]]
    BY <1>1
  <2> QED BY <1>4, <2>1, FunctionIsSeq
<1>6. ImagesAt' = ImagesAt
  BY <1>1 DEF ImagesAt, input, taken
<1>7. SegmentBytesInv'
  <2>1. \A d \in Dets : task'[d] # "done"
    BY <1>1, <1>2
  <2>2. IsSeq(segment)'
    BY <1>5 DEF IsSeq
  <2> QED BY <1>1, <1>2, <1>4, <1>5, <1>6, <2>1, <2>2 DEF SegmentBytesInv
<1>8. DirInv' /\ HeadersInv' /\ SourceInv' /\ ShmInv'
  BY <1>1, SameSource DEF Resolved, wire
<1>9. GivenInv' /\ RunInv' /\ BodyInv' /\ LayoutInv'
  BY <1>1 DEF BytesInv, GivenInv, RunInv, BodyInv, LayoutInv
<1> QED BY <1>7, <1>8, <1>9 DEF BytesInv

\* A worker's pixels go to its slot, and to no other (Worker).
LEMMA WorkerBytes ==
    ASSUME BytesInv, NEW d \in Dets, Worker(d)
    PROVE  BytesInv'
<1>1. /\ pc = "forked" /\ pc' = "forked" /\ task' = [task EXCEPT ![d] = "done"]
      /\ segment' = [i \in DOMAIN segment |->
                        IF i \in SlotAt(d) + 1 .. SlotAt(d) + ImgSize
                        THEN ImgBytes(d)[i - SlotAt(d)] ELSE segment[i]]
      /\ UNCHANGED <<mode, job, input, taken, wire, given>>
  BY DEF Worker
<1>2. DOMAIN source.handles = Dets /\ FileOf(d).det = d
  BY <1>1 DEF BytesInv, SourceInv, Resolved
<1>3. DOMAIN task = Dets /\ IsSeq(segment) /\ ImagesAt + ImgSize * Cardinality(Dets) <= Len(segment)
  BY <1>1 DEF BytesInv, SegmentBytesInv
<1>4. DOMAIN segment = 1..Len(segment) /\ Len(segment) \in Nat
  BY <1>3, SequenceOfAny DEF IsSeq
<1>5. IsSeq(segment') /\ Len(segment') = Len(segment) /\ DOMAIN segment' = DOMAIN segment
  <2>1. segment' = [i \in 1..Len(segment) |-> segment'[i]]
    BY <1>1, <1>4
  <2> QED BY <1>4, <2>1, FunctionIsSeq
<1>6. ImagesAt' = ImagesAt /\ \A e : SlotAt(e)' = SlotAt(e)
  BY <1>1 DEF ImagesAt, SlotAt, input, taken
<1>7. DirInv' /\ HeadersInv' /\ SourceInv' /\ ShmInv' /\ \A b, e : PixelOf(b, e)' = PixelOf(b, e)
  BY <1>1, SameSource DEF Resolved, wire
<1>8. /\ ImagesAt \in Nat /\ ImgSize * Cardinality(Dets) \in Nat /\ ImgSize \in Nat
      /\ \A e \in Dets : /\ SlotAt(e) \in Nat
                         /\ SlotAt(e) + ImgSize <= ImagesAt + ImgSize * Cardinality(Dets)
      /\ \A e, f \in Dets : e < f => SlotAt(e) + ImgSize <= SlotAt(f)
  BY <1>2, SlotFacts, DataPathAssumption
<1>9. ASSUME NEW e \in Dets, task'[e] = "done", NEW k \in 1..ImgSize
      PROVE  PixelOf(segment'[SlotAt(e) + k], e)
  <2>1. SlotAt(e) + k \in DOMAIN segment
    <3>1. \A x, y, z, w \in Nat : \A j \in 1..y : x + y <= z /\ z <= w => x + j \in 1..w
      OBVIOUS
    <3>2. ImagesAt + ImgSize * Cardinality(Dets) \in Nat
      BY <1>8
    <3> QED BY <1>3, <1>4, <1>8, <3>1, <3>2
  <2>2. CASE e = d
    <3>1. /\ SlotAt(d) + k \in SlotAt(d) + 1 .. SlotAt(d) + ImgSize
          /\ (SlotAt(d) + k) - SlotAt(d) = k
      BY <1>8
    <3>2. segment'[SlotAt(d) + k] = ImgBytes(d)[k]
      BY <1>1, <2>1, <2>2, <3>1
    <3>3. ImgBytes(d)[k] = [kind |-> "img", job |-> job, det |-> FileOf(d).det, exp |-> FileOf(d).exp]
      BY DEF ImgBytes, FileOf
    <3> QED BY <1>2, <2>2, <3>2, <3>3 DEF PixelOf
  <2>3. CASE e # d
    <3>1. e < d \/ d < e
      <4>1. e \in Nat /\ d \in Nat
        BY ExposureDirAssumption
      <4> QED BY <2>3, <4>1
    <3>2. SlotAt(e) + ImgSize <= SlotAt(d) \/ SlotAt(d) + ImgSize <= SlotAt(e)
      BY <1>8, <3>1
    <3>3. \A x, y, z \in Nat : \A j \in 1..y :
             x + y <= z \/ z + y <= x => x + j \notin z + 1 .. z + y
      OBVIOUS
    <3>4. SlotAt(e) + k \notin SlotAt(d) + 1 .. SlotAt(d) + ImgSize
      BY <1>8, <3>2, <3>3
    <3>5. segment'[SlotAt(e) + k] = segment[SlotAt(e) + k] /\ task[e] = "done"
      BY <1>1, <1>3, <1>9, <2>1, <2>3, <3>4
    <3> QED BY <1>1, <3>5 DEF BytesInv, SegmentBytesInv
  <2> QED BY <2>2, <2>3
<1>10. SegmentBytesInv'
  <2>1. IsSeq(segment)'
    BY <1>5 DEF IsSeq
  <2>2. DOMAIN task' = Dets
    BY <1>1, <1>3
  <2> QED BY <1>3, <1>5, <1>6, <1>7, <1>9, <2>1, <2>2 DEF SegmentBytesInv
<1>11. GivenInv' /\ RunInv' /\ BodyInv' /\ LayoutInv'
  BY <1>1 DEF BytesInv, GivenInv, RunInv, BodyInv, LayoutInv
<1> QED BY <1>7, <1>10, <1>11 DEF BytesInv

\* A worker that fails leaves its slot as it was (WorkerRaises, WorkerDies).
LEMMA WorkerFailsBytes ==
    ASSUME BytesInv, NEW d \in Dets, WorkerRaises(d) \/ WorkerDies(d)
    PROVE  BytesInv'
<1>1. /\ pc = "forked" /\ pc' = "forked"
      /\ task' = [task EXCEPT ![d] = "error"] \/ task' = [task EXCEPT ![d] = "dead"]
      /\ UNCHANGED <<mode, job, input, taken, segment, wire, given>>
  BY DEF WorkerRaises, WorkerDies
<1>2. DirInv' /\ HeadersInv' /\ SourceInv' /\ ShmInv' /\ \A x, e : PixelOf(x, e)' <=> PixelOf(x, e)
  BY <1>1, SameSource DEF Resolved, wire
<1>3. ImagesAt' = ImagesAt /\ \A e : SlotAt(e)' = SlotAt(e)
  BY <1>1 DEF ImagesAt, SlotAt, input, taken
<1>4. SegmentBytesInv
  BY DEF BytesInv
<1>5. DOMAIN task' = Dets /\ \A e \in Dets : task'[e] = "done" => task[e] = "done"
  BY <1>1, <1>4 DEF SegmentBytesInv
<1>6. SegmentBytesInv'
  BY <1>1, <1>2, <1>3, <1>4, <1>5 DEF SegmentBytesInv, IsSeq
<1>7. GivenInv' /\ RunInv' /\ BodyInv' /\ LayoutInv'
  BY <1>1 DEF BytesInv, GivenInv, RunInv, BodyInv, LayoutInv
<1> QED BY <1>2, <1>6, <1>7 DEF BytesInv

\* An encode that cannot be parallel goes back to the serial encoder; an ingest
\* ends (CannotFork, WorkersFailed, TimesOut).
LEMMA UnavailableBytes ==
    ASSUME BytesInv, Unavailable, pc \in {"create", "forked"}
    PROVE  BytesInv'
<1>1. CASE route = "ingest" /\ Fail /\ UNCHANGED shm
  <2>1. ShmInv'
    BY <1>1 DEF BytesInv, ShmInv, IsSeq
  <2> QED BY <1>1, <2>1, EndBytes DEF Fail, End
<1>2. CASE ~(route = "ingest" /\ Fail /\ UNCHANGED shm)
  <2>1. /\ pc' = "serial"
        /\ UNCHANGED <<mode, job, input, taken, leaked, wire, given, mishaps>>
    BY <1>2 DEF Unavailable
  <2>2. DirInv' /\ HeadersInv' /\ SourceInv' /\ ShmInv'
    BY <2>1, SameSource DEF Resolved, wire
  <2>3. GivenInv' /\ RunInv' /\ SegmentBytesInv' /\ BodyInv' /\ LayoutInv'
    BY <2>1 DEF GivenInv, RunInv, SegmentBytesInv, BodyInv, LayoutInv, BytesInv
  <2> QED BY <2>2, <2>3 DEF BytesInv
<1> QED BY <1>1, <1>2

\* The framing of the parallel encoder points at the slots, and at the headers
\* behind them (Frame).
LEMMA FrameBytes ==
    ASSUME BytesInv, Frame, ~Unavailable
    PROVE  BytesInv'
<1> DEFINE q == DetSeq(source)
           n == Cardinality(Dets)
           all == ImgSize * n
           ones == [i \in DOMAIN q |-> ImgSize]
           metas == [i \in DOMAIN q |-> MetaBytes(q[i])]
           lens == [i \in DOMAIN q |-> MetaSize[source.handles[q[i]].header.exp]]
           sizes == ones \o lens
           offsets == [i \in DOMAIN sizes |-> Cumulative(sizes)[i-1]]
           imgs == [i \in DOMAIN q |-> PartName(q[i], IMG_SUFFIX)]
           heads == [i \in DOMAIN q |-> PartName(q[i], META_SUFFIX)]
           names == imgs \o heads
           picture == SubSeq(segment, ImagesAt + 1, ImagesAt + ImgSize * Len(q))
           tail == FlattenSeq(metas)
           rest == picture \o tail
<1>1. /\ pc = "forked" /\ route = "push" /\ AllDone /\ pc' = "send"
      /\ UNCHANGED <<mode, job, input, taken, forks, mangled, shm, layout, given>>
  BY DEF Frame
<1>2. PICK framing : framing = BuildFraming(names, sizes, offsets)
  OBVIOUS
<1>3. PICK b : b = [magic |-> TRUE, desc |-> framing.desc, payload |-> framing.payload,
                    bytes |-> Framing(ImagesAt) \o picture \o tail]
  OBVIOUS
<1>4. body' = b
  BY <1>2, <1>3, Zenon DEF Frame, Names
<1>5. SourceInv /\ pc \in Resolved /\ DOMAIN source.handles = Dets
  BY <1>1 DEF BytesInv, SourceInv, Resolved
<1>6. /\ n \in Nat \ {0} /\ q \in Seq(Dets) /\ Len(q) = n /\ DOMAIN q = 1..n
      /\ \A i \in 1..n : q[i] \in Dets
      /\ \A d \in Dets : \E i \in 1..n : q[i] = d
  BY <1>5, DetSeqFacts
<1>7. /\ all \in Nat
      /\ picture \in Seq({picture[r] : r \in 1..all}) /\ Len(picture) = all
      /\ \A i \in 1..n : \A k \in 1..ImgSize :
            /\ ImgSize * (i - 1) + k \in 1..all
            /\ PixelOf(picture[ImgSize * (i - 1) + k], q[i])
      /\ \A r \in 1..all : picture[r].job = job
  BY <1>1, <1>6, PictureFacts
<1> HIDE DEF q, n, picture
<1>8. ImgSize \in Nat /\ ImagesAt \in Nat
  BY <1>5, SlotFacts, DataPathAssumption
<1>9. ASSUME NEW i \in 1..n
      PROVE  /\ MetaBytes(q[i]) \in Seq(JobBytes)
             /\ Len(MetaBytes(q[i])) = MetaSize[source.handles[q[i]].header.exp]
             /\ Len(MetaBytes(q[i])) \in Nat /\ Len(MetaBytes(q[i])) > 0
             /\ MetaBytes(q[i])[1].det = q[i]
             /\ MetaBytes(q[i])[1].exp = source.handles[q[i]].header.exp
  BY <1>5, <1>6, PartFacts, JobBytesFacts
<1>10. /\ ones \in Seq(Nat) /\ Len(ones) = n /\ \A i \in 1..n : ones[i] = ImgSize
       /\ imgs \in Seq(Tags) /\ Len(imgs) = n /\ \A i \in 1..n : imgs[i] = PartName(q[i], IMG_SUFFIX)
       /\ heads \in Seq(Tags) /\ Len(heads) = n
       /\ \A i \in 1..n : heads[i] = PartName(q[i], META_SUFFIX)
  <2>1. ones \in [1..n -> Nat] /\ imgs \in [1..n -> Tags] /\ heads \in [1..n -> Tags]
    BY <1>6, <1>8 DEF PartName, Tags
  <2>2. n \in Nat
    BY <1>6
  <2>3. Len(ones) = n /\ Len(imgs) = n /\ Len(heads) = n
    BY <1>6, <2>2, FunctionIsSeq
  <2>4. ones \in Seq(Nat) /\ imgs \in Seq(Tags) /\ heads \in Seq(Tags)
    BY <2>1, <2>2, SeqDef
  <2> QED BY <1>6, <2>3, <2>4
<1>11. /\ metas \in Seq(Seq(JobBytes)) /\ Len(metas) = n
       /\ \A i \in 1..n : metas[i] = MetaBytes(q[i])
       /\ lens = Sizes(metas)
  <2>1. metas \in [1..n -> Seq(JobBytes)]
    BY <1>6, <1>9
  <2>2. n \in Nat
    BY <1>6
  <2>3. Len(metas) = n
    BY <1>6, <2>2, FunctionIsSeq
  <2>4. metas \in Seq(Seq(JobBytes))
    BY <2>1, <2>2, SeqDef
  <2>5. lens = Sizes(metas)
    BY <1>6, <1>9 DEF Sizes
  <2> QED BY <1>6, <2>3, <2>4, <2>5
<1> HIDE DEF ones, imgs, heads, metas, lens
<1>12. /\ lens \in Seq(Nat) /\ Len(lens) = n /\ \A i \in 1..n : lens[i] = Len(MetaBytes(q[i]))
       /\ tail \in Seq(JobBytes) /\ Len(tail) = Cumulative(lens)[n]
       /\ \A i \in 1..n : \A k \in 1..Len(MetaBytes(q[i])) :
             tail[Cumulative(lens)[i-1] + k] = MetaBytes(q[i])[k]
  <2>1. /\ Sizes(metas) \in Seq(Nat) /\ Len(Sizes(metas)) = Len(metas)
        /\ FlattenSeq(metas) \in Seq(JobBytes)
        /\ Len(FlattenSeq(metas)) = Cumulative(Sizes(metas))[Len(metas)]
        /\ \A i \in 1..Len(metas) : \A k \in 1..Len(metas[i]) :
              FlattenSeq(metas)[Cumulative(Sizes(metas))[i-1] + k] = metas[i][k]
    BY <1>11, FlattenFacts
  <2>2. \A i \in 1..n : Sizes(metas)[i] = Len(metas[i])
    <3>1. DOMAIN metas = 1..n
      BY <1>11, LenProperties
    <3> QED BY <3>1 DEF Sizes
  <2> QED BY <1>11, <2>1, <2>2
<1> HIDE DEF tail
<1>13. /\ sizes \in Seq(Nat) /\ Len(sizes) = n + n
       /\ \A i \in 0..n : Cumulative(sizes)[i] = ImgSize * i
       /\ \A j \in 0..n : Cumulative(sizes)[n + j] = all + Cumulative(lens)[j]
       /\ \A i \in 1..n : sizes[i] = ImgSize /\ sizes[n + i] = lens[i]
  <2>1. \A i \in 0..n : Cumulative(ones)[i] = ImgSize * i
    BY <1>8, <1>10, CumulativeConstant
  <2>2. /\ sizes \in Seq(Nat) /\ Len(sizes) = Len(ones) + Len(lens)
        /\ \A i \in 0..Len(ones) : Cumulative(sizes)[i] = Cumulative(ones)[i]
        /\ \A j \in 0..Len(lens) :
              Cumulative(sizes)[Len(ones) + j] = Cumulative(ones)[Len(ones)] + Cumulative(lens)[j]
    BY <1>10, <1>12, CumulativeConcat
  <2>3. \A i \in 1..(Len(ones) + Len(lens)) :
           sizes[i] = IF i <= Len(ones) THEN ones[i] ELSE lens[i - Len(ones)]
    <3>1. ones \in Seq(Nat) /\ lens \in Seq(Nat)
      BY <1>10, <1>12
    <3> QED BY <3>1, ConcatProperties
  <2>4. n \in Nat /\ n \in 0..n
    BY <1>6
  <2>5. \A i \in 1..n : /\ i \in 1..(n + n) /\ i <= n /\ n + i \in 1..(n + n) /\ ~(n + i <= n)
                        /\ (n + i) - n = i
    BY <2>4
  <2> HIDE DEF sizes
  <2>6. \A i \in 1..n : sizes[i] = ImgSize /\ sizes[n + i] = lens[i]
    <3> SUFFICES ASSUME NEW i \in 1..n PROVE sizes[i] = ImgSize /\ sizes[n + i] = lens[i]
      OBVIOUS
    <3>1. \A j \in 1..(n + n) : sizes[j] = IF j <= n THEN ones[j] ELSE lens[j - n]
      BY <1>10, <1>12, <2>3
    <3>2. sizes[i] = ones[i] /\ sizes[n + i] = lens[i]
      BY <2>5, <3>1
    <3> QED BY <1>10, <3>2
  <2> QED BY <1>10, <1>12, <2>1, <2>2, <2>4, <2>6
<1>14. /\ names \in Seq(Tags) /\ Len(names) = n + n
       /\ \A i \in 1..n : /\ names[i] = PartName(q[i], IMG_SUFFIX)
                          /\ names[n + i] = PartName(q[i], META_SUFFIX)
  <2>1. /\ names \in Seq(Tags) /\ Len(names) = Len(imgs) + Len(heads)
        /\ \A i \in 1..(Len(imgs) + Len(heads)) :
              names[i] = IF i <= Len(imgs) THEN imgs[i] ELSE heads[i - Len(imgs)]
    BY <1>10, ConcatProperties
  <2>2. \A i \in 1..n : /\ i \in 1..(n + n) /\ i <= n /\ n + i \in 1..(n + n) /\ ~(n + i <= n)
                        /\ (n + i) - n = i
    BY <1>6
  <2> HIDE DEF names
  <2> QED BY <1>10, <2>1, <2>2
<1> HIDE DEF sizes, names
<1>15. /\ Len(b.desc) = n + n /\ DOMAIN b.desc = 1..(n + n)
       /\ IsSeq(b.desc)
       /\ \A i \in 1..(n + n) :
             /\ b.desc[i] = [name |-> names[i], offset |-> Cumulative(sizes)[i-1], size |-> sizes[i]]
             /\ names[i] \in Tags /\ Cumulative(sizes)[i-1] \in Nat /\ sizes[i] \in Nat
       /\ b.payload \in Nat
  <2>1. Len(names) = Len(sizes) /\ Len(sizes) # 0
    BY <1>6, <1>13, <1>14
  <2>2. /\ Len(framing.desc) = Len(sizes) /\ DOMAIN framing.desc = 1..Len(sizes) /\ Len(sizes) \in Nat
        /\ IsSeq(framing.desc)
        /\ \A i \in 1..Len(sizes) :
              /\ framing.desc[i] =
                    [name |-> names[i], offset |-> Cumulative(sizes)[i-1], size |-> sizes[i]]
              /\ names[i] \in Tags /\ Cumulative(sizes)[i-1] \in Nat /\ sizes[i] \in Nat
        /\ framing.payload \in Nat
    <3>1. \A i \in 1..Len(sizes) : offsets[i] = Cumulative(sizes)[i-1]
      BY <1>13, LenProperties
    <3>2. PICK o : o = offsets
      OBVIOUS
    <3>3. /\ \A i \in 1..Len(sizes) : o[i] = Cumulative(sizes)[i-1]
          /\ framing = BuildFraming(names, sizes, o)
      BY <1>2, <3>1, <3>2
    <3> HIDE DEF offsets
    <3>4. sizes \in Seq(Nat) /\ names \in Seq(Tags)
      BY <1>13, <1>14
    <3> QED BY <2>1, <3>3, <3>4, FramingFacts
  <2>3. b.desc = framing.desc /\ b.payload = framing.payload
    BY <1>3
  <2> QED BY <1>13, <2>2, <2>3
<1>16. StartOf(b) = ImagesAt
  <2>1. ImagesAt = HEADER_SIZE + DESC_SIZE * 2 * n
    BY <1>1, <1>5 DEF ImagesAt, n
  <2>2. \A x, y \in Nat : x * 2 * y = x * (y + y)
    OBVIOUS
  <2>3. DESC_SIZE * 2 * n = DESC_SIZE * (n + n)
    BY <1>6, <2>2, WireFormatAssumption
  <2> QED BY <1>15, <2>1, <2>3 DEF StartOf, DescriptorRegionSize
<1>17. /\ IsSeq(b.bytes)
       /\ \A r \in 1..all : b.bytes[ImagesAt + r] = picture[r]
       /\ \A r \in 1..Len(tail) : b.bytes[ImagesAt + (all + r)] = tail[r]
       /\ \A j \in 1..Len(b.bytes) : j > ImagesAt => b.bytes[j].job = job
  <2> DEFINE S == {picture[r] : r \in 1..all} \cup JobBytes
             F == {[kind |-> "framing", job |-> 0]}
  <2>1. picture \in Seq(S) /\ tail \in Seq(S)
    BY <1>7, <1>12, SeqMonotonic
  <2>2. \A x \in S : x.job = job
    BY <1>5, <1>7, JobBytesFacts
  <2> HIDE DEF S
  <2>3. /\ rest \in Seq(S) /\ Len(rest) = all + Len(tail) /\ Len(tail) \in Nat
        /\ \A i \in 1..(all + Len(tail)) : rest[i] = IF i <= all THEN picture[i] ELSE tail[i - all]
    <3>1. /\ rest \in Seq(S) /\ Len(rest) = Len(picture) + Len(tail)
          /\ \A i \in 1..(Len(picture) + Len(tail)) :
                rest[i] = IF i <= Len(picture) THEN picture[i] ELSE tail[i - Len(picture)]
      BY <2>1, ConcatProperties
    <3>2. Len(tail) \in Nat
      BY <2>1, LenProperties
    <3> HIDE DEF rest
    <3> QED BY <1>7, <3>1, <3>2
  <2> HIDE DEF rest
  <2>4. /\ \A r \in 1..all : r \in 1..Len(rest) /\ rest[r] = picture[r]
        /\ \A r \in 1..Len(tail) : all + r \in 1..Len(rest) /\ rest[all + r] = tail[r]
    <3>1. \A r \in 1..all : r \in 1..(all + Len(tail)) /\ r <= all
      BY <1>7, <2>3
    <3>2. \A r \in 1..Len(tail) : /\ all + r \in 1..(all + Len(tail)) /\ ~(all + r <= all)
                                  /\ (all + r) - all = r
      BY <1>7, <2>3
    <3> QED BY <2>3, <3>1, <3>2
  <2>5. b.bytes = Framing(ImagesAt) \o rest
    <3>1. Framing(ImagesAt) \in Seq(S \cup F)
      <4>1. Framing(ImagesAt) \in [1..ImagesAt -> S \cup F]
        BY DEF Framing
      <4> QED BY <1>8, <4>1, SeqDef
    <3>2. picture \in Seq(S \cup F) /\ tail \in Seq(S \cup F)
      BY <2>1, SeqMonotonic
    <3>3. (Framing(ImagesAt) \o picture) \o tail = Framing(ImagesAt) \o (picture \o tail)
      BY <3>1, <3>2, ConcatAssociative
    <3> QED BY <1>3, <3>3 DEF rest
  <2>6. /\ IsSeq(Framing(ImagesAt) \o rest)
        /\ Len(Framing(ImagesAt) \o rest) = ImagesAt + Len(rest)
        /\ \A r \in 1..Len(rest) : (Framing(ImagesAt) \o rest)[ImagesAt + r] = rest[r]
        /\ \A j \in 1..(ImagesAt + Len(rest)) :
              j > ImagesAt => /\ j - ImagesAt \in 1..Len(rest)
                              /\ (Framing(ImagesAt) \o rest)[j] = rest[j - ImagesAt]
    BY <1>8, <2>3, FramedBytes
  <2>7. \A r \in 1..Len(rest) : rest[r] \in S
    BY <2>3, ElementOfSeq
  <2>8. IsSeq(b.bytes) /\ Len(b.bytes) = ImagesAt + Len(rest)
    BY <2>5, <2>6
  <2>9. \A r \in 1..all : b.bytes[ImagesAt + r] = picture[r]
    BY <2>4, <2>5, <2>6
  <2>10. \A r \in 1..Len(tail) : b.bytes[ImagesAt + (all + r)] = tail[r]
    BY <2>4, <2>5, <2>6
  <2>11. ASSUME NEW j \in 1..Len(b.bytes), j > ImagesAt PROVE b.bytes[j].job = job
    <3>1. j - ImagesAt \in 1..Len(rest) /\ b.bytes[j] = rest[j - ImagesAt]
      BY <2>5, <2>6, <2>8, <2>11
    <3> QED BY <2>2, <2>7, <3>1
  <2> QED BY <2>8, <2>9, <2>10, <2>11
<1>18. Framed(b)
  <2>1. \A i \in 1..(n + n) : b.desc[i] \in Descriptors
    <3> SUFFICES ASSUME NEW i \in 1..(n + n) PROVE b.desc[i] \in Descriptors
      OBVIOUS
    <3> DEFINE x == Cumulative(sizes)[i-1]
    <3>1. /\ b.desc[i] = [name |-> names[i], offset |-> x, size |-> sizes[i]]
          /\ names[i] \in Tags /\ x \in Nat /\ sizes[i] \in Nat
      BY <1>15
    <3> HIDE DEF x
    <3> QED BY <3>1 DEF Descriptors, Tags
  <2>2. b.desc \in [1..(n + n) -> Descriptors] /\ n + n \in Nat
    BY <1>6, <1>15, <2>1 DEF IsSeq
  <2>3. b.desc \in Seq(Descriptors)
    BY <2>2, SeqDef
  <2>4. b = [magic |-> b.magic, desc |-> b.desc, payload |-> b.payload, bytes |-> b.bytes]
    BY <1>3
  <2> QED BY <1>15, <1>16, <1>17, <2>3, <2>4 DEF Framed
<1>19. ASSUME NEW i \in 1..n
       PROVE  /\ HonestPart(b.desc[i], b.bytes, StartOf(b))
              /\ b.desc[i].name = PartName(q[i], IMG_SUFFIX)
              /\ i \in 1..(n + n)
  <2>1. i \in 1..(n + n) /\ i - 1 \in 0..n /\ q[i] \in Dets
    BY <1>6
  <2>2. b.desc[i] = [name |-> PartName(q[i], IMG_SUFFIX), offset |-> ImgSize * (i - 1), size |-> ImgSize]
    BY <1>13, <1>14, <1>15, <2>1
  <2>3. ASSUME NEW k \in 1..ImgSize PROVE PixelOf(b.bytes[ImagesAt + ImgSize * (i - 1) + k], q[i])
    <3> DEFINE x == ImgSize * (i - 1)
    <3>1. x \in Nat
      <4>1. \A u, v \in Nat : u * v \in Nat
        OBVIOUS
      <4> QED BY <1>8, <2>1, <4>1
    <3> HIDE DEF x
    <3>2. (ImagesAt + x) + k = ImagesAt + (x + k)
      BY <1>8, <3>1
    <3>3. x + k \in 1..all /\ PixelOf(picture[x + k], q[i])
      BY <1>7 DEF x
    <3> QED BY <1>17, <3>2, <3>3 DEF x
  <2>4. /\ b.desc[i].name = PartName(q[i], IMG_SUFFIX) /\ b.desc[i].name[1] = q[i]
        /\ b.desc[i].offset = ImgSize * (i - 1) /\ b.desc[i].size = ImgSize
    BY <2>2 DEF PartName
  <2> QED BY <1>16, <2>1, <2>3, <2>4 DEF HonestPart
<1>20. ASSUME NEW i \in 1..n PROVE HonestPart(b.desc[n + i], b.bytes, StartOf(b))
  <2> DEFINE x == Cumulative(lens)[i-1]
  <2>1. n + i \in 1..(n + n) /\ i - 1 \in 0..n /\ (n + i) - 1 = n + (i - 1) /\ q[i] \in Dets
    BY <1>6
  <2>2. b.desc[n + i] = [name |-> PartName(q[i], META_SUFFIX), offset |-> all + x, size |-> lens[i]]
    <3>1. b.desc[n + i] = [name |-> names[n + i], offset |-> Cumulative(sizes)[(n + i) - 1],
                           size |-> sizes[n + i]]
      BY <1>15, <2>1
    <3>2. Cumulative(sizes)[(n + i) - 1] = all + x
      BY <1>13, <2>1
    <3>3. sizes[n + i] = lens[i] /\ names[n + i] = PartName(q[i], META_SUFFIX)
      BY <1>13, <1>14
    <3> QED BY <3>1, <3>2, <3>3
  <2>3. x \in Nat /\ x + lens[i] <= Len(tail) /\ lens[i] \in Nat /\ lens[i] > 0
    <3>1. /\ Cumulative(lens) \in [0..n -> Nat]
          /\ \A j \in 1..n : Cumulative(lens)[j] = Cumulative(lens)[j-1] + lens[j]
      BY <1>12, CumulativeFacts
    <3>2. i \in 0..n /\ n \in 0..n /\ i <= n
      BY <1>6
    <3>3. Cumulative(lens)[i] <= Cumulative(lens)[n]
      BY <1>12, <3>2, CumulativeMonotone
    <3> QED BY <1>9, <1>12, <2>1, <3>1, <3>2, <3>3
  <2> HIDE DEF x
  <2>4. b.bytes[ImagesAt + (all + x) + 1] = MetaBytes(q[i])[1]
    <3>1. x + 1 \in 1..Len(tail) /\ (ImagesAt + (all + x)) + 1 = ImagesAt + (all + (x + 1))
      BY <1>7, <1>8, <2>3
    <3>2. 1 \in 1..Len(MetaBytes(q[i]))
      BY <1>9
    <3>3. tail[x + 1] = MetaBytes(q[i])[1]
      BY <1>12, <3>2 DEF x
    <3> QED BY <1>17, <3>1, <3>3
  <2>5. /\ b.desc[n + i].name = PartName(q[i], META_SUFFIX) /\ b.desc[n + i].name[1] = q[i]
        /\ b.desc[n + i].offset = all + x /\ b.desc[n + i].size = lens[i]
    BY <2>2 DEF PartName
  <2> QED BY <1>9, <1>16, <2>1, <2>3, <2>4, <2>5 DEF HonestPart
<1>21. Honest(b.desc, b.bytes, StartOf(b))
  <2>1. ASSUME NEW i \in 1..(n + n) PROVE HonestPart(b.desc[i], b.bytes, StartOf(b))
    <3>1. i \in 1..n \/ (i - n \in 1..n /\ n + (i - n) = i)
      BY <1>6
    <3> QED BY <1>19, <1>20, <3>1
  <2>2. ASSUME NEW d \in Dets PROVE \E i \in 1..(n + n) : b.desc[i].name = PartName(d, IMG_SUFFIX)
    BY <1>6, <1>19
  <2> QED BY <1>15, <2>1, <2>2 DEF Honest
<1> QED BY <1>1, <1>4, <1>5, <1>18, <1>21, SendBytes DEF forks

\* The serial encoder packs each detector's two parts (Serial).
LEMMA SerialBytes ==
    ASSUME BytesInv, Serial
    PROVE  BytesInv'
<1> DEFINE q == DetSeq(source)
           n == Cardinality(Dets)
           tags == [i \in DOMAIN q |-> <<PartName(q[i], IMG_SUFFIX), PartName(q[i], META_SUFFIX)>>]
           raws == [i \in DOMAIN q |-> LoadRaw(q[i])]
           names == FlattenSeq(tags)
           parts == FlattenSeq(raws)
<1>1. CASE Fail /\ UNCHANGED shm
  <2>1. ShmInv'
    BY <1>1 DEF BytesInv, ShmInv, IsSeq
  <2> QED BY <1>1, <2>1, EndBytes DEF Fail, End
<1>2. CASE ~(Fail /\ UNCHANGED shm)
  <2>1. /\ pc = "serial" /\ body' = PackBlob(names, parts) /\ pc' = "send"
        /\ UNCHANGED <<mode, job, input, taken, forks, mangled, shm, layout, given>>
    BY <1>2, Zenon DEF Serial
  <2>2. SourceInv /\ pc \in Resolved
    BY <2>1 DEF BytesInv, Resolved
  <2>3. /\ n \in Nat \ {0} /\ q \in Seq(Dets) /\ Len(q) = n /\ DOMAIN q = 1..n
        /\ \A i \in 1..n : q[i] \in Dets
        /\ \A d \in Dets : \E i \in 1..n : q[i] = d
    BY <2>2, DetSeqFacts
  <2> HIDE DEF q, n
  <2>4. /\ tags \in Seq(Seq(Tags)) /\ Len(tags) = n
        /\ \A i \in 1..n : tags[i] = <<PartName(q[i], IMG_SUFFIX), PartName(q[i], META_SUFFIX)>>
                           /\ Len(tags[i]) = 2
    <3>1. \A i \in 1..n : <<PartName(q[i], IMG_SUFFIX), PartName(q[i], META_SUFFIX)>> \in Seq(Tags)
      BY <2>3 DEF PartName, Tags
    <3>2. tags \in [1..n -> Seq(Tags)] /\ Len(tags) = n
      BY <2>3, <3>1, FunctionIsSeq
    <3> QED BY <2>3, <3>2, SeqDef
  <2>5. /\ raws \in Seq(Seq(Seq(JobBytes))) /\ Len(raws) = n
        /\ \A i \in 1..n : raws[i] = <<ImgBytes(q[i]), MetaBytes(q[i])>> /\ Len(raws[i]) = 2
    <3>1. \A i \in 1..n : ImgBytes(q[i]) \in Seq(JobBytes) /\ MetaBytes(q[i]) \in Seq(JobBytes)
      BY <2>2, <2>3, JobBytesFacts
    <3>2. \A i \in 1..n : LoadRaw(q[i]) \in Seq(Seq(JobBytes))
      BY <3>1 DEF LoadRaw
    <3>3. raws \in [1..n -> Seq(Seq(JobBytes))] /\ Len(raws) = n
      BY <2>3, <3>2, FunctionIsSeq
    <3>4. \A i \in 1..n : raws[i] = <<ImgBytes(q[i]), MetaBytes(q[i])>>
      BY <2>3 DEF LoadRaw
    <3>5. \A i \in 1..n : Len(raws[i]) = 2
      BY <3>4
    <3> QED BY <2>3, <3>3, <3>4, <3>5, SeqDef
  <2> HIDE DEF tags, raws
  <2>6. /\ names \in Seq(Tags) /\ Len(names) = 2 * n
        /\ \A j \in 1..n : \A k \in 1..2 : names[2 * (j - 1) + k] = tags[j][k]
    <3>1. \A j \in 1..Len(tags) : Len(tags[j]) = 2
      BY <2>4
    <3>2. /\ FlattenSeq(tags) \in Seq(Tags) /\ Len(FlattenSeq(tags)) = 2 * Len(tags)
          /\ \A j \in 1..Len(tags) : \A k \in 1..2 : FlattenSeq(tags)[2 * (j - 1) + k] = tags[j][k]
      BY <2>4, <3>1, PairsFlatten
    <3> QED BY <2>4, <3>2
  <2>7. /\ parts \in Seq(Seq(JobBytes)) /\ Len(parts) = 2 * n
        /\ \A j \in 1..n : \A k \in 1..2 : parts[2 * (j - 1) + k] = raws[j][k]
    BY <2>5, PairsFlatten
  <2> HIDE DEF names, parts
  <2>8. PICK b : b = PackBlob(names, parts)
    OBVIOUS
  <2>9. /\ Len(b.desc) = 2 * n /\ DOMAIN b.desc = 1..(2 * n)
        /\ StartOf(b) \in Nat
        /\ \A i \in 1..(2 * n) :
              /\ b.desc[i].name = names[i] /\ b.desc[i].size = Len(parts[i])
              /\ b.desc[i] \in [name : Tags, offset : Nat, size : Nat]
              /\ \A k \in 1..Len(parts[i]) :
                    b.bytes[StartOf(b) + b.desc[i].offset + k] = parts[i][k]
        /\ b.payload \in Nat
        /\ IsSeq(b.bytes)
        /\ \A j \in 1..Len(b.bytes) : j > StartOf(b) => b.bytes[j] \in JobBytes
    <3>1. /\ Len(b.desc) = Len(names) /\ DOMAIN b.desc = 1..Len(names)
          /\ StartOf(b) \in Nat
          /\ \A i \in 1..Len(names) :
                /\ b.desc[i] = [name |-> names[i], offset |-> Cumulative(Sizes(parts))[i-1],
                                size |-> Len(parts[i])]
                /\ b.desc[i].offset \in Nat /\ b.desc[i].size \in Nat
                /\ \A k \in 1..Len(parts[i]) :
                      b.bytes[StartOf(b) + b.desc[i].offset + k] = parts[i][k]
          /\ b.payload \in Nat
          /\ IsSeq(b.bytes)
          /\ \A j \in 1..Len(b.bytes) : j > StartOf(b) => b.bytes[j] \in JobBytes
      <4>1. Len(parts) = Len(names)
        BY <2>6, <2>7
      <4>2. names \in Seq(Tags) /\ parts \in Seq(Seq(JobBytes)) /\ b = PackBlob(names, parts)
        BY <2>6, <2>7, <2>8
      <4> HIDE DEF JobBytes, Tags
      <4>3. Packed(b, names, parts, JobBytes)
        BY <4>1, <4>2, PackedFacts
      <4> QED BY <4>3 DEF Packed
    <3>2. \A i \in 1..Len(names) : names[i] \in Tags
      BY <2>6, ElementOfSeq
    <3>3. \A i \in 1..Len(names) :
              /\ b.desc[i].name = names[i] /\ b.desc[i].size = Len(parts[i])
              /\ b.desc[i] \in [name : Tags, offset : Nat, size : Nat]
      <4> SUFFICES ASSUME NEW i \in 1..Len(names)
                   PROVE  /\ b.desc[i].name = names[i] /\ b.desc[i].size = Len(parts[i])
                          /\ b.desc[i] \in [name : Tags, offset : Nat, size : Nat]
        OBVIOUS
      <4> DEFINE at == Cumulative(Sizes(parts))[i-1]
                 l == Len(parts[i])
      <4>1. b.desc[i] = [name |-> names[i], offset |-> at, size |-> l]
        BY <3>1
      <4>2. b.desc[i].offset \in Nat /\ b.desc[i].size \in Nat /\ names[i] \in Tags
        BY <3>1, <3>2
      <4> HIDE DEF at, l
      <4>3. b.desc[i].name = names[i] /\ b.desc[i].size = l
        BY <4>1
      <4> QED BY <4>1, <4>2, <4>3 DEF l
    <3> QED BY <2>6, <3>1, <3>3
  <2>10. ASSUME NEW j \in 1..n, NEW k \in 1..2, NEW i, i = 2 * (j - 1) + k
         PROVE  /\ HonestPart(b.desc[i], b.bytes, StartOf(b))
                /\ i \in 1..(2 * n)
                /\ k = 1 => b.desc[i].name = PartName(q[j], IMG_SUFFIX)
    <3>1. i \in 1..(2 * n)
      BY <2>3, <2>10
    <3>2. names[i] = tags[j][k] /\ parts[i] = raws[j][k] /\ q[j] \in Dets
      BY <2>3, <2>6, <2>7, <2>10
    <3>3. /\ Len(ImgBytes(q[j])) = ImgSize
          /\ \A r \in 1..ImgSize : PixelOf(ImgBytes(q[j])[r], q[j])
          /\ Len(MetaBytes(q[j])) \in Nat /\ Len(MetaBytes(q[j])) > 0
          /\ MetaBytes(q[j])[1].det = q[j]
          /\ MetaBytes(q[j])[1].exp = source.handles[q[j]].header.exp
      BY <2>2, <3>2, PartFacts
    <3>4. CASE k = 1
      <4>0. tags[j][1] = PartName(q[j], IMG_SUFFIX) /\ raws[j][1] = ImgBytes(q[j])
        <5>1. tags[j] = <<PartName(q[j], IMG_SUFFIX), PartName(q[j], META_SUFFIX)>>
          BY <2>4
        <5>2. raws[j] = <<ImgBytes(q[j]), MetaBytes(q[j])>>
          BY <2>5
        <5> QED BY <5>1, <5>2
      <4>1. b.desc[i].name = PartName(q[j], IMG_SUFFIX) /\ parts[i] = ImgBytes(q[j])
        BY <2>9, <3>1, <3>2, <3>4, <4>0
      <4>2. /\ b.desc[i].size = Len(parts[i]) /\ b.desc[i].name[1] = q[j]
            /\ \A r \in 1..Len(parts[i]) : b.bytes[StartOf(b) + b.desc[i].offset + r] = parts[i][r]
        <5>1. /\ b.desc[i].size = Len(parts[i])
              /\ \A r \in 1..Len(parts[i]) : b.bytes[StartOf(b) + b.desc[i].offset + r] = parts[i][r]
          BY <2>9, <3>1
        <5>2. b.desc[i].name[1] = q[j]
          BY <4>1 DEF PartName
        <5> QED BY <5>1, <5>2
      <4>3. /\ b.desc[i].size = ImgSize
            /\ \A r \in 1..ImgSize : PixelOf(b.bytes[StartOf(b) + b.desc[i].offset + r], q[j])
        BY <3>3, <4>1, <4>2
      <4> QED BY <3>1, <3>2, <3>4, <4>1, <4>2, <4>3 DEF HonestPart
    <3>5. CASE k = 2
      <4>0. tags[j][2] = PartName(q[j], META_SUFFIX) /\ raws[j][2] = MetaBytes(q[j])
        BY <2>4, <2>5
      <4>1. b.desc[i].name = PartName(q[j], META_SUFFIX) /\ parts[i] = MetaBytes(q[j])
        BY <2>9, <3>1, <3>2, <3>5, <4>0
      <4>2. /\ b.desc[i].size > 0 /\ b.desc[i].name[1] = q[j]
            /\ b.bytes[StartOf(b) + b.desc[i].offset + 1] = MetaBytes(q[j])[1]
        <5>1. /\ b.desc[i].size = Len(parts[i])
              /\ \A r \in 1..Len(parts[i]) : b.bytes[StartOf(b) + b.desc[i].offset + r] = parts[i][r]
          BY <2>9, <3>1
        <5>2. b.desc[i].name[1] = q[j]
          BY <4>1 DEF PartName
        <5>3. Len(parts[i]) \in Nat /\ Len(parts[i]) > 0 /\ 1 \in 1..Len(parts[i])
          BY <3>3, <4>1
        <5> QED BY <4>1, <5>1, <5>2, <5>3
      <4> QED BY <3>1, <3>2, <3>3, <3>5, <4>1, <4>2 DEF HonestPart
    <3> QED BY <3>4, <3>5
  <2>11. Honest(b.desc, b.bytes, StartOf(b))
    <3>1. ASSUME NEW i \in DOMAIN b.desc PROVE HonestPart(b.desc[i], b.bytes, StartOf(b))
      <4>1. 2 \in Nat /\ n \in Nat /\ i \in 1..(2 * n)
        BY <2>3, <2>9
      <4>2. \E j \in 1..n : \E k \in 1..2 : i = 2 * (j - 1) + k
        BY <4>1, SlotsCover
      <4>3. PICK j \in 1..n, k \in 1..2 : i = 2 * (j - 1) + k
        BY <4>2
      <4> QED BY <2>10, <4>3
    <3>2. ASSUME NEW d \in Dets PROVE \E i \in DOMAIN b.desc : b.desc[i].name = PartName(d, IMG_SUFFIX)
      <4>1. PICK j \in 1..n : q[j] = d
        BY <2>3
      <4>2. 2 * (j - 1) + 1 \in 1..(2 * n) /\ b.desc[2 * (j - 1) + 1].name = PartName(q[j], IMG_SUFFIX)
        <5>1. PICK i : i = 2 * (j - 1) + 1
          OBVIOUS
        <5>2. 1 \in 1..2
          OBVIOUS
        <5>3. i \in 1..(2 * n) /\ b.desc[i].name = PartName(q[j], IMG_SUFFIX)
          BY <2>10, <5>1, <5>2
        <5> QED BY <5>1, <5>3
      <4> QED BY <2>9, <4>1, <4>2
    <3> QED BY <3>1, <3>2 DEF Honest
  <2>12. Framed(b)
    <3>1. b.desc \in Seq(Descriptors)
      <4>1. b.desc = [i \in 1..(2 * n) |-> b.desc[i]]
        <5>1. b.desc = [i \in DOMAIN names |->
                 [name |-> names[i], offset |-> Cumulative([k \in DOMAIN names |-> Len(parts[k])])[i-1],
                  size |-> [k \in DOMAIN names |-> Len(parts[k])][i]]]
          BY <2>8 DEF PackBlob
        <5>2. b.desc = [i \in DOMAIN b.desc |-> b.desc[i]]
          BY <5>1
        <5> QED BY <2>9, <5>2
      <4>2. 2 * n \in Nat /\ \A i \in 1..(2 * n) : b.desc[i] \in Descriptors
        BY <2>3, <2>9 DEF Descriptors, Tags
      <4>3. b.desc \in [1..(2 * n) -> Descriptors]
        BY <4>1, <4>2
      <4> QED BY <4>2, <4>3, SeqDef
    <3>2. \A j \in 1..Len(b.bytes) : j > StartOf(b) => b.bytes[j].job = job
      BY <2>2, <2>9, JobBytesFacts
    <3>3. b = [magic |-> b.magic, desc |-> b.desc, payload |-> b.payload, bytes |-> b.bytes]
      BY <2>8 DEF PackBlob
    <3> QED BY <2>9, <3>1, <3>2, <3>3 DEF Framed
  <2>13. body' = b
    BY <2>1, <2>8
  <2> QED BY <2>1, <2>2, <2>11, <2>12, <2>13, SendBytes
<1> QED BY <1>1, <1>2

\* Whatever a producer does to its body, the bytes behind the framing are of
\* this job (Mangle).
LEMMA MangleBytes ==
    ASSUME BytesInv, Mangle
    PROVE  BytesInv'
<1>1. /\ pc = "send" /\ pc' = "send" /\ mangled' = TRUE
      /\ UNCHANGED <<mode, job, input, taken, forks, shm, layout, given>>
  BY DEF Mangle
<1> DEFINE b == body
<1>3. PICK c : c = body'
  OBVIOUS
<1>4. /\ Framed(b)
      /\ b = [magic |-> b.magic, desc |-> b.desc, payload |-> b.payload, bytes |-> b.bytes]
      /\ b.desc \in Seq(Descriptors) /\ b.payload \in Nat /\ IsSeq(b.bytes)
      /\ \A j \in 1..Len(b.bytes) : j > StartOf(b) => b.bytes[j].job = job
      /\ Len(b.bytes) \in Nat
      /\ DOMAIN b.desc = 1..Len(b.desc) /\ \A i \in DOMAIN b.desc : b.desc[i] \in Descriptors
  <2>1. Framed(b)
    BY <1>1 DEF BytesInv, BodyInv
  <2>2. b.desc \in Seq(Descriptors)
    BY <2>1 DEF Framed
  <2>3. DOMAIN b.desc = 1..Len(b.desc) /\ \A i \in DOMAIN b.desc : b.desc[i] \in Descriptors
    BY <2>2, LenProperties, ElementOfSeq
  <2> QED BY <2>1, <2>3 DEF Framed, IsSeq
<1> DEFINE Moved(i) == [b.desc[i] EXCEPT !.offset = @ + 1]
           Longer(i) == [b.desc[i] EXCEPT !.size = @ + 1]
           Shorter(i) == [b.desc[i] EXCEPT !.size = @ - 1]
           Named(i, j) == [b.desc[i] EXCEPT !.name = b.desc[j].name]
           Padding(n) == [i \in 1..n |-> [kind |-> "pad", job |-> job]]
<1>5. \/ c = [b EXCEPT !.magic = FALSE]
      \/ \E n \in 0..Len(b.bytes)-1 : c = [b EXCEPT !.bytes = SubSeq(b.bytes, 1, n)]
      \/ \E n \in {1, SHM_SIZE} : c = [b EXCEPT !.bytes = b.bytes \o Padding(n)]
      \/ \E n \in {1, MAX_PUSH_BYTES} : c = [b EXCEPT !.payload = b.payload + n]
      \/ \E i \in DOMAIN b.desc : c = [b EXCEPT !.desc = [b.desc EXCEPT ![i] = Moved(i)]]
      \/ \E i \in DOMAIN b.desc : c = [b EXCEPT !.desc = [b.desc EXCEPT ![i] = Longer(i)]]
      \/ \E i \in {k \in DOMAIN b.desc : b.desc[k].size > 0} :
            c = [b EXCEPT !.desc = [b.desc EXCEPT ![i] = Shorter(i)]]
      \/ \E i \in DOMAIN b.desc, j \in DOMAIN b.desc :
            c = [b EXCEPT !.desc = [b.desc EXCEPT ![i] = Named(i, j)]]
  <2>1. CASE body' = [body EXCEPT !.magic = FALSE]
    BY <1>3, <2>1
  <2>2. ASSUME NEW n \in 0..Len(b.bytes)-1, body' = [body EXCEPT !.bytes = SubSeq(@, 1, n)]
        PROVE  c = [b EXCEPT !.bytes = SubSeq(b.bytes, 1, n)]
    BY <1>3, <2>2
  <2>3. ASSUME NEW n \in {1, SHM_SIZE},
               body' = [body EXCEPT !.bytes = @ \o [i \in 1..n |-> [kind |-> "pad", job |-> job]]]
        PROVE  c = [b EXCEPT !.bytes = b.bytes \o Padding(n)]
    BY <1>3, <2>3
  <2>4. ASSUME NEW n \in {1, MAX_PUSH_BYTES}, body' = [body EXCEPT !.payload = @ + n]
        PROVE  c = [b EXCEPT !.payload = b.payload + n]
    BY <1>3, <2>4
  <2>5. ASSUME NEW i \in DOMAIN b.desc, body' = [body EXCEPT !.desc[i].offset = @ + 1]
        PROVE  c = [b EXCEPT !.desc = [b.desc EXCEPT ![i] = Moved(i)]]
    BY <1>3, <1>4, <2>5
  <2>6. ASSUME NEW i \in DOMAIN b.desc, body' = [body EXCEPT !.desc[i].size = @ + 1]
        PROVE  c = [b EXCEPT !.desc = [b.desc EXCEPT ![i] = Longer(i)]]
    BY <1>3, <1>4, <2>6
  <2>7. ASSUME NEW i \in DOMAIN b.desc, body' = [body EXCEPT !.desc[i].size = @ - 1]
        PROVE  c = [b EXCEPT !.desc = [b.desc EXCEPT ![i] = Shorter(i)]]
    BY <1>3, <1>4, <2>7
  <2>8. ASSUME NEW i \in DOMAIN b.desc, NEW j \in DOMAIN b.desc,
               body' = [body EXCEPT !.desc[i].name = body.desc[j].name]
        PROVE  c = [b EXCEPT !.desc = [b.desc EXCEPT ![i] = Named(i, j)]]
    BY <1>3, <1>4, <2>8
  <2> HIDE DEF Moved, Longer, Shorter, Named, Padding
  <2> QED BY <2>1, <2>2, <2>3, <2>4, <2>5, <2>6, <2>7, <2>8 DEF Mangle
<1> HIDE DEF b
<1>6. ASSUME NEW i \in DOMAIN b.desc, NEW x \in Descriptors,
             c = [b EXCEPT !.desc = [b.desc EXCEPT ![i] = x]]
      PROVE  Framed(c)
  <2> DEFINE e == [b.desc EXCEPT ![i] = x]
  <2>1. e \in Seq(Descriptors) /\ Len(e) = Len(b.desc)
    BY <1>4, DescriptorChange
  <2> HIDE DEF e
  <2>2. c = [magic |-> b.magic, desc |-> e, payload |-> b.payload, bytes |-> b.bytes]
    BY <1>4, <1>6 DEF e
  <2> QED BY <1>4, <2>1, <2>2, FramedChange
<1>7. ASSUME NEW bytes, IsSeq(bytes), \A j \in 1..Len(bytes) : j > StartOf(b) => bytes[j].job = job,
             c = [b EXCEPT !.bytes = bytes]
      PROVE  Framed(c)
  <2>1. c = [magic |-> b.magic, desc |-> b.desc, payload |-> b.payload, bytes |-> bytes]
    BY <1>4, <1>7
  <2> QED BY <1>4, <1>7, <2>1, FramedChange
<1>8. Framed(c)
  <2>1. CASE c = [b EXCEPT !.magic = FALSE]
    <3>1. c = [magic |-> FALSE, desc |-> b.desc, payload |-> b.payload, bytes |-> b.bytes]
      BY <1>4, <2>1
    <3> QED BY <1>4, <3>1, FramedChange
  <2>2. ASSUME NEW n \in 0..Len(b.bytes)-1, c = [b EXCEPT !.bytes = SubSeq(b.bytes, 1, n)]
        PROVE  Framed(c)
    <3> DEFINE s == SubSeq(b.bytes, 1, n)
               S == {b.bytes[j] : j \in 1..n}
    <3>1. /\ s \in Seq(S) /\ Len(s) = (IF 1 <= n THEN n - 1 + 1 ELSE 0)
          /\ \A j \in 1..(n - 1 + 1) : s[j] = b.bytes[1 + j - 1]
      <4>1. \A j \in 1..n : b.bytes[j] \in S
        OBVIOUS
      <4> HIDE DEF S
      <4> QED BY <1>4, <4>1, SubSeqProperties
    <3>2. Len(s) = n /\ \A j \in 1..n : s[j] = b.bytes[j]
      <4>1. n \in Nat /\ n - 1 + 1 = n /\ \A j \in 1..n : 1 + j - 1 = j
        BY <1>4
      <4> QED BY <3>1, <4>1
    <3>3. IsSeq(s)
      <4>1. s \in [1..Len(s) -> S] /\ Len(s) \in Nat
        BY <3>1, LenProperties
      <4> HIDE DEF s
      <4> QED BY <4>1 DEF IsSeq
    <3>4. \A j \in 1..Len(s) : j > StartOf(b) => s[j].job = job
      BY <1>4, <3>2
    <3> QED BY <1>7, <2>2, <3>3, <3>4
  <2>3. ASSUME NEW n \in {1, SHM_SIZE}, c = [b EXCEPT !.bytes = b.bytes \o Padding(n)]
        PROVE  Framed(c)
    <3> DEFINE S == {b.bytes[j] : j \in 1..Len(b.bytes)} \cup {[kind |-> "pad", job |-> job]}
               p == Padding(n)
               s == b.bytes \o p
    <3>1. n \in Nat
      BY DataPathAssumption
    <3>2. b.bytes \in Seq(S)
      <4>1. b.bytes \in Seq({b.bytes[j] : j \in 1..Len(b.bytes)})
        BY <1>4, SequenceOfAny
      <4> QED BY <4>1, SeqMonotonic
    <3>3. p \in Seq(S) /\ Len(p) = n /\ \A j \in 1..n : p[j].job = job
      <4>1. p \in [1..n -> S]
        OBVIOUS
      <4>2. p = [j \in 1..n |-> p[j]]
        OBVIOUS
      <4>3. Len(p) = n
        BY <3>1, <4>2, FunctionIsSeq
      <4> QED BY <3>1, <4>1, <4>3, SeqDef
    <3> HIDE DEF S, p
    <3>4. /\ s \in Seq(S) /\ Len(s) = Len(b.bytes) + n
          /\ \A j \in 1..(Len(b.bytes) + n) :
                s[j] = IF j <= Len(b.bytes) THEN b.bytes[j] ELSE p[j - Len(b.bytes)]
      BY <3>2, <3>3, ConcatProperties
    <3> HIDE DEF s
    <3>5. IsSeq(s)
      <4>1. s \in [1..Len(s) -> S] /\ Len(s) \in Nat
        BY <3>4, LenProperties
      <4> QED BY <4>1 DEF IsSeq
    <3>6. ASSUME NEW j \in 1..Len(s), j > StartOf(b) PROVE s[j].job = job
      <4>1. CASE j <= Len(b.bytes)
        <5>1. j \in 1..Len(b.bytes) /\ s[j] = b.bytes[j]
          BY <1>4, <3>1, <3>4, <4>1
        <5> QED BY <1>4, <3>6, <5>1
      <4>2. CASE ~(j <= Len(b.bytes))
        <5>1. j - Len(b.bytes) \in 1..n /\ s[j] = p[j - Len(b.bytes)]
          BY <1>4, <3>1, <3>4, <4>2
        <5> QED BY <3>3, <5>1
      <4> QED BY <4>1, <4>2
    <3>7. c = [b EXCEPT !.bytes = s]
      BY <2>3 DEF s, p
    <3> QED BY <1>7, <3>5, <3>6, <3>7
  <2>4. ASSUME NEW n \in {1, MAX_PUSH_BYTES}, c = [b EXCEPT !.payload = b.payload + n]
        PROVE  Framed(c)
    <3>1. b.payload + n \in Nat
      BY <1>4, DataPathAssumption
    <3>2. c = [magic |-> b.magic, desc |-> b.desc, payload |-> b.payload + n, bytes |-> b.bytes]
      BY <1>4, <2>4
    <3> QED BY <1>4, <3>1, <3>2, FramedChange
  <2>5. \A i \in DOMAIN b.desc : Moved(i) \in Descriptors /\ Longer(i) \in Descriptors
    <3> SUFFICES ASSUME NEW x \in Descriptors
                 PROVE  /\ [x EXCEPT !.offset = x.offset + 1] \in Descriptors
                        /\ [x EXCEPT !.size = x.size + 1] \in Descriptors
      BY <1>4
    <3> QED BY DEF Descriptors
  <2>6. \A i \in DOMAIN b.desc : b.desc[i].size > 0 => Shorter(i) \in Descriptors
    <3> SUFFICES ASSUME NEW x \in Descriptors, x.size > 0
                 PROVE  [x EXCEPT !.size = x.size - 1] \in Descriptors
      BY <1>4
    <3> QED BY DEF Descriptors
  <2>7. \A i \in DOMAIN b.desc, j \in DOMAIN b.desc : Named(i, j) \in Descriptors
    BY <1>4 DEF Descriptors
  <2> HIDE DEF Moved, Longer, Shorter, Named, Padding
  <2> QED BY <1>5, <1>6, <2>1, <2>2, <2>3, <2>4, <2>5, <2>6, <2>7
<1>9. DirInv' /\ HeadersInv' /\ SourceInv' /\ ShmInv'
  BY <1>1, SameSource DEF Resolved
<1>10. BodyInv'
  <2>1. Framed(c)' <=> Framed(c)
    BY <1>1 DEF Framed
  <2> QED BY <1>1, <1>3, <1>8, <2>1 DEF BodyInv
<1>11. GivenInv' /\ RunInv' /\ SegmentBytesInv' /\ LayoutInv'
  BY <1>1 DEF GivenInv, RunInv, SegmentBytesInv, LayoutInv, BytesInv, input
<1> QED BY <1>9, <1>10, <1>11 DEF BytesInv

\* A body that does not do leaves its bytes in the block, and no job.
LEMMA RefusedBytes ==
    ASSUME BytesInv, TooLong \/ BadHeader
    PROVE  BytesInv'
<1>1. Forget /\ \E n : shm' = Written(n)
  BY DEF TooLong, BadHeader, Fail, End
<1> QED BY <1>1, WrittenFacts, EndBytes DEF BytesInv

\* Of a body that is accepted, the block holds every byte of every part (Receive).
LEMMA ReceiveBytes ==
    ASSUME BytesInv, Receive
    PROVE  BytesInv'
<1> DEFINE b == body
           l == ParseLayout(body)
           start == StartOf(body)
<1>1. /\ pc = "send" /\ Len(b.bytes) <= Len(shm)
      /\ shm' = Written(Len(b.bytes))
      /\ \/ Fail
         \/ /\ l # Malformed /\ layout' = l /\ pc' = "decode"
            /\ UNCHANGED <<mode, job, input, taken, mangled, given>>
  BY DEF Receive
<1>2. ShmInv' /\ \A j \in 1..SHM_SIZE : shm'[j] = IF j <= Len(b.bytes) THEN b.bytes[j] ELSE shm[j]
  BY <1>1, WrittenFacts DEF BytesInv
<1>3. CASE Fail
  BY <1>2, <1>3, EndBytes DEF Fail, End
<1>4. CASE ~Fail
  <2>1. /\ l # Malformed /\ layout' = l /\ pc' = "decode"
        /\ UNCHANGED <<mode, job, input, taken, mangled, given>>
    BY <1>1, <1>4
  <2>2. Framed(b) /\ (~mangled => Honest(b.desc, b.bytes, start))
    BY <1>1 DEF BytesInv, BodyInv
  <2>3. /\ b.desc \in Seq(Descriptors) /\ b.payload \in Nat /\ Len(b.bytes) \in Nat
        /\ \A j \in 1..Len(b.bytes) : j > start => b.bytes[j].job = job
    BY <2>2 DEF Framed, IsSeq
  <2>4. start \in Nat /\ start = HEADER_SIZE + DescriptorRegionSize(b.desc)
    <3>1. \A x, y \in Nat : x * y \in Nat
      OBVIOUS
    <3>2. Len(b.desc) \in Nat
      BY <2>3, LenProperties
    <3>3. DESC_SIZE * Len(b.desc) \in Nat /\ HEADER_SIZE \in Nat
      BY <3>1, <3>2, WireFormatAssumption
    <3> QED BY <3>3 DEF StartOf, DescriptorRegionSize
  <2>5. /\ l = [i \in DOMAIN b.desc |-> [b.desc[i] EXCEPT !.offset = start + @]]
        /\ \A i \in DOMAIN l : l[i].offset + l[i].size <= Len(b.bytes)
    <3>1. l = [i \in DOMAIN b.desc |-> [b.desc[i] EXCEPT !.offset = start + @]]
      BY <2>1, <2>4 DEF ParseLayout
    <3>2. \A i \in DOMAIN l : l[i].offset + l[i].size <= Len(b.bytes)
      BY <2>1, <2>3, LayoutInBounds
    <3> QED BY <3>1, <3>2
  <2>6. DOMAIN b.desc = 1..Len(b.desc) /\ Len(b.desc) \in Nat /\ DOMAIN l = DOMAIN b.desc
    BY <2>3, <2>5, LenProperties
  <2> HIDE DEF l, start, b
  <2>7. ASSUME NEW i \in DOMAIN l
        PROVE  /\ l[i] \in Descriptors
               /\ b.desc[i].offset \in Nat
               /\ l[i].name = b.desc[i].name
               /\ l[i].offset = start + b.desc[i].offset
               /\ l[i].size = b.desc[i].size
               /\ \A k \in 1..l[i].size : /\ shm'[l[i].offset + k] = b.bytes[start + b.desc[i].offset + k]
                                          /\ shm'[l[i].offset + k].job = job
    <3>1. b.desc[i] \in Descriptors
      BY <2>3, <2>6, ElementOfSeq
    <3>2. /\ l[i].name = b.desc[i].name /\ l[i].offset = start + b.desc[i].offset
          /\ l[i].size = b.desc[i].size
          /\ b.desc[i].offset \in Nat /\ b.desc[i].size \in Nat
          /\ l[i] \in Descriptors
      BY <2>4, <2>5, <2>6, <3>1 DEF Descriptors
    <3>3. ASSUME NEW k \in 1..l[i].size
          PROVE  /\ shm'[l[i].offset + k] = b.bytes[start + b.desc[i].offset + k]
                 /\ shm'[l[i].offset + k].job = job
      <4>1. Len(b.bytes) <= SHM_SIZE /\ SHM_SIZE \in Nat
        BY <1>1, DataPathAssumption DEF BytesInv, ShmInv, b
      <4>2. l[i].offset + l[i].size <= Len(b.bytes)
        BY <2>5
      <4>3. /\ l[i].offset + k \in 1..SHM_SIZE /\ l[i].offset + k \in 1..Len(b.bytes)
            /\ l[i].offset + k <= Len(b.bytes) /\ l[i].offset + k > start
        <5>1. \A s, o, z, n, m \in Nat : \A j \in 1..z :
                 (s + o) + z <= n /\ n <= m =>
                    /\ (s + o) + j \in 1..m /\ (s + o) + j \in 1..n
                    /\ (s + o) + j <= n /\ (s + o) + j > s
          OBVIOUS
        <5> QED BY <2>3, <2>4, <3>2, <4>1, <4>2, <5>1
      <4>4. shm'[l[i].offset + k] = b.bytes[l[i].offset + k]
        BY <1>2, <4>3 DEF b
      <4>5. b.bytes[l[i].offset + k].job = job
        BY <2>3, <4>3
      <4> QED BY <3>2, <4>4, <4>5
    <3> QED BY <3>1, <3>2, <3>3
  <2>8. l \in Seq(Descriptors)
    <3>1. l \in [1..Len(b.desc) -> Descriptors]
      BY <2>5, <2>6, <2>7
    <3> QED BY <2>6, <3>1, SeqDef
  <2>9. \A x, d : PixelOf(x, d)' <=> PixelOf(x, d)
    BY <2>1 DEF PixelOf, FileOf, input, taken
  <2>10. PICK p : p = l
    OBVIOUS
  <2>11. PICK s : s = shm'
    OBVIOUS
  <2>12. ASSUME NEW i \in DOMAIN l, HonestPart(b.desc[i], b.bytes, start)
         PROVE  HonestPart(p[i], s, 0)'
    <3> DEFINE d == b.desc[i].name[1]
    <3>1. /\ p[i].name = b.desc[i].name /\ p[i].size = b.desc[i].size
          /\ p[i].offset \in Nat
          /\ \A k \in 1..p[i].size : s[p[i].offset + k] = b.bytes[start + b.desc[i].offset + k]
      BY <2>4, <2>7, <2>10, <2>11
    <3>2. \A k \in 1..p[i].size : s[0 + p[i].offset + k] = b.bytes[start + b.desc[i].offset + k]
      <4>1. 0 + p[i].offset = p[i].offset
        BY <3>1
      <4> QED BY <3>1, <4>1
    <3>3. d \in Dets
      BY <2>12 DEF HonestPart
    <3>4. CASE /\ b.desc[i].name = PartName(d, IMG_SUFFIX) /\ b.desc[i].size = ImgSize
               /\ \A k \in 1..ImgSize : PixelOf(b.bytes[start + b.desc[i].offset + k], d)
      <4>0. PICK e : e = d
        OBVIOUS
      <4>1. \A k \in 1..ImgSize : PixelOf(s[0 + p[i].offset + k], e)
        BY <3>1, <3>2, <3>4, <4>0
      <4>3. \A k \in 1..ImgSize : PixelOf(s[0 + p[i].offset + k], e)'
        BY <2>9, <4>1
      <4>4. p[i].name[1] = e /\ e \in Dets /\ p[i].name = PartName(e, IMG_SUFFIX) /\ p[i].size = ImgSize
        BY <3>1, <3>3, <3>4, <4>0
      <4> QED BY <4>3, <4>4 DEF HonestPart
    <3>5. CASE /\ b.desc[i].name = PartName(d, META_SUFFIX) /\ b.desc[i].size > 0
               /\ b.bytes[start + b.desc[i].offset + 1].det = d
               /\ b.bytes[start + b.desc[i].offset + 1].exp = source.handles[d].header.exp
      <4>1. s[0 + p[i].offset + 1] = b.bytes[start + b.desc[i].offset + 1]
        <5>1. 1 \in 1..p[i].size
          BY <2>7, <3>1, <3>5 DEF Descriptors
        <5> QED BY <3>2, <5>1
      <4> QED BY <2>1, <3>1, <3>3, <3>5, <4>1 DEF HonestPart, taken
    <3> QED BY <2>12, <3>4, <3>5 DEF HonestPart
  <2>13. ~mangled' => Honest(layout, shm, 0)'
    <3> SUFFICES ASSUME ~mangled' PROVE Honest(p, s, 0)'
      BY <2>1, <2>10, <2>11
    <3>1. Honest(b.desc, b.bytes, start)
      BY <2>1, <2>2
    <3>2. \A i \in DOMAIN p : HonestPart(p[i], s, 0)'
      BY <2>6, <2>12, <2>10, <3>1 DEF Honest
    <3>3. \A d \in Dets : \E i \in DOMAIN p : p[i].name = PartName(d, IMG_SUFFIX)
      BY <2>6, <2>7, <2>10, <3>1 DEF Honest
    <3> QED BY <3>2, <3>3 DEF Honest
  <2>14. LayoutInv'
    BY <2>1, <2>7, <2>8, <2>13 DEF LayoutInv
  <2>15. DirInv' /\ HeadersInv' /\ SourceInv'
    BY <1>1, <2>1 DEF BytesInv, DirInv, HeadersInv, SourceInv, FileOf, Resolved, input, taken
  <2>16. GivenInv' /\ RunInv' /\ SegmentBytesInv' /\ BodyInv'
    BY <1>1, <2>1 DEF GivenInv, RunInv, SegmentBytesInv, BodyInv, BytesInv, input
  <2> QED BY <1>2, <2>14, <2>15, <2>16 DEF BytesInv
<1> QED BY <1>3, <1>4

\* The task is handed the bytes of this job's parts (Decode).
LEMMA DecodeBytes ==
    ASSUME BytesInv, Decode
    PROVE  BytesInv'
<1> DEFINE parts == SplitParts(layout)
<1>1. CASE Fail /\ UNCHANGED shm
  <2>1. ShmInv'
    BY <1>1 DEF BytesInv, ShmInv, IsSeq
  <2> QED BY <1>1, <2>1, EndBytes DEF Fail, End
<1>2. CASE ~(Fail /\ UNCHANGED shm)
  <2>1. /\ pc = "decode" /\ Decodes(parts) /\ pc' = "run"
        /\ given' = [s \in DOMAIN parts |-> [img |-> View(parts[s].img), meta |-> View(parts[s].meta)[1]]]
        /\ UNCHANGED <<mode, job, input, taken, forks, wire, mishaps>>
    BY <1>2 DEF Decode
  <2>2. /\ layout \in Seq(Descriptors)
        /\ \A i \in DOMAIN layout : \A k \in 1..layout[i].size : shm[layout[i].offset + k].job = job
        /\ ~mangled => Honest(layout, shm, 0)
    BY <2>1 DEF BytesInv, LayoutInv
  <2>3. /\ DOMAIN parts = {layout[i].name[1] : i \in DOMAIN layout}
        /\ \A s \in DOMAIN parts :
              /\ \E i \in DOMAIN layout : /\ parts[s].img = layout[i]
                                          /\ layout[i].name = PartName(s, IMG_SUFFIX)
              /\ \E i \in DOMAIN layout : /\ parts[s].meta = layout[i]
                                          /\ layout[i].name = PartName(s, META_SUFFIX)
    BY <2>1, <2>2, PartsFacts DEF Decodes
  <2>4. \A s \in DOMAIN parts : View(parts[s].meta) # <<>>
    BY <2>1 DEF Decodes, Loads
  <2> HIDE DEF parts
  <2>5. \A i \in DOMAIN layout : layout[i] \in Descriptors
    BY <2>2, ElementOfSeq, LenProperties
  <2>6. \A x, d : PixelOf(x, d)' <=> PixelOf(x, d)
    BY <2>1, SameSource DEF Resolved, wire
  <2>7. ASSUME NEW s \in DOMAIN given'
        PROVE  /\ given'[s].meta.job = job
               /\ \A k \in DOMAIN given'[s].img : given'[s].img[k].job = job
               /\ ~touched /\ ~mangled =>
                     /\ s \in Dets
                     /\ given'[s].meta.det = s
                     /\ given'[s].meta.exp = source.handles[s].header.exp
                     /\ \A k \in DOMAIN given'[s].img : PixelOf(given'[s].img[k], s)
    <3>1. s \in DOMAIN parts
      BY <2>1
    <3>2. PICK i \in DOMAIN layout : /\ parts[s].img = layout[i]
                                     /\ layout[i].name = PartName(s, IMG_SUFFIX)
      BY <2>3, <3>1
    <3>3. PICK j \in DOMAIN layout : /\ parts[s].meta = layout[j]
                                     /\ layout[j].name = PartName(s, META_SUFFIX)
      BY <2>3, <3>1
    <3>4. given'[s].img = View(layout[i]) /\ given'[s].meta = View(layout[j])[1]
      BY <2>1, <3>1, <3>2, <3>3
    <3>5. /\ DOMAIN View(layout[i]) = 1..layout[i].size
          /\ \A k \in 1..layout[i].size : View(layout[i])[k] = shm[layout[i].offset + k]
      BY <2>5, ViewFacts
    <3>6. 1 \in 1..layout[j].size /\ View(layout[j])[1] = shm[layout[j].offset + 1]
      BY <2>4, <2>5, <3>1, <3>3, ViewFacts
    <3>7. layout[i].offset \in Nat /\ layout[j].offset \in Nat
      BY <2>5 DEF Descriptors
    <3>8. ASSUME ~touched, ~mangled
          PROVE  /\ s \in Dets
                 /\ given'[s].meta.det = s
                 /\ given'[s].meta.exp = source.handles[s].header.exp
                 /\ \A k \in DOMAIN given'[s].img : PixelOf(given'[s].img[k], s)
      <4>1. HonestPart(layout[i], shm, 0) /\ HonestPart(layout[j], shm, 0)
        BY <2>2, <3>8 DEF Honest
      <4>2. /\ layout[i].name[1] = s /\ layout[j].name[1] = s
            /\ layout[i].name # PartName(s, META_SUFFIX)
            /\ layout[j].name # PartName(s, IMG_SUFFIX)
        BY <3>2, <3>3 DEF PartName, IMG_SUFFIX, META_SUFFIX
      <4>3. /\ s \in Dets /\ layout[i].size = ImgSize
            /\ \A k \in 1..ImgSize : PixelOf(shm[0 + layout[i].offset + k], s)
        BY <4>1, <4>2 DEF HonestPart
      <4>4. /\ shm[0 + layout[j].offset + 1].det = s
            /\ shm[0 + layout[j].offset + 1].exp = source.handles[s].header.exp
        BY <4>1, <4>2 DEF HonestPart
      <4>5. 0 + layout[i].offset = layout[i].offset /\ 0 + layout[j].offset = layout[j].offset
        BY <3>7
      <4> QED BY <3>4, <3>5, <3>6, <4>3, <4>4, <4>5
    <3> QED BY <2>2, <3>4, <3>5, <3>6, <3>8
  <2>8. ~touched /\ ~mangled => DOMAIN given' = Dets
    <3> SUFFICES ASSUME ~touched, ~mangled PROVE DOMAIN given' = Dets
      OBVIOUS
    <3>1. DOMAIN given' \subseteq Dets
      BY <2>7
    <3>2. ASSUME NEW d \in Dets PROVE d \in DOMAIN given'
      <4>1. PICK i \in DOMAIN layout : layout[i].name = PartName(d, IMG_SUFFIX)
        BY <2>2 DEF Honest
      <4>2. layout[i].name[1] = d
        BY <4>1 DEF PartName
      <4> QED BY <2>1, <2>3, <4>2
    <3> QED BY <3>1, <3>2
  <2>9. PICK g : g = given'
    OBVIOUS
  <2>10. GivenInv'
    <3>1. job' = job /\ touched' = touched /\ mangled' = mangled /\ source' = source /\ pc' = "run"
      BY <2>1 DEF input, taken, wire
    <3> QED BY <2>6, <2>7, <2>8, <2>9, <3>1 DEF GivenInv
  <2>11. DirInv' /\ HeadersInv' /\ SourceInv' /\ ShmInv'
    BY <2>1, SameSource DEF Resolved, wire
  <2>12. RunInv' /\ SegmentBytesInv' /\ BodyInv' /\ LayoutInv'
    BY <2>1 DEF RunInv, SegmentBytesInv, BodyInv, LayoutInv
  <2> QED BY <2>10, <2>11, <2>12 DEF BytesInv
<1> QED BY <1>1, <1>2

\* An ingest's task gets its detectors' own slots (Wrap).
LEMMA WrapBytes ==
    ASSUME BytesInv, Wrap
    PROVE  BytesInv'
<1>0. CASE Fail /\ UNCHANGED shm
  <2>1. ShmInv'
    BY <1>0 DEF BytesInv, ShmInv, IsSeq
  <2> QED BY <1>0, <2>1, EndBytes DEF Fail, End
<1> SUFFICES ASSUME ~(Fail /\ UNCHANGED shm) PROVE BytesInv'
  BY <1>0
<1>1. /\ pc = "forked" /\ AllDone /\ pc' = "run"
      /\ given' = [d \in DOMAIN source.handles |->
                      [img  |-> SubSeq(segment, SlotAt(d) + 1, SlotAt(d) + ImgSize),
                       meta |-> [kind |-> "meta", job |-> job, det |-> source.handles[d].header.det,
                                 exp |-> source.handles[d].header.exp, k |-> 1]]]
      /\ UNCHANGED <<mode, job, input, taken, forks, wire, mishaps>>
  BY DEF Wrap
<1>2. DOMAIN source.handles = Dets /\ \A d \in Dets : source.handles[d].header.det = d
  BY <1>1 DEF BytesInv, SourceInv, Resolved
<1>3. \A d \in Dets : \A k \in 1..ImgSize : PixelOf(segment[SlotAt(d) + k], d)
  BY <1>1 DEF BytesInv, SegmentBytesInv, AllDone
<1>4. \A x, d : PixelOf(x, d)' <=> PixelOf(x, d)
  BY <1>1, SameSource DEF Resolved, wire
<1>5. ASSUME NEW d \in Dets
      PROVE  /\ given'[d].meta.job = job /\ given'[d].meta.det = d
             /\ given'[d].meta.exp = source.handles[d].header.exp
             /\ \A k \in DOMAIN given'[d].img : PixelOf(given'[d].img[k], d)
  <2> DEFINE from == SlotAt(d) + 1
             to == SlotAt(d) + ImgSize
             S == {segment[i] : i \in from..to}
             s == SubSeq(segment, from, to)
  <2>1. SlotAt(d) \in Nat /\ ImgSize \in Nat
    BY <1>2, SlotFacts, DataPathAssumption
  <2>2. /\ from \in Int /\ to \in Int
        /\ (IF from <= to THEN to - from + 1 ELSE 0) = ImgSize /\ to - from + 1 = ImgSize
        /\ \A k \in 1..ImgSize : from + k - 1 = SlotAt(d) + k
    BY <2>1
  <2>3. \A i \in from..to : segment[i] \in S
    OBVIOUS
  <2>4. given'[d].img = s /\ given'[d].meta.job = job /\ given'[d].meta.det = d
        /\ given'[d].meta.exp = source.handles[d].header.exp
    BY <1>1, <1>2
  <2> HIDE DEF from, to, S
  <2>5. /\ s \in Seq(S) /\ Len(s) = (IF from <= to THEN to - from + 1 ELSE 0)
        /\ \A k \in 1..(to - from + 1) : s[k] = segment[from + k - 1]
    BY <2>2, <2>3, SubSeqProperties
  <2>6. DOMAIN s = 1..ImgSize /\ \A k \in 1..ImgSize : s[k] = segment[SlotAt(d) + k]
    BY <2>2, <2>5, LenProperties
  <2> HIDE DEF s
  <2> QED BY <1>3, <2>4, <2>6
<1>6. DOMAIN given' = Dets
  BY <1>1, <1>2
<1>7. PICK g : g = given'
  OBVIOUS
<1>8. GivenInv'
  <2>1. job' = job /\ source' = source /\ pc' = "run"
    BY <1>1 DEF taken
  <2>2. \A d \in Dets : \A k \in DOMAIN g[d].img : g[d].img[k].job = job
    BY <1>5, <1>7 DEF PixelOf
  <2> QED BY <1>4, <1>5, <1>6, <1>7, <2>1, <2>2 DEF GivenInv
<1>9. DirInv' /\ HeadersInv' /\ SourceInv' /\ ShmInv'
  BY <1>1, SameSource DEF Resolved, wire
<1>10. RunInv' /\ SegmentBytesInv' /\ BodyInv' /\ LayoutInv'
  BY <1>1 DEF RunInv, SegmentBytesInv, BodyInv, LayoutInv
<1> QED BY <1>8, <1>9, <1>10 DEF BytesInv

\* The job runs on the one exposure the prepare was for (RunJob).
LEMMA RunJobBytes ==
    ASSUME BytesInv, RunJob
    PROVE  BytesInv'
<1> DEFINE visits == {given[d].meta.exp : d \in DOMAIN given}
<1>1. CASE Fail /\ UNCHANGED shm
  <2>1. ShmInv'
    BY <1>1 DEF BytesInv, ShmInv, IsSeq
  <2> QED BY <1>1, <2>1, EndBytes DEF Fail, End
<1>2. CASE ~(Fail /\ UNCHANGED shm)
  <2>1. /\ pc = "run" /\ Checked /\ pc' = "running"
        /\ UNCHANGED <<mode, job, input, taken, forks, wire, given, mishaps>>
    BY <1>2 DEF RunJob
  <2>2. /\ DOMAIN given \subseteq Dets
        /\ \E e \in visits : prepared.physical_filter = FilterOf[e]
        /\ Cardinality(visits) = 1
        /\ \A e \in visits : ShardsOf[e] \subseteq prepared.shards
    BY <2>1 DEF Checked
  <2>3. IsFiniteSet(visits)
    <3> DEFINE f == [d \in DOMAIN given |-> given[d].meta.exp]
    <3>1. IsFiniteSet(DOMAIN given)
      BY <2>2, ExposureDirAssumption, FS_Subset
    <3>2. f \in Surjection(DOMAIN given, visits)
      BY DEF Surjection
    <3> HIDE DEF f, visits
    <3> QED BY <3>1, <3>2, FS_Surjection
  <2>4. \A d \in DOMAIN given : given[d].meta.exp \in visits
    OBVIOUS
  <2> HIDE DEF visits
  <2>5. \A d \in DOMAIN given : /\ FilterOf[given[d].meta.exp] = prepared.physical_filter
                                /\ ShardsOf[given[d].meta.exp] \subseteq prepared.shards
    BY <2>2, <2>3, <2>4, OnlyOne
  <2>6. /\ UNCHANGED <<prepared, given, touched, mangled, job, source>>
        /\ \A x, d : PixelOf(x, d)' <=> PixelOf(x, d)
    BY <2>1, SameSource DEF Resolved, taken, wire, input
  <2>7. RunInv'
    BY <2>5, <2>6 DEF RunInv
  <2>8. GivenInv'
    <3>1. PICK g : g = given
      OBVIOUS
    <3>2. GivenInv
      BY DEF BytesInv
    <3> QED BY <2>1, <2>6, <3>1, <3>2 DEF GivenInv
  <2>9. DirInv' /\ HeadersInv' /\ SourceInv' /\ ShmInv'
    BY <2>1, SameSource DEF Resolved, wire
  <2>10. SegmentBytesInv' /\ BodyInv' /\ LayoutInv'
    BY <2>1 DEF SegmentBytesInv, BodyInv, LayoutInv
  <2> QED BY <2>7, <2>8, <2>9, <2>10 DEF BytesInv
<1> QED BY <1>1, <1>2

\* A step that touches nothing the bytes are judged by.
LEMMA SameBytes ==
    ASSUME BytesInv,
           UNCHANGED <<mode, job, pc, dir, source, headers, prepared, task, segment, route>>,
           UNCHANGED <<body, mangled, shm, layout, given, touched>>
    PROVE  BytesInv'
<1> USE DEF BytesInv
<1>1. \A x, d : PixelOf(x, d)' <=> PixelOf(x, d)
  BY DEF PixelOf, FileOf
<1>2. DirInv' /\ HeadersInv' /\ SourceInv' /\ ShmInv' /\ RunInv'
  BY DEF DirInv, HeadersInv, SourceInv, FileOf, ShmInv, IsSeq, RunInv
<1>3. SegmentBytesInv'
  <2>1. ImagesAt' = ImagesAt /\ \A e : SlotAt(e)' = SlotAt(e)
    BY DEF ImagesAt, SlotAt
  <2> QED BY <1>1, <2>1 DEF SegmentBytesInv, IsSeq
<1>4. \A p, b, at : HonestPart(p, b, at)' <=> HonestPart(p, b, at)
  BY <1>1 DEF HonestPart
<1>5. BodyInv'
  <2>1. PICK b : b = body
    OBVIOUS
  <2>2. Framed(b)' <=> Framed(b)
    BY DEF Framed
  <2>3. Honest(b.desc, b.bytes, StartOf(b))' <=> Honest(b.desc, b.bytes, StartOf(b))
    BY <1>4 DEF Honest
  <2> QED BY <2>1, <2>2, <2>3 DEF BodyInv
<1>6. LayoutInv'
  <2>1. PICK l, s : l = layout /\ s = shm
    OBVIOUS
  <2>2. Honest(l, s, 0)' <=> Honest(l, s, 0)
    BY <1>4 DEF Honest
  <2> QED BY <2>1, <2>2 DEF LayoutInv
<1>7. GivenInv'
  <2>1. PICK g : g = given
    OBVIOUS
  <2> QED BY <1>1, <2>1 DEF GivenInv
<1> QED BY <1>2, <1>3, <1>5, <1>6, <1>7

\* Once a file was replaced, the bytes are of this job, whatever they show (Touch).
LEMMA TouchBytes ==
    ASSUME BytesInv, NEW p, NEW e \in Exposures, Touch(p, e)
    PROVE  BytesInv'
<1>1. /\ p \in DOMAIN dir /\ dir' = [dir EXCEPT ![p].exp = e] /\ touched' = TRUE
      /\ UNCHANGED <<mode, job, route, pc, taken, forks, wire, given>>
  BY DEF Touch
<1>2. /\ DOMAIN dir' = DOMAIN dir
      /\ \A q \in DOMAIN dir : dir'[q] \in Files /\ dir'[q].det = dir[q].det
  BY <1>1 DEF BytesInv, DirInv, Files
<1>3. \A x, d : PixelOf(x, d) => PixelOf(x, d)'
  BY <1>1 DEF PixelOf
<1>4. DirInv'
  BY <1>2 DEF BytesInv, DirInv
<1>5. HeadersInv' /\ SourceInv' /\ ShmInv' /\ RunInv'
  <2>1. HeadersInv'
    BY <1>1 DEF BytesInv, HeadersInv, taken
  <2>2. SourceInv'
    BY <1>1, <1>2 DEF BytesInv, SourceInv, FileOf, taken
  <2>3. ShmInv' /\ RunInv'
    BY <1>1 DEF BytesInv, ShmInv, IsSeq, RunInv, taken, wire
  <2> QED BY <2>1, <2>2, <2>3
<1>6. SegmentBytesInv'
  <2>1. ImagesAt' = ImagesAt /\ \A d : SlotAt(d)' = SlotAt(d)
    BY <1>1 DEF ImagesAt, SlotAt, taken
  <2>2. UNCHANGED <<pc, task, segment>>
    BY <1>1 DEF forks
  <2> QED BY <1>3, <2>1, <2>2 DEF BytesInv, SegmentBytesInv, IsSeq
<1>7. \A q, b, at : HonestPart(q, b, at) => HonestPart(q, b, at)'
  BY <1>1, <1>3 DEF HonestPart, taken
<1>8. BodyInv'
  <2>1. PICK b : b = body
    OBVIOUS
  <2>2. Framed(b)' <=> Framed(b)
    BY <1>1 DEF Framed
  <2>3. Honest(b.desc, b.bytes, StartOf(b)) => Honest(b.desc, b.bytes, StartOf(b))'
    BY <1>7 DEF Honest
  <2>4. UNCHANGED <<pc, body, mangled>>
    BY <1>1 DEF wire
  <2> QED BY <2>1, <2>2, <2>3, <2>4 DEF BytesInv, BodyInv
<1>9. LayoutInv'
  <2>1. PICK l, s : l = layout /\ s = shm
    OBVIOUS
  <2>2. Honest(l, s, 0) => Honest(l, s, 0)'
    BY <1>7 DEF Honest
  <2>3. UNCHANGED <<pc, job, layout, shm, mangled>>
    BY <1>1 DEF wire
  <2> QED BY <2>1, <2>2, <2>3 DEF BytesInv, LayoutInv
<1>10. GivenInv'
  BY <1>1 DEF BytesInv, GivenInv
<1> QED BY <1>4, <1>5, <1>6, <1>8, <1>9, <1>10 DEF BytesInv

\* Before the first job.
LEMMA InitBytes == Init => BytesInv
<1> SUFFICES ASSUME Init PROVE BytesInv
  OBVIOUS
<1>1. DirInv
  BY FS_EmptySet DEF Init, DirInv
<1>2. ShmInv
  <2>1. shm = [i \in 1..SHM_SIZE |-> shm[i]] /\ SHM_SIZE \in Nat
    BY DataPathAssumption DEF Init
  <2> QED BY <2>1, FunctionIsSeq DEF ShmInv
<1>3. GivenInv
  BY DEF Init, GivenInv
<1> QED
  BY <1>1, <1>2, <1>3 DEF Init, BytesInv, HeadersInv, SourceInv, Resolved, SegmentBytesInv, BodyInv,
                          LayoutInv, RunInv

\* Every step of the specification.
LEMMA StepBytes == BytesInv /\ [Next]_vars => BytesInv'
<1> SUFFICES ASSUME BytesInv, [Next]_vars PROVE BytesInv'
  OBVIOUS
<1>1. CASE UNCHANGED vars
  BY <1>1, SameBytes DEF vars, input, taken, forks, wire
<1>2. ASSUME NEW r \in {"push", "ingest"}, NEW d \in Dirs, Arrive(r, d) PROVE BytesInv'
  BY <1>2, ArriveBytes
<1>3. CASE Substitute
  BY <1>3, SubstituteBytes
<1>4. CASE Resolve
  BY <1>4, ResolveBytes
<1>5. CASE CreateSegment
  BY <1>5, CreateSegmentBytes
<1>6. CASE CannotFork \/ WorkersFailed \/ TimesOut
  BY <1>6, UnavailableBytes DEF CannotFork, WorkersFailed, TimesOut
<1>7. ASSUME NEW d \in Dets, Worker(d) PROVE BytesInv'
  BY <1>7, WorkerBytes
<1>8. ASSUME NEW d \in Dets, WorkerRaises(d) \/ WorkerDies(d) PROVE BytesInv'
  BY <1>8, WorkerFailsBytes
<1>9. CASE Frame
  <2>1. pc = "forked"
    BY <1>9 DEF Frame
  <2> QED BY <1>9, <2>1, FrameBytes, UnavailableBytes
<1>10. CASE Serial
  BY <1>10, SerialBytes
<1>11. CASE Mangle
  BY <1>11, MangleBytes
<1>12. CASE TooLong \/ BadHeader
  BY <1>12, RefusedBytes
<1>13. CASE Receive
  BY <1>13, ReceiveBytes
<1>14. CASE Decode
  BY <1>14, DecodeBytes
<1>15. CASE Wrap
  BY <1>15, WrapBytes
<1>16. CASE RunJob
  BY <1>16, RunJobBytes
<1>17. CASE Done \/ Kill
  <2>1. Forget /\ UNCHANGED shm
    BY <1>17 DEF Done, Fail, End, Kill
  <2>2. ShmInv'
    BY <2>1 DEF BytesInv, ShmInv, IsSeq
  <2> QED BY <2>1, <2>2, EndBytes
<1>18. ASSUME NEW p, NEW e \in Exposures, Touch(p, e) PROVE BytesInv'
  BY <1>18, TouchBytes
<1> QED
  BY <1>1, <1>2, <1>3, <1>4, <1>5, <1>6, <1>7, <1>8, <1>9, <1>10, <1>11, <1>12, <1>13, <1>14,
     <1>15, <1>16, <1>17, <1>18 DEF Next, Producer, Coordinator

\* Every step keeps the byte invariant: of what goes from a directory through
\* encoder, wire, block and layout to a task, each byte is known to be of this job,
\* and, unless the operator replaced a file or a producer mangled its body, which
\* detector's pixels it is of and of which exposure.
THEOREM BytesInvariant == Spec => []BytesInv
BY InitBytes, StepBytes, PTL DEF Spec

\* Whatever a body's framing claims, a task is never given a byte that an earlier
\* push left in the shared block: parse_layout refuses a part that reaches beyond
\* what was received (protocol.py:267), and an ingest's views are on a segment
\* nobody wrote to before (daq.py:1059).
THEOREM NeverStale == Spec => []NoStaleBytes
<1>1. BytesInv => NoStaleBytes
  BY DEF BytesInv, GivenInv, NoStaleBytes
<1> QED BY <1>1, BytesInvariant, PTL

\* A task that runs has, of each detector, the pixels of that detector's own file
\* and the header of the same exposure, the one the prepare was for: the slots and
\* the descriptors agree about the order of the detectors (daq.py:1059), the
\* substitution of replay headers is all or nothing (replay.py:67), and the job
\* refuses an exposure that was not prepared (coordinator.py:1522).
THEOREM AlwaysOwnPixels == Spec => []OwnPixels
<1>1. BytesInv => OwnPixels
  <2> SUFFICES ASSUME BytesInv, pc = "running" PROVE OwnPixels
    BY DEF OwnPixels
  <2>1. \A d \in DOMAIN given : /\ FilterOf[given[d].meta.exp] = prepared.physical_filter
                                /\ ShardsOf[given[d].meta.exp] \subseteq prepared.shards
    BY DEF BytesInv, RunInv
  <2>2. ASSUME ~touched, ~mangled
        PROVE  /\ DOMAIN given = Dets
               /\ \A d \in Dets :
                     /\ given[d].meta.det = d
                     /\ given[d].meta.exp = source.handles[d].header.exp
                     /\ \A k \in DOMAIN given[d].img : PixelOf(given[d].img[k], d)
    BY <2>2 DEF BytesInv, GivenInv
  <2>3. ASSUME ~touched, NEW d \in Dets
        PROVE  \/ FileOf(d).exp = source.handles[d].header.exp
               \/ mode = "pinned"
               \/ mode = "off" /\ FileOf(d).emulated
    BY <2>3 DEF BytesInv, SourceInv, Resolved
  <2>4. ASSUME ~touched, ~mangled, NEW d \in Dets, NEW k \in DOMAIN given[d].img
        PROVE  /\ given[d].img[k].kind = "img"
               /\ given[d].img[k].det = d
               /\ \/ given[d].img[k].exp = given[d].meta.exp
                  \/ mode = "pinned"
                  \/ mode = "off" /\ dir[source.handles[d].path].emulated
    <3>1. PixelOf(given[d].img[k], d) /\ given[d].meta.exp = source.handles[d].header.exp
      BY <2>2, <2>4
    <3> QED BY <2>3, <2>4, <3>1 DEF PixelOf, FileOf
  <2> QED BY <2>1, <2>2, <2>4 DEF OwnPixels
<1> QED BY <1>1, BytesInvariant, PTL

\* What a producer packs, the receiver finds: the layout it parses of a packed
\* blob names each part, at its place in the blob, whole.  (pack_blob and
\* parse_layout, protocol.py:222 and 244.)
THEOREM PackedPartsComeBack ==
    ASSUME NEW S, NEW T, NEW names \in Seq(T), NEW parts \in Seq(Seq(S)), Len(parts) = Len(names),
           NEW b, b = PackBlob(names, parts), NEW l, l = ParseLayout(b)
    PROVE  /\ DOMAIN l = DOMAIN names
           /\ \A i \in DOMAIN names :
                 /\ l[i].name = names[i] /\ l[i].size = Len(parts[i])
                 /\ l[i].offset + l[i].size <= Len(b.bytes)
                 /\ \A k \in 1..Len(parts[i]) : b.bytes[l[i].offset + k] = parts[i][k]
<1>1. /\ Len(b.desc) = Len(names) /\ DOMAIN b.desc = 1..Len(names)
      /\ StartOf(b) = HEADER_SIZE + DescriptorRegionSize(names) /\ StartOf(b) \in Nat
      /\ \A i \in 1..Len(names) :
            /\ b.desc[i] = [name |-> names[i], offset |-> Cumulative(Sizes(parts))[i-1],
                            size |-> Len(parts[i])]
            /\ b.desc[i].offset \in Nat /\ b.desc[i].size \in Nat
            /\ b.desc[i].offset + b.desc[i].size <= b.payload
            /\ \A k \in 1..Len(parts[i]) :
                  b.bytes[StartOf(b) + b.desc[i].offset + k] = parts[i][k]
      /\ b.payload \in Nat
      /\ IsSeq(b.bytes) /\ Len(b.bytes) = StartOf(b) + b.payload
      /\ \A j \in 1..Len(b.bytes) : j > StartOf(b) => b.bytes[j] \in S
  <2>1. Packed(b, names, parts, S)
    BY PackedFacts
  <2> QED BY <2>1 DEF Packed
<1>2. Len(names) \in Nat /\ DOMAIN names = 1..Len(names)
  BY LenProperties
<1>3. PICK n : n = Len(names)
  OBVIOUS
<1>4. PICK start : start = StartOf(b)
  OBVIOUS
<1>5. /\ start = HEADER_SIZE + DescriptorRegionSize(b.desc)
      /\ start = HEADER_SIZE + DESC_SIZE * n
      /\ n \in Nat /\ start \in Nat /\ DOMAIN b.desc = 1..n
      /\ Len(b.bytes) = start + b.payload /\ b.payload \in Nat
  BY <1>1, <1>2, <1>3, <1>4 DEF StartOf, DescriptorRegionSize
<1>6. \A i \in 1..n : /\ b.desc[i].name = names[i] /\ b.desc[i].size = Len(parts[i])
                      /\ b.desc[i].offset \in Nat /\ b.desc[i].size \in Nat
                      /\ b.desc[i].offset + b.desc[i].size <= b.payload
  <2> SUFFICES ASSUME NEW i \in 1..n
               PROVE  /\ b.desc[i].name = names[i] /\ b.desc[i].size = Len(parts[i])
                      /\ b.desc[i].offset \in Nat /\ b.desc[i].size \in Nat
                      /\ b.desc[i].offset + b.desc[i].size <= b.payload
    OBVIOUS
  <2>1. /\ b.desc[i] = [name |-> names[i], offset |-> Cumulative(Sizes(parts))[i-1],
                        size |-> Len(parts[i])]
        /\ b.desc[i].offset \in Nat /\ b.desc[i].size \in Nat
        /\ b.desc[i].offset + b.desc[i].size <= b.payload
    BY <1>1, <1>3
  <2>2. b.desc[i].name = names[i] /\ b.desc[i].size = Len(parts[i])
    BY <2>1
  <2> QED BY <2>1, <2>2
<1>7. ASSUME NEW i \in 1..n PROVE ~(HEADER_SIZE + DESC_SIZE * i > Len(b.bytes))
  <2>1. /\ DESC_SIZE * (i - 1) \in Nat /\ DESC_SIZE * n \in Nat
        /\ DESC_SIZE * (i - 1) + DESC_SIZE <= DESC_SIZE * n
    <3>1. i - 1 \in Nat /\ i - 1 < n /\ DESC_SIZE \in Nat
      BY <1>5, WireFormatAssumption
    <3> QED BY <1>5, <3>1, SlotEnds
  <2>2. DESC_SIZE * i = DESC_SIZE * (i - 1) + DESC_SIZE
    <3>1. \A x \in Nat : \A j \in 1..n : x * j = x * (j - 1) + x
      BY <1>5
    <3> QED BY <3>1, WireFormatAssumption
  <2>3. PICK a, m : a = DESC_SIZE * (i - 1) /\ m = DESC_SIZE * n
    OBVIOUS
  <2>4. a \in Nat /\ m \in Nat /\ a + DESC_SIZE <= m
    BY <2>1, <2>3
  <2>5. Len(b.bytes) = (HEADER_SIZE + m) + b.payload /\ DESC_SIZE * i = a + DESC_SIZE
    BY <1>5, <2>2, <2>3
  <2>6. \A h, x, d, y, p \in Nat : x + d <= y => ~(h + (x + d) > (h + y) + p)
    OBVIOUS
  <2>7. HEADER_SIZE \in Nat /\ DESC_SIZE \in Nat /\ b.payload \in Nat
    BY <1>5, WireFormatAssumption
  <2> QED BY <2>4, <2>5, <2>6, <2>7
<1>8. ParseHeader(b)
  <2>1. DESC_SIZE * n \in Nat
    <3>1. \A x, y \in Nat : x * y \in Nat
      OBVIOUS
    <3> QED BY <1>5, <3>1, WireFormatAssumption
  <2>2. Len(b.bytes) >= HEADER_SIZE
    BY <1>5, <2>1, WireFormatAssumption
  <2>3. b.magic
    BY DEF PackBlob
  <2> QED BY <2>2, <2>3 DEF ParseHeader
<1>9. l = [i \in 1..n |-> [b.desc[i] EXCEPT !.offset = start + @]]
  <2>1. ~(start + b.payload > Len(b.bytes))
    BY <1>5
  <2>2. \A i \in 1..n : ~(b.desc[i].offset + b.desc[i].size > b.payload)
    <3>1. \A x, y \in Nat : x <= y => ~(x > y)
      OBVIOUS
    <3> QED BY <1>5, <1>6, <3>1
  <2> QED BY <1>5, <1>7, <1>8, <2>1, <2>2 DEF ParseLayout
<1>10. ASSUME NEW i \in 1..n
       PROVE  /\ l[i].name = names[i] /\ l[i].size = Len(parts[i])
              /\ l[i].offset + l[i].size <= Len(b.bytes)
              /\ \A k \in 1..Len(parts[i]) : b.bytes[l[i].offset + k] = parts[i][k]
  <2>1. l[i] = [b.desc[i] EXCEPT !.offset = start + b.desc[i].offset]
    BY <1>9
  <2>2. /\ l[i].name = names[i] /\ l[i].size = b.desc[i].size
        /\ l[i].offset = start + b.desc[i].offset
    <3>1. b.desc[i] = [name |-> names[i], offset |-> Cumulative(Sizes(parts))[i-1],
                       size |-> Len(parts[i])]
      BY <1>1, <1>3
    <3> QED BY <2>1, <3>1
  <2>3. l[i].offset + l[i].size <= Len(b.bytes)
    <3>1. \A s, o, z, p \in Nat : o + z <= p => (s + o) + z <= s + p
      OBVIOUS
    <3>2. /\ b.desc[i].offset \in Nat /\ b.desc[i].size \in Nat
          /\ b.desc[i].offset + b.desc[i].size <= b.payload
      BY <1>6
    <3> QED BY <1>5, <2>2, <3>1, <3>2
  <2>4. \A k \in 1..Len(parts[i]) : b.bytes[l[i].offset + k] = parts[i][k]
    BY <1>1, <1>3, <1>4, <2>2
  <2> QED BY <1>6, <2>2, <2>3, <2>4
<1> QED BY <1>2, <1>3, <1>9, <1>10
=============================================================================
