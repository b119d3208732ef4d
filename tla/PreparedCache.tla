--------------------------- MODULE PreparedCache ---------------------------
(***************************************************************************)
(* The prepared-configuration caches of one coordinator child              *)
(* (coordinator.py).  A /prepare builds a (task, refcat) entry for its      *)
(* composite key and makes it the active one; a later /push or /ingest      *)
(* carries the key it was prepared with and must run under that very        *)
(* configuration, although other prepares, evictions, failed loads,         *)
(* recertified calibrations and restarts of the child may have happened in  *)
(* between.  The child serves one command at a time, so one command is one  *)
(* step; the steps differ in where the command raised.                      *)
(***************************************************************************)
EXTENDS Integers, Sequences

CONSTANTS
    Overrides,          \* config override lists, as override_key sees them
    Filters,            \* physical filters
    Times,              \* calib_time values
    Boresights,         \* pointings a prepare may name
    ShardIds,           \* boresight -> the level-5 shard set covering it
    Fields,             \* the shard sets the raws of a push may need
    Commands,           \* the prepare commands clients send
    Versions,           \* what a dataset lookup can resolve to over time
    PREPARED_CACHE_CAP,
    CALIB_CACHE_CAP,
    None

Shards == {ShardIds[b] : b \in Boresights}

Command == [config_overrides : Overrides, physical_filter : Filters,
            boresight : Boresights, calib_time : Times]

PrepareKey == [task : Overrides, physical_filter : Filters,
               refcat : Shards, calib_time : Times]

PreparedEntry == [key : PrepareKey, task : Overrides, refcat : Shards]

\* A filter half is identified by the filter and the datasets it resolved to.
FilterId == Filters \X Versions

CalibSet == [physical_filter : Filters, detector : Versions, filtered : FilterId]

\* What the coordinator answers a command with.
Reply == [cmd : {"prepare", "push"}, ok : BOOLEAN]

\* What a job ran with.
Run == [key : PrepareKey, task : Overrides, refcat : Shards,
        raws : [physical_filter : Filters, refcat : Fields], calib : CalibSet]

ASSUME CapsAssumption ==
    /\ PREPARED_CACHE_CAP \in Nat \ {0}
    /\ CALIB_CACHE_CAP \in Nat \ {0}

ASSUME CommandsAssumption == Commands \subseteq Command

ASSUME NoneAssumption ==
    None \notin Versions \cup Command \cup PrepareKey \cup Overrides \cup Shards
                \cup CalibSet \cup Reply \cup Run

VARIABLES
    preparedCache,   \* _PREPARED_CACHE: entries, least recently used first
    prepareCommands, \* _PREPARE_COMMANDS: key -> the command that built it
    filterCache,     \* _FILTER_CALIB_CACHE: filter halves, LRU first
    detectorCache,   \* _DETECTOR_CALIB_CACHE: the one detector half
    activeKey,       \* _ACTIVE_KEY
    task,            \* _TASK
    calibStore,      \* _CALIB_STORE
    refcatStore,     \* _REFCAT_STORE, as the shard set it holds
    detectorRefs,    \* calib_time -> the detector datasets it resolves to
    filterRefs,      \* <<filter, calib_time>> -> the filter datasets
    issued,          \* keys the front-end holds on PREPARED job records
    reply,           \* what the last step answered, if it was a command
    ran              \* what the last step ran the task with, if it did

mirrors == <<activeKey, task, calibStore, refcatStore>>
calibCaches == <<filterCache, detectorCache>>
caches == <<preparedCache, prepareCommands>>
certified == <<detectorRefs, filterRefs>>
vars == <<caches, calibCaches, mirrors, certified, issued, reply, ran>>

-----------------------------------------------------------------------------
(* Ordered dictionaries: sequences, least recently used first.             *)

\* The sequence without its i-th element.
Without(s, i) == SubSeq(s, 1, i - 1) \o SubSeq(s, i + 1, Len(s))

MoveToEnd(s, i) == Append(Without(s, i), s[i])

\* popitem(last=False) until the cap holds.
EvictLru(s, cap) == IF Len(s) > cap THEN SubSeq(s, Len(s) - cap + 1, Len(s)) ELSE s

HitAt(key) == {i \in DOMAIN preparedCache : preparedCache[i].key = key}

\* Broken: the key leaves the pointing out.
KeyOfIgnoringPointing(command) ==
    [task            |-> command.config_overrides,
     physical_filter |-> command.physical_filter,
     refcat          |-> CHOOSE s \in Shards : TRUE,
     calib_time      |-> command.calib_time]

KeyOf(command) == [task            |-> command.config_overrides,
                   physical_filter |-> command.physical_filter,
                   refcat          |-> ShardIds[command.boresight],
                   calib_time      |-> command.calib_time]

BuildEntry(key, command) == [key    |-> key,
                             task   |-> command.config_overrides,
                             refcat |-> ShardIds[command.boresight]]

Resolve(command) ==
    [detector |-> detectorRefs[command.calib_time],
     filtered |-> <<command.physical_filter,
                    filterRefs[<<command.physical_filter, command.calib_time>>]>>]

-----------------------------------------------------------------------------
(* _activate_entry: resolve, ensure both calib halves, then switch every    *)
(* mirror.  Each stage before the switch may raise.                         *)

FilterHits(id) == {i \in DOMAIN filterCache : filterCache[i] = id}

\* Broken: a hit is served without being moved to the most recent end.
EnsureFilterHalfNoTouch(id) ==
    \/ FilterHits(id) # {} /\ UNCHANGED filterCache
    \/ /\ FilterHits(id) = {}
       /\ filterCache' = EvictLru(Append(filterCache, id), CALIB_CACHE_CAP)

\* _ensure_filter_calibs: a hit moves to the end, a load may evict the oldest.
EnsureFilterHalf(id) ==
    \/ \E i \in FilterHits(id) : filterCache' = MoveToEnd(filterCache, i)
    \/ /\ FilterHits(id) = {}
       /\ filterCache' = EvictLru(Append(filterCache, id), CALIB_CACHE_CAP)

\* Broken: the slot is reused without comparing its identity.
EnsureDetectorHalfUnchecked(id) ==
    detectorCache' = IF detectorCache = None THEN id ELSE detectorCache

\* _ensure_detector_calibs: reuse the slot when its identity still matches.
EnsureDetectorHalf(id) == detectorCache' = id

\* Broken: the task mirror is only set the first time.
SwitchKeepsTask(entry, command, ids) ==
    /\ activeKey' = entry.key
    /\ task' = IF task = None THEN entry.task ELSE task
    /\ calibStore' = [physical_filter |-> command.physical_filter,
                      detector |-> detectorCache', filtered |-> ids.filtered]
    /\ refcatStore' = entry.refcat

Switch(entry, command, ids) ==
    /\ activeKey' = entry.key
    /\ task' = entry.task
    /\ calibStore' = [physical_filter |-> command.physical_filter,
                      detector |-> detectorCache', filtered |-> ids.filtered]
    /\ refcatStore' = entry.refcat

\* Broken: an entry that is active already is not resolved again.
ActivateOnChange(entry, command) ==
    LET ids == Resolve(command)
    IN  \/ activeKey = entry.key /\ UNCHANGED <<mirrors, calibCaches>>
        \/ /\ activeKey # entry.key
           /\ EnsureDetectorHalf(ids.detector)
           /\ EnsureFilterHalf(ids.filtered)
           /\ Switch(entry, command, ids)

Activate(entry, command) ==
    LET ids == Resolve(command)
    IN  /\ EnsureDetectorHalf(ids.detector)
        /\ EnsureFilterHalf(ids.filtered)
        /\ Switch(entry, command, ids)

\* Broken: the refcat and the task are switched before the calibs are resolved.
ActivateRaisesHalfSwitched(command) ==
    /\ activeKey' = KeyOf(command)
    /\ task' = command.config_overrides
    /\ refcatStore' = ShardIds[command.boresight]
    /\ UNCHANGED <<calibStore, calibCaches>>

\* The lookup or the detector load raised, and nothing changed; or the filter
\* load raised after the detector half had been put in its slot.
ActivateRaises(command) ==
    /\ UNCHANGED mirrors
    /\ UNCHANGED filterCache
    /\ \/ UNCHANGED detectorCache
       \/ /\ FilterHits(Resolve(command).filtered) = {}
          /\ EnsureDetectorHalf(Resolve(command).detector)

-----------------------------------------------------------------------------
(* ensure_prepared, and the reply coordinator_main sends for it.           *)

\* Broken: eviction prunes the commands of the keys it drops.
PrepareCachesPruning(command) ==
    LET key == KeyOf(command)
        added == EvictLru(Append(preparedCache, BuildEntry(key, command)),
                          PREPARED_CACHE_CAP)
        kept == {added[i].key : i \in DOMAIN added}
    IN  \/ /\ HitAt(key) = {}
           /\ preparedCache' = added
           /\ prepareCommands' = [k \in PrepareKey |->
                IF k = key THEN command ELSE IF k \in kept THEN prepareCommands[k] ELSE None]
        \/ /\ \E i \in HitAt(key) : preparedCache' = MoveToEnd(preparedCache, i)
           /\ UNCHANGED prepareCommands

PrepareCaches(command) ==
    LET key == KeyOf(command)
    IN  \/ /\ HitAt(key) = {}
           /\ preparedCache' = EvictLru(Append(preparedCache, BuildEntry(key, command)),
                                        PREPARED_CACHE_CAP)
           /\ prepareCommands' = [prepareCommands EXCEPT ![key] = command]
        \/ /\ \E i \in HitAt(key) : preparedCache' = MoveToEnd(preparedCache, i)
           /\ UNCHANGED prepareCommands

\* The entry ensure_prepared holds once PrepareCaches has run: the newest one.
Newest == preparedCache'[Len(preparedCache')]

Prepare(command) ==
    /\ PrepareCaches(command)
    /\ Activate(Newest, command)
    /\ issued' = issued \cup {KeyOf(command)}
    /\ reply' = [cmd |-> "prepare", ok |-> TRUE]
    /\ ran' = None
    /\ UNCHANGED certified

\* Building the task, the stamp directory or the shards failed, or activation.
PrepareRaises(command) ==
    /\ \/ /\ HitAt(KeyOf(command)) = {}
          /\ UNCHANGED <<caches, calibCaches, mirrors>>
       \/ /\ PrepareCaches(command)
          /\ ActivateRaises(command)
    /\ reply' = [cmd |-> "prepare", ok |-> FALSE]
    /\ ran' = None
    /\ UNCHANGED <<certified, issued>>

-----------------------------------------------------------------------------
(* ensure_prepared_for_push, then run_push or run_ingest.                   *)

PushCaches(key, command) ==
    /\ UNCHANGED prepareCommands
    /\ \/ \E i \in HitAt(key) : preparedCache' = MoveToEnd(preparedCache, i)
       \/ /\ HitAt(key) = {}
          /\ preparedCache' = EvictLru(Append(preparedCache, BuildEntry(key, command)),
                                       PREPARED_CACHE_CAP)

\* run_job's guards: the raws' filter against the loaded flats', and
\* build_quantum_context's coverage check: the loaded shards may be more than
\* the raws need, as after a small dither, and must not be fewer.
RunJob(key, rawFilter, rawShards) ==
    IF /\ calibStore'.physical_filter = rawFilter
       /\ rawShards \subseteq refcatStore'
    THEN /\ reply' = [cmd |-> "push", ok |-> TRUE]
         /\ ran' = [key |-> key, task |-> task', refcat |-> refcatStore',
                    raws |-> [physical_filter |-> rawFilter, refcat |-> rawShards],
                    calib |-> calibStore']
    ELSE /\ reply' = [cmd |-> "push", ok |-> FALSE]
         /\ ran' = None

\* Broken: the push runs under whatever configuration is active.
PushAsActive(key, rawFilter, rawShards) ==
    /\ activeKey # None
    /\ UNCHANGED <<caches, calibCaches, mirrors, certified, issued>>
    /\ RunJob(key, rawFilter, rawShards)

Push(key, rawFilter, rawShards) ==
    LET command == prepareCommands[key]
    IN  /\ command # None
        /\ PushCaches(key, command)
        /\ Activate(Newest, command)
        /\ RunJob(key, rawFilter, rawShards)
        /\ UNCHANGED <<certified, issued>>

\* The key is not one this child prepared, or reloading or activating it failed.
PushRaises(key) ==
    LET command == prepareCommands[key]
    IN  /\ \/ /\ command = None \/ HitAt(key) = {}
              /\ UNCHANGED <<caches, calibCaches, mirrors>>
           \/ /\ command # None
              /\ PushCaches(key, command)
              /\ ActivateRaises(command)
        /\ reply' = [cmd |-> "push", ok |-> FALSE]
        /\ ran' = None
        /\ UNCHANGED <<certified, issued>>

-----------------------------------------------------------------------------
(* The environment: the butler's certifications move, the child dies.       *)

Recertify ==
    /\ \/ /\ \E t \in Times, v \in Versions : detectorRefs' = [detectorRefs EXCEPT ![t] = v]
          /\ UNCHANGED filterRefs
       \/ /\ \E q \in Filters \X Times, v \in Versions :
                filterRefs' = [filterRefs EXCEPT ![q] = v]
          /\ UNCHANGED detectorRefs
    /\ reply' = None
    /\ ran' = None
    /\ UNCHANGED <<caches, calibCaches, mirrors, issued>>

FreshChild ==
    /\ preparedCache = <<>>
    /\ prepareCommands = [k \in PrepareKey |-> None]
    /\ filterCache = <<>>
    /\ detectorCache = None
    /\ activeKey = None
    /\ task = None
    /\ calibStore = None
    /\ refcatStore = None

\* A replacement child starts with every module global empty; the front-end's
\* job records keep the keys the dead one issued.
Restart ==
    /\ preparedCache' = <<>>
    /\ prepareCommands' = [k \in PrepareKey |-> None]
    /\ filterCache' = <<>>
    /\ detectorCache' = None
    /\ activeKey' = None
    /\ task' = None
    /\ calibStore' = None
    /\ refcatStore' = None
    /\ reply' = None
    /\ ran' = None
    /\ UNCHANGED <<certified, issued>>

Init ==
    /\ FreshChild
    /\ detectorRefs \in [Times -> Versions]
    /\ filterRefs \in [Filters \X Times -> Versions]
    /\ issued = {}
    /\ reply = None
    /\ ran = None

Next ==
    \/ \E c \in Commands : Prepare(c) \/ PrepareRaises(c)
    \/ \E k \in issued :
          \/ \E f \in Filters, s \in Fields : Push(k, f, s)
          \/ PushRaises(k)
    \/ Recertify
    \/ Restart

Spec == Init /\ [][Next]_vars

\* The view without caches: what ConfiguredRuns speaks of.
knownKeys == {k \in PrepareKey : prepareCommands[k] # None}

activeConfig ==
    IF activeKey = None THEN None
    ELSE [key |-> activeKey, task |-> task, refcat |-> refcatStore, calib |-> calibStore]

ranUnder ==
    IF ran = None THEN None
    ELSE [key |-> ran.key, task |-> ran.task, refcat |-> ran.refcat, calib |-> ran.calib]

Uncached == INSTANCE ConfiguredRuns
    WITH Keys <- PrepareKey, known <- knownKeys, active <- activeConfig, ran <- ranUnder

-----------------------------------------------------------------------------
(* Properties.                                                             *)

\* The shape of the state: every cache holds entries of its kind.
TypeOK ==
    /\ preparedCache \in Seq(PreparedEntry)
    /\ prepareCommands \in [PrepareKey -> Command \cup {None}]
    /\ filterCache \in Seq(FilterId)
    /\ detectorCache \in Versions \cup {None}
    /\ activeKey \in PrepareKey \cup {None}
    /\ task \in Overrides \cup {None}
    /\ calibStore \in CalibSet \cup {None}
    /\ refcatStore \in Shards \cup {None}
    /\ detectorRefs \in [Times -> Versions]
    /\ filterRefs \in [Filters \X Times -> Versions]
    /\ issued \subseteq PrepareKey
    /\ reply \in Reply \cup {None}
    /\ ran \in Run \cup {None}

\* A job runs under the configuration its prepare installed and on no other:
\* the task, the reference shards and the calibs' filter are those of the key
\* the push carries, its raws are of that filter and lie within those shards,
\* whatever was prepared, evicted, reloaded or restarted since
\* (ensure_prepared_for_push, run_job, RefCatStore.uncovered).
RunsOwnConfig ==
    ran # None =>
        /\ ran.task = ran.key.task
        /\ ran.refcat = ran.key.refcat
        /\ ran.calib.physical_filter = ran.key.physical_filter
        /\ ran.raws.physical_filter = ran.key.physical_filter
        /\ ran.raws.refcat \subseteq ran.key.refcat

\* A cached entry is the one its key names, and a retained command rebuilds the
\* key it is filed under; so a push that finds its entry evicted reloads the
\* same configuration (_build_entry, _PREPARE_COMMANDS).
CachesMatchKeys ==
    /\ \A i \in DOMAIN preparedCache :
          LET e == preparedCache[i]
          IN  e.task = e.key.task /\ e.refcat = e.key.refcat /\ prepareCommands[e.key] # None
    /\ \A k \in PrepareKey : prepareCommands[k] # None => KeyOf(prepareCommands[k]) = k

\* The mirror globals always describe one entry: no failed prepare or reload
\* leaves the task of one key beside the refcat or the flats of another
\* (_activate_entry switches all of them or none).
MirrorsAgree ==
    /\ activeKey = None => task = None /\ calibStore = None /\ refcatStore = None
    /\ activeKey # None =>
         /\ task = activeKey.task
         /\ refcatStore = activeKey.refcat
         /\ calibStore # None
         /\ calibStore.physical_filter = activeKey.physical_filter
         /\ calibStore.filtered[1] = activeKey.physical_filter

\* CALIB_CACHE_CAP bounds the filter halves really held in memory: the active
\* one is always resident, and the most recent, so the calib store never keeps
\* an evicted half alive beside a full cache (_ensure_filter_calibs).
CalibBoundIsReal ==
    /\ Len(filterCache) <= CALIB_CACHE_CAP
    /\ calibStore # None =>
         filterCache # <<>> /\ filterCache[Len(filterCache)] = calibStore.filtered

\* What the proofs induct on: the conjunction of the invariants above.
ConfigInv == TypeOK /\ CachesMatchKeys /\ MirrorsAgree /\ CalibBoundIsReal /\ RunsOwnConfig

\* A prepare that is refused leaves the previous good configuration live in
\* every mirror, at whatever stage it raised (build_task, _activate_entry).
FailedPrepareKeepsActive ==
    [][reply' = [cmd |-> "prepare", ok |-> FALSE] => UNCHANGED mirrors]_vars

\* A prepared key stays reloadable for the life of the child: eviction drops
\* the entry and never the command that rebuilds it (_evict_lru).
EvictedStaysReloadable ==
    [][\A k \in PrepareKey :
          prepareCommands[k] # None => prepareCommands'[k] # None \/ preparedCache' = <<>>]_vars

\* A run uses calibs the registry certifies for its key at the moment it runs,
\* both halves: a recertification is never masked by the detector slot or by a
\* cached filter half (CalibIds, _ensure_calib).
RunsOnCertifiedCalibs ==
    [][ran' # None =>
          LET k == ran'.key
          IN  /\ ran'.calib.detector = detectorRefs[k.calib_time]
              /\ ran'.calib.filtered =
                    <<k.physical_filter, filterRefs[<<k.physical_filter, k.calib_time>>]>>]_vars

\* To the front-end the child is one that builds every configuration anew: no
\* order of hits, evictions, reloads, failures and recertifications shows in what
\* is active, in what a job runs under, or in what is answered.
\* (coordinator.py:747, coordinator.py:832.)
CachesAreInvisible == Uncached!Spec
=============================================================================
