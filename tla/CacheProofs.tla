----------------------------- MODULE CacheProofs -----------------------------
(***************************************************************************)
(* Proofs about the caches of a coordinator child: PreparedCache, for every *)
(* set of override lists, filters, times, pointings and dataset versions    *)
(* and for every pair of caps, and ShardCache, the catalog store that a     *)
(* prepared entry carries, for every set of stores and parents.             *)
(***************************************************************************)
EXTENDS PreparedCache, ShardCache, DataLemmas, TLAPS

-----------------------------------------------------------------------------
(* The ordered dictionaries.                                               *)

\* A stretch of a sequence, element by element.
LEMMA SubSeqFacts ==
    ASSUME NEW S, NEW s \in Seq(S), NEW m \in Nat \ {0}, NEW n \in Nat,
           n <= Len(s), m <= n + 1
    PROVE  /\ SubSeq(s, m, n) \in Seq(S)
           /\ Len(SubSeq(s, m, n)) = n - m + 1
           /\ \A j \in 1..(n - m + 1) : SubSeq(s, m, n)[j] = s[m + j - 1]
<1>1. SubSeq(s, m, n) \in Seq(S)
  OBVIOUS
<1>2. /\ Len(SubSeq(s, m, n)) = n - m + 1
      /\ \A j \in 1..(n - m + 1) : SubSeq(s, m, n)[j] = s[m + j - 1]
  OBVIOUS
<1> QED
  BY <1>1, <1>2

\* Dropping one element of a sequence leaves a shorter one of the same kind,
\* every element of which was there before.
LEMMA WithoutFacts ==
    ASSUME NEW S, NEW s \in Seq(S), NEW i \in DOMAIN s
    PROVE  /\ Without(s, i) \in Seq(S)
           /\ Len(Without(s, i)) = Len(s) - 1
           /\ \A j \in DOMAIN Without(s, i) : \E m \in DOMAIN s : Without(s, i)[j] = s[m]
<1> DEFINE a == SubSeq(s, 1, i - 1)
           b == SubSeq(s, i + 1, Len(s))
<1>1. i \in 1..Len(s) /\ Len(s) \in Nat
  BY LenProperties
<1>2. /\ a \in Seq(S) /\ Len(a) = i - 1
      /\ \A j \in 1..(i - 1) : a[j] = s[j]
  BY <1>1, SubSeqFacts
<1>3. /\ b \in Seq(S) /\ Len(b) = Len(s) - i
      /\ \A j \in 1..(Len(s) - i) : b[j] = s[i + j]
  BY <1>1, SubSeqFacts
<1> HIDE DEF a, b
<1>4. /\ a \o b \in Seq(S)
      /\ Len(a \o b) = Len(s) - 1
      /\ \A j \in 1..(Len(s) - 1) :
            (a \o b)[j] = IF j <= i - 1 THEN a[j] ELSE b[j - (i - 1)]
  BY SMTT(40), <1>1, <1>2, <1>3, ConcatProperties
<1>5. ASSUME NEW j \in DOMAIN (a \o b)
      PROVE  \E m \in DOMAIN s : (a \o b)[j] = s[m]
  <2>1. j \in 1..(Len(s) - 1) /\ DOMAIN s = 1..Len(s)
    BY <1>1, <1>4, LenProperties
  <2>2. CASE j <= i - 1
    BY <2>1, <2>2, <1>1, <1>2, <1>4
  <2>3. CASE ~(j <= i - 1)
    <3>1. j - (i - 1) \in 1..(Len(s) - i) /\ i + (j - (i - 1)) \in 1..Len(s)
      BY <2>1, <2>3, <1>1
    <3>2. (a \o b)[j] = s[i + (j - (i - 1))]
      BY <3>1, <2>1, <2>3, <1>3, <1>4
    <3> QED
      BY <3>1, <3>2, <2>1
  <2> QED
    BY <2>2, <2>3
<1> QED
  BY <1>4, <1>5 DEF Without, a, b

\* A touched dictionary holds the elements it held, as many, the touched one last.
LEMMA MoveToEndFacts ==
    ASSUME NEW S, NEW s \in Seq(S), NEW i \in DOMAIN s
    PROVE  /\ MoveToEnd(s, i) \in Seq(S)
           /\ Len(MoveToEnd(s, i)) = Len(s)
           /\ Len(s) \in Nat \ {0}
           /\ MoveToEnd(s, i)[Len(s)] = s[i]
           /\ \A j \in DOMAIN MoveToEnd(s, i) : \E m \in DOMAIN s : MoveToEnd(s, i)[j] = s[m]
<1> DEFINE w == Without(s, i)
<1>1. s[i] \in S /\ i \in 1..Len(s) /\ Len(s) \in Nat
  BY ElementOfSeq, LenProperties
<1>2. /\ w \in Seq(S)
      /\ Len(w) = Len(s) - 1
      /\ \A j \in DOMAIN w : \E m \in DOMAIN s : w[j] = s[m]
  BY WithoutFacts
<1> HIDE DEF w
<1>3. /\ Append(w, s[i]) \in Seq(S)
      /\ Len(Append(w, s[i])) = Len(s)
      /\ \A j \in 1..Len(w) : Append(w, s[i])[j] = w[j]
      /\ Append(w, s[i])[Len(w) + 1] = s[i]
  BY <1>1, <1>2, AppendProperties
<1>4. ASSUME NEW j \in DOMAIN Append(w, s[i])
      PROVE  \E m \in DOMAIN s : Append(w, s[i])[j] = s[m]
  <2>1. j \in 1..Len(s) /\ DOMAIN w = 1..(Len(s) - 1)
    BY <1>1, <1>2, <1>3, LenProperties
  <2>2. CASE j = Len(s)
    BY <2>2, <1>1, <1>2, <1>3
  <2>3. CASE j # Len(s)
    BY <2>1, <2>3, <1>1, <1>2, <1>3
  <2> QED
    BY <2>2, <2>3
<1>5. Len(w) + 1 = Len(s) /\ Len(s) \in Nat \ {0}
  BY <1>1, <1>2
<1>6. Append(w, s[i]) = MoveToEnd(s, i)
  BY DEF MoveToEnd, w
<1> QED
  BY <1>3, <1>4, <1>5, <1>6

\* Eviction keeps the newest elements, at most the cap of them.
LEMMA EvictLruFacts ==
    ASSUME NEW S, NEW s \in Seq(S), s # <<>>, NEW cap \in Nat \ {0}
    PROVE  /\ EvictLru(s, cap) \in Seq(S)
           /\ Len(EvictLru(s, cap)) \in 1..cap
           /\ EvictLru(s, cap)[Len(EvictLru(s, cap))] = s[Len(s)]
           /\ \A j \in DOMAIN EvictLru(s, cap) : \E m \in DOMAIN s : EvictLru(s, cap)[j] = s[m]
<1>1. Len(s) \in Nat \ {0} /\ DOMAIN s = 1..Len(s)
  BY EmptySeq, LenProperties
<1>2. CASE Len(s) > cap
  <2> DEFINE lo == Len(s) - cap + 1
             b == SubSeq(s, lo, Len(s))
  <2>1. /\ lo \in 1..Len(s) /\ Len(s) - lo + 1 = cap /\ lo <= Len(s)
        /\ \A k \in lo..Len(s) : s[k] \in S
    BY <1>1, <1>2, ElementOfSeq
  <2>2. /\ b \in Seq(S)
        /\ Len(b) = cap
        /\ \A j \in 1..cap : b[j] = s[lo + j - 1]
    BY <1>1, <2>1, SubSeqFacts
  <2>3. EvictLru(s, cap) = b
    BY <1>2 DEF EvictLru
  <2>4. DOMAIN b = 1..cap
    BY <2>2, LenProperties
  <2> HIDE DEF b
  <2>5. \A j \in 1..cap : lo + j - 1 \in DOMAIN s
    BY <1>1, <1>2
  <2>6. b[cap] = s[Len(s)]
    BY <1>1, <2>1, <2>2
  <2>7. \A j \in 1..cap : \E m \in DOMAIN s : b[j] = s[m]
    BY <2>2, <2>5
  <2>8. cap \in 1..cap
    OBVIOUS
  <2> QED
    BY <2>2, <2>3, <2>4, <2>6, <2>7, <2>8
<1>3. CASE ~(Len(s) > cap)
  BY <1>1, <1>3 DEF EvictLru
<1> QED
  BY <1>2, <1>3
-----------------------------------------------------------------------------
(* What one command does to the invariant.                                 *)

\* The key of a prepare is a key.
LEMMA KeyOfType == \A command \in Command : KeyOf(command) \in PrepareKey
  BY DEF KeyOf, PrepareKey, Command, Shards

\* A built entry is an entry, of its own key.
LEMMA BuildEntryType ==
    ASSUME NEW command \in Command, NEW key, key = KeyOf(command)
    PROVE  /\ BuildEntry(key, command) \in PreparedEntry
           /\ BuildEntry(key, command).key = key
           /\ BuildEntry(key, command).task = key.task
           /\ BuildEntry(key, command).refcat = key.refcat
<1>1. key \in PrepareKey
  BY KeyOfType
<1>2. command.config_overrides \in Overrides /\ command.boresight \in Boresights
  BY DEF Command
<1>3. ShardIds[command.boresight] \in Shards
  BY <1>2 DEF Shards
<1> QED
  BY <1>1, <1>2, <1>3 DEF BuildEntry, PreparedEntry, KeyOf

\* None is no command.
LEMMA NoneIsNoCommand == \A c \in Command : c # None
  BY NoneAssumption

\* What a cache owes its keys, of a cache and the commands that go with it.
Owed(cache, commands) ==
    \A i \in DOMAIN cache : /\ cache[i].task = cache[i].key.task
                            /\ cache[i].refcat = cache[i].key.refcat
                            /\ commands[cache[i].key] # None

\* A hit reorders the cache, and the entry it found is then the newest.
LEMMA HitFacts ==
    ASSUME ConfigInv, NEW key, NEW i \in HitAt(key),
           preparedCache' = MoveToEnd(preparedCache, i)
    PROVE  /\ preparedCache' \in Seq(PreparedEntry)
           /\ Owed(preparedCache', prepareCommands)
           /\ Newest \in PreparedEntry
           /\ Newest.key = key /\ Newest.task = key.task /\ Newest.refcat = key.refcat
<1>1. /\ preparedCache \in Seq(PreparedEntry)
      /\ Owed(preparedCache, prepareCommands)
      /\ i \in DOMAIN preparedCache /\ preparedCache[i].key = key
  BY DEF ConfigInv, TypeOK, CachesMatchKeys, Owed, HitAt
<1>2. /\ preparedCache' \in Seq(PreparedEntry)
      /\ Len(preparedCache') = Len(preparedCache)
      /\ preparedCache'[Len(preparedCache)] = preparedCache[i]
      /\ \A j \in DOMAIN preparedCache' :
            \E m \in DOMAIN preparedCache : preparedCache'[j] = preparedCache[m]
  BY ZenonT(30), <1>1, MoveToEndFacts
<1>3. Owed(preparedCache', prepareCommands)
  BY <1>1, <1>2 DEF Owed
<1>4. preparedCache[i] \in PreparedEntry
  BY <1>1, LenProperties, ElementOfSeq
<1> QED
  BY <1>1, <1>2, <1>3, <1>4 DEF Newest, Owed

\* A miss appends the entry it built, and the newest entry is never evicted.
LEMMA MissFacts ==
    ASSUME ConfigInv, NEW command \in Command, NEW key, key = KeyOf(command),
           NEW commands, commands[key] # None,
           \A k \in PrepareKey : prepareCommands[k] # None => commands[k] # None,
           preparedCache' = EvictLru(Append(preparedCache, BuildEntry(key, command)),
                                     PREPARED_CACHE_CAP)
    PROVE  /\ preparedCache' \in Seq(PreparedEntry)
           /\ Owed(preparedCache', commands)
           /\ Newest \in PreparedEntry
           /\ Newest.key = key /\ Newest.task = key.task /\ Newest.refcat = key.refcat
<1> DEFINE e == BuildEntry(key, command)
           s == Append(preparedCache, e)
<1>1. /\ preparedCache \in Seq(PreparedEntry)
      /\ Owed(preparedCache, prepareCommands)
      /\ \A j \in DOMAIN preparedCache : preparedCache[j] \in PreparedEntry
  BY LenProperties, ElementOfSeq DEF ConfigInv, TypeOK, CachesMatchKeys, Owed
<1>2. e \in PreparedEntry /\ e.key = key /\ e.task = key.task /\ e.refcat = key.refcat
  BY BuildEntryType
<1> HIDE DEF e
<1>3. /\ s \in Seq(PreparedEntry) /\ s # <<>>
      /\ Len(s) = Len(preparedCache) + 1
      /\ \A j \in 1..Len(preparedCache) : s[j] = preparedCache[j]
      /\ s[Len(preparedCache) + 1] = e
  BY <1>1, <1>2, AppendProperties
<1>4. \A j \in DOMAIN preparedCache : preparedCache[j].key \in PrepareKey
  BY <1>1 DEF PreparedEntry
<1>5. Owed(s, commands)
  <2> SUFFICES ASSUME NEW j \in DOMAIN s
               PROVE  /\ s[j].task = s[j].key.task
                      /\ s[j].refcat = s[j].key.refcat
                      /\ commands[s[j].key] # None
    BY DEF Owed
  <2>1. /\ DOMAIN s = 1..(Len(preparedCache) + 1)
        /\ DOMAIN preparedCache = 1..Len(preparedCache)
        /\ Len(preparedCache) \in Nat
    BY <1>1, <1>3, LenProperties
  <2>2. CASE j = Len(preparedCache) + 1
    BY <2>2, <1>2, <1>3
  <2>3. CASE j # Len(preparedCache) + 1
    <3>1. j \in DOMAIN preparedCache /\ s[j] = preparedCache[j]
      BY <2>1, <2>3, <1>3
    <3> QED
      BY <3>1, <1>1, <1>4 DEF Owed
  <2> QED
    BY <2>2, <2>3
<1> HIDE DEF s
<1>6. /\ preparedCache' \in Seq(PreparedEntry)
      /\ Len(preparedCache') \in 1..PREPARED_CACHE_CAP
      /\ preparedCache'[Len(preparedCache')] = s[Len(s)]
      /\ \A j \in DOMAIN preparedCache' : \E m \in DOMAIN s : preparedCache'[j] = s[m]
  <2>1. preparedCache' = EvictLru(s, PREPARED_CACHE_CAP)
    BY DEF s, e
  <2>2. PREPARED_CACHE_CAP \in Nat \ {0}
    BY CapsAssumption
  <2>3. /\ EvictLru(s, PREPARED_CACHE_CAP) \in Seq(PreparedEntry)
        /\ Len(EvictLru(s, PREPARED_CACHE_CAP)) \in 1..PREPARED_CACHE_CAP
        /\ EvictLru(s, PREPARED_CACHE_CAP)[Len(EvictLru(s, PREPARED_CACHE_CAP))] = s[Len(s)]
        /\ \A j \in DOMAIN EvictLru(s, PREPARED_CACHE_CAP) :
              \E m \in DOMAIN s : EvictLru(s, PREPARED_CACHE_CAP)[j] = s[m]
    BY <1>3, <2>2, EvictLruFacts
  <2> QED
    BY <2>1, <2>3
<1>7. Owed(preparedCache', commands)
  BY <1>5, <1>6 DEF Owed
<1> QED
  BY <1>2, <1>3, <1>6, <1>7 DEF Newest

\* ensure_prepared's cache step: the newest entry is the command's own.
LEMMA PrepareCachesFacts ==
    ASSUME ConfigInv, NEW command \in Command, PrepareCaches(command)
    PROVE  /\ preparedCache' \in Seq(PreparedEntry)
           /\ prepareCommands' \in [PrepareKey -> Command \cup {None}]
           /\ CachesMatchKeys'
           /\ Newest \in PreparedEntry
           /\ Newest.key = KeyOf(command)
           /\ Newest.task = Newest.key.task /\ Newest.refcat = Newest.key.refcat
<1> DEFINE key == KeyOf(command)
<1>1. key \in PrepareKey
  BY KeyOfType
<1>2. prepareCommands \in [PrepareKey -> Command \cup {None}]
  BY DEF ConfigInv, TypeOK
<1>3. \A k \in PrepareKey : prepareCommands[k] # None => KeyOf(prepareCommands[k]) = k
  BY DEF ConfigInv, CachesMatchKeys
<1>4. CASE /\ preparedCache' = EvictLru(Append(preparedCache, BuildEntry(key, command)),
                                        PREPARED_CACHE_CAP)
           /\ prepareCommands' = [prepareCommands EXCEPT ![key] = command]
  <2> HIDE DEF key
  <2>1. command # None
    BY NoneIsNoCommand
  <2>2. /\ prepareCommands'[key] # None
        /\ \A k \in PrepareKey : prepareCommands[k] # None => prepareCommands'[k] # None
        /\ prepareCommands' \in [PrepareKey -> Command \cup {None}]
    BY <1>1, <1>2, <1>4, <2>1
  <2>3. /\ preparedCache' \in Seq(PreparedEntry)
        /\ Owed(preparedCache', prepareCommands')
        /\ Newest \in PreparedEntry
        /\ Newest.key = key /\ Newest.task = key.task /\ Newest.refcat = key.refcat
    BY <1>4, <2>2, MissFacts DEF key
  <2>4. \A k \in PrepareKey : prepareCommands'[k] # None => KeyOf(prepareCommands'[k]) = k
    BY <1>1, <1>2, <1>3, <1>4 DEF key
  <2> QED
    BY <2>2, <2>3, <2>4 DEF CachesMatchKeys, Owed, key
<1>5. CASE /\ \E i \in HitAt(key) : preparedCache' = MoveToEnd(preparedCache, i)
           /\ UNCHANGED prepareCommands
  <2> HIDE DEF key
  <2>1. /\ preparedCache' \in Seq(PreparedEntry)
        /\ Owed(preparedCache', prepareCommands)
        /\ Newest \in PreparedEntry
        /\ Newest.key = key /\ Newest.task = key.task /\ Newest.refcat = key.refcat
    BY <1>5, HitFacts
  <2> QED
    BY <2>1, <1>2, <1>3, <1>5 DEF CachesMatchKeys, Owed, key
<1> QED
  BY <1>4, <1>5 DEF PrepareCaches

\* ensure_prepared_for_push's cache step: the newest entry is the key's own,
\* found or rebuilt from the command retained for it.
LEMMA PushCachesFacts ==
    ASSUME ConfigInv, NEW key \in PrepareKey, prepareCommands[key] # None,
           PushCaches(key, prepareCommands[key])
    PROVE  /\ preparedCache' \in Seq(PreparedEntry)
           /\ prepareCommands' \in [PrepareKey -> Command \cup {None}]
           /\ CachesMatchKeys'
           /\ Newest \in PreparedEntry
           /\ Newest.key = key
           /\ Newest.task = Newest.key.task /\ Newest.refcat = Newest.key.refcat
<1> DEFINE command == prepareCommands[key]
<1>1. /\ prepareCommands \in [PrepareKey -> Command \cup {None}]
      /\ command \in Command /\ key = KeyOf(command)
  BY DEF ConfigInv, TypeOK, CachesMatchKeys
<1>2. \A k \in PrepareKey : prepareCommands[k] # None => KeyOf(prepareCommands[k]) = k
  BY DEF ConfigInv, CachesMatchKeys
<1>3. prepareCommands' = prepareCommands
  BY DEF PushCaches
<1>4. /\ preparedCache' \in Seq(PreparedEntry)
      /\ Owed(preparedCache', prepareCommands)
      /\ Newest \in PreparedEntry
      /\ Newest.key = key /\ Newest.task = key.task /\ Newest.refcat = key.refcat
  <2>1. CASE \E i \in HitAt(key) : preparedCache' = MoveToEnd(preparedCache, i)
    BY <2>1, HitFacts
  <2>2. CASE preparedCache' = EvictLru(Append(preparedCache, BuildEntry(key, command)),
                                       PREPARED_CACHE_CAP)
    <3> HIDE DEF command
    <3> QED
      BY <2>2, <1>1, MissFacts
  <2> QED
    BY <2>1, <2>2 DEF PushCaches
<1> QED
  BY <1>1, <1>2, <1>3, <1>4 DEF CachesMatchKeys, Owed

\* A filter half that is ensured is the newest one held, within the cap.
LEMMA EnsureFilterHalfFacts ==
    ASSUME filterCache \in Seq(FilterId), NEW id \in FilterId,
           Len(filterCache) <= CALIB_CACHE_CAP, EnsureFilterHalf(id)
    PROVE  /\ filterCache' \in Seq(FilterId)
           /\ Len(filterCache') <= CALIB_CACHE_CAP
           /\ filterCache' # <<>>
           /\ filterCache'[Len(filterCache')] = id
<1>1. CASE \E i \in FilterHits(id) : filterCache' = MoveToEnd(filterCache, i)
  <2>1. PICK i \in FilterHits(id) : filterCache' = MoveToEnd(filterCache, i)
    BY <1>1
  <2>2. i \in DOMAIN filterCache /\ filterCache[i] = id
    BY DEF FilterHits
  <2>3. /\ filterCache' \in Seq(FilterId)
        /\ Len(filterCache') = Len(filterCache)
        /\ Len(filterCache) \in Nat \ {0}
        /\ filterCache'[Len(filterCache)] = id
    BY <2>1, <2>2, MoveToEndFacts
  <2>4. filterCache' # <<>>
    BY <2>3, EmptySeq
  <2> QED
    BY <2>3, <2>4
<1>2. CASE filterCache' = EvictLru(Append(filterCache, id), CALIB_CACHE_CAP)
  <2> DEFINE s == Append(filterCache, id)
  <2>1. s \in Seq(FilterId) /\ s # <<>> /\ s[Len(s)] = id
    BY AppendProperties
  <2> HIDE DEF s
  <2>2. CALIB_CACHE_CAP \in Nat \ {0}
    BY CapsAssumption
  <2>3. /\ EvictLru(s, CALIB_CACHE_CAP) \in Seq(FilterId)
        /\ Len(EvictLru(s, CALIB_CACHE_CAP)) \in 1..CALIB_CACHE_CAP
        /\ EvictLru(s, CALIB_CACHE_CAP)[Len(EvictLru(s, CALIB_CACHE_CAP))] = s[Len(s)]
    BY <2>1, <2>2, EvictLruFacts
  <2>4. filterCache' = EvictLru(s, CALIB_CACHE_CAP)
    BY <1>2 DEF s
  <2>5. /\ filterCache' \in Seq(FilterId)
        /\ Len(filterCache') \in 1..CALIB_CACHE_CAP
        /\ filterCache'[Len(filterCache')] = id
    BY <2>1, <2>3, <2>4
  <2>6. Len(filterCache') <= CALIB_CACHE_CAP /\ filterCache' # <<>>
    BY <2>2, <2>5, EmptySeq
  <2> QED
    BY <2>5, <2>6
<1> QED
  BY <1>1, <1>2 DEF EnsureFilterHalf

\* What a command resolves to is a detector version and a half of its own filter.
LEMMA ResolveType ==
    ASSUME ConfigInv, NEW command \in Command
    PROVE  /\ Resolve(command).detector \in Versions
           /\ Resolve(command).filtered \in FilterId
           /\ Resolve(command).filtered[1] = command.physical_filter
<1>1. /\ command.calib_time \in Times /\ command.physical_filter \in Filters
  BY DEF Command
<1>2. /\ detectorRefs \in [Times -> Versions]
      /\ filterRefs \in [Filters \X Times -> Versions]
  BY DEF ConfigInv, TypeOK
<1>3. <<command.physical_filter, command.calib_time>> \in Filters \X Times
  BY <1>1
<1> QED
  BY <1>1, <1>2, <1>3 DEF Resolve, FilterId

\* The new mirrors all describe the entry that was activated.
LEMMA ActivateFacts ==
    ASSUME ConfigInv, NEW command \in Command, NEW entry \in PreparedEntry,
           entry.task = entry.key.task, entry.refcat = entry.key.refcat,
           entry.key.physical_filter = command.physical_filter,
           Activate(entry, command)
    PROVE  /\ filterCache' \in Seq(FilterId)
           /\ detectorCache' \in Versions \cup {None}
           /\ activeKey' = entry.key /\ activeKey' \in PrepareKey
           /\ task' = activeKey'.task /\ task' \in Overrides
           /\ refcatStore' = activeKey'.refcat /\ refcatStore' \in Shards
           /\ calibStore' \in CalibSet
           /\ calibStore'.physical_filter = activeKey'.physical_filter
           /\ MirrorsAgree'
           /\ CalibBoundIsReal'
<1> DEFINE ids == Resolve(command)
<1>1. /\ ids.detector \in Versions
      /\ ids.filtered \in FilterId
      /\ ids.filtered[1] = command.physical_filter
  BY ResolveType
<1>2. /\ detectorCache' = ids.detector
      /\ EnsureFilterHalf(ids.filtered)
      /\ activeKey' = entry.key
      /\ task' = entry.task
      /\ calibStore' = [physical_filter |-> command.physical_filter,
                        detector |-> detectorCache', filtered |-> ids.filtered]
      /\ refcatStore' = entry.refcat
  BY DEF Activate, EnsureDetectorHalf, Switch
<1> HIDE DEF ids
<1>3. /\ filterCache' \in Seq(FilterId)
      /\ Len(filterCache') <= CALIB_CACHE_CAP
      /\ filterCache' # <<>>
      /\ filterCache'[Len(filterCache')] = ids.filtered
  <2>1. filterCache \in Seq(FilterId) /\ Len(filterCache) <= CALIB_CACHE_CAP
    BY DEF ConfigInv, TypeOK, CalibBoundIsReal
  <2> QED
    BY <2>1, <1>1, <1>2, EnsureFilterHalfFacts
<1>4. entry.key \in PrepareKey /\ entry.task \in Overrides /\ entry.refcat \in Shards
  BY DEF PreparedEntry
<1>5. command.physical_filter \in Filters
  BY DEF Command
<1>6. /\ calibStore' \in CalibSet
      /\ calibStore'.physical_filter = command.physical_filter
      /\ calibStore'.filtered = ids.filtered
  BY <1>1, <1>2, <1>5 DEF CalibSet
<1>7. \A k \in PrepareKey : k # None
  BY NoneAssumption
<1>8. calibStore' # None
  BY <1>6, NoneAssumption
<1>9. MirrorsAgree'
  BY <1>1, <1>2, <1>4, <1>6, <1>7, <1>8 DEF MirrorsAgree
<1>10. CalibBoundIsReal'
  BY <1>3, <1>6 DEF CalibBoundIsReal
<1> QED
  BY <1>1, <1>2, <1>3, <1>4, <1>6, <1>9, <1>10

\* An activation that raises moves no mirror and no filter half.
LEMMA ActivateRaisesFacts ==
    ASSUME ConfigInv, NEW command \in Command, ActivateRaises(command)
    PROVE  /\ UNCHANGED mirrors
           /\ UNCHANGED filterCache
           /\ detectorCache' \in Versions \cup {None}
           /\ MirrorsAgree'
           /\ CalibBoundIsReal'
<1>1. UNCHANGED mirrors /\ UNCHANGED filterCache
  BY DEF ActivateRaises
<1>2. detectorCache' \in Versions \cup {None}
  BY ResolveType DEF ActivateRaises, EnsureDetectorHalf, ConfigInv, TypeOK
<1>3. MirrorsAgree /\ CalibBoundIsReal
  BY DEF ConfigInv
<1> QED
  BY <1>1, <1>2, <1>3 DEF mirrors, MirrorsAgree, CalibBoundIsReal

-----------------------------------------------------------------------------
(* The steps.                                                              *)

\* A fresh child has nothing in its caches.
LEMMA InitEstablishes == Init => ConfigInv
<1> SUFFICES ASSUME Init PROVE ConfigInv
  OBVIOUS
<1>1. /\ preparedCache = <<>> /\ filterCache = <<>>
      /\ prepareCommands = [k \in PrepareKey |-> None]
      /\ activeKey = None /\ task = None /\ calibStore = None /\ refcatStore = None
      /\ detectorCache = None /\ ran = None /\ reply = None /\ issued = {}
  BY DEF Init, FreshChild
<1>2. TypeOK
  BY <1>1 DEF TypeOK, Init
<1>3. CachesMatchKeys
  BY <1>1 DEF CachesMatchKeys
<1>4. MirrorsAgree /\ RunsOwnConfig
  BY <1>1 DEF MirrorsAgree, RunsOwnConfig
<1>5. CalibBoundIsReal
  BY <1>1, CapsAssumption DEF CalibBoundIsReal
<1> QED
  BY <1>2, <1>3, <1>4, <1>5 DEF ConfigInv

\* A prepare that succeeds (ensure_prepared).
LEMMA PrepareStep ==
    ASSUME ConfigInv, NEW command \in Command, Prepare(command)
    PROVE  ConfigInv'
<1>1. /\ preparedCache' \in Seq(PreparedEntry)
      /\ prepareCommands' \in [PrepareKey -> Command \cup {None}]
      /\ CachesMatchKeys'
      /\ Newest \in PreparedEntry
      /\ Newest.key = KeyOf(command)
      /\ Newest.task = Newest.key.task /\ Newest.refcat = Newest.key.refcat
  BY PrepareCachesFacts DEF Prepare
<1>2. KeyOf(command) \in PrepareKey /\ KeyOf(command).physical_filter = command.physical_filter
  BY KeyOfType DEF KeyOf
<1>3. Activate(Newest, command)
  BY DEF Prepare
<1> DEFINE entry == Newest
<1> HIDE DEF entry
<1>4. /\ entry \in PreparedEntry /\ entry.key.physical_filter = command.physical_filter
      /\ entry.task = entry.key.task /\ entry.refcat = entry.key.refcat
      /\ Activate(entry, command)
  BY <1>1, <1>2, <1>3 DEF entry
<1>5. /\ filterCache' \in Seq(FilterId)
      /\ detectorCache' \in Versions \cup {None}
      /\ activeKey' \in PrepareKey /\ task' \in Overrides /\ refcatStore' \in Shards
      /\ calibStore' \in CalibSet
      /\ MirrorsAgree' /\ CalibBoundIsReal'
  BY <1>4, ActivateFacts
<1>6. /\ issued' = issued \cup {KeyOf(command)}
      /\ reply' = [cmd |-> "prepare", ok |-> TRUE]
      /\ detectorRefs' = detectorRefs /\ filterRefs' = filterRefs /\ ran' = None
  BY DEF Prepare, certified
<1>7. TypeOK'
  BY <1>1, <1>2, <1>5, <1>6 DEF TypeOK, ConfigInv, Reply
<1>8. RunsOwnConfig'
  BY <1>6 DEF RunsOwnConfig, ConfigInv
<1> QED
  BY <1>1, <1>5, <1>7, <1>8 DEF ConfigInv

\* A prepare that raises at any of its stages.
LEMMA PrepareRaisesStep ==
    ASSUME ConfigInv, NEW command \in Command, PrepareRaises(command)
    PROVE  ConfigInv'
<1>1. /\ reply' = [cmd |-> "prepare", ok |-> FALSE]
      /\ ran' = None /\ UNCHANGED <<detectorRefs, filterRefs, issued>>
  BY DEF PrepareRaises, certified
<1>2. RunsOwnConfig'
  BY <1>1 DEF RunsOwnConfig, ConfigInv
<1>3. CASE UNCHANGED <<caches, calibCaches, mirrors>>
  BY <1>1, <1>2, <1>3
  DEF ConfigInv, TypeOK, CachesMatchKeys, MirrorsAgree, CalibBoundIsReal,
      caches, calibCaches, mirrors, Reply
<1>4. CASE PrepareCaches(command) /\ ActivateRaises(command)
  <2>1. /\ preparedCache' \in Seq(PreparedEntry)
        /\ prepareCommands' \in [PrepareKey -> Command \cup {None}]
        /\ CachesMatchKeys'
    BY <1>4, PrepareCachesFacts
  <2>2. /\ UNCHANGED mirrors /\ UNCHANGED filterCache
        /\ detectorCache' \in Versions \cup {None}
        /\ MirrorsAgree' /\ CalibBoundIsReal'
    BY <1>4, ActivateRaisesFacts
  <2>3. TypeOK'
    BY <1>1, <2>1, <2>2 DEF TypeOK, ConfigInv, mirrors, Reply
  <2> QED
    BY <1>2, <2>1, <2>2, <2>3 DEF ConfigInv
<1> QED
  BY <1>3, <1>4 DEF PrepareRaises

\* A push, whose entry is cached or rebuilt (ensure_prepared_for_push).
LEMMA PushStep ==
    ASSUME ConfigInv, NEW key \in PrepareKey, NEW rawFilter \in Filters,
           NEW rawShards \in Fields, Push(key, rawFilter, rawShards)
    PROVE  ConfigInv'
<1> DEFINE command == prepareCommands[key]
           entry == Newest
<1>1. /\ command # None /\ PushCaches(key, command)
      /\ Activate(entry, command)
      /\ RunJob(key, rawFilter, rawShards)
      /\ UNCHANGED <<detectorRefs, filterRefs, issued>>
  BY DEF Push, certified
<1>2. command \in Command /\ KeyOf(command) = key
  BY <1>1 DEF ConfigInv, TypeOK, CachesMatchKeys
<1>3. key.physical_filter = command.physical_filter
  BY <1>2 DEF KeyOf
<1>4. /\ preparedCache' \in Seq(PreparedEntry)
      /\ prepareCommands' \in [PrepareKey -> Command \cup {None}]
      /\ CachesMatchKeys'
      /\ entry \in PreparedEntry
      /\ entry.key = key
      /\ entry.task = entry.key.task /\ entry.refcat = entry.key.refcat
  BY <1>1, PushCachesFacts
<1> HIDE DEF entry, command
<1>5. /\ filterCache' \in Seq(FilterId)
      /\ detectorCache' \in Versions \cup {None}
      /\ activeKey' = key
      /\ task' = key.task /\ task' \in Overrides
      /\ refcatStore' = key.refcat /\ refcatStore' \in Shards
      /\ calibStore' \in CalibSet
      /\ calibStore'.physical_filter = key.physical_filter
      /\ MirrorsAgree' /\ CalibBoundIsReal'
  BY <1>1, <1>2, <1>3, <1>4, ActivateFacts
<1>6. /\ reply' \in Reply
      /\ ran' \in Run \cup {None}
      /\ RunsOwnConfig'
  <2>1. CASE calibStore'.physical_filter = rawFilter /\ rawShards \subseteq refcatStore'
    <3> DEFINE raws == [physical_filter |-> rawFilter, refcat |-> rawShards]
    <3>1. /\ reply' = [cmd |-> "push", ok |-> TRUE]
          /\ ran' = [key |-> key, task |-> task', refcat |-> refcatStore',
                     raws |-> raws, calib |-> calibStore']
      BY <1>1, <2>1 DEF RunJob
    <3>2. ran' \in Run
      BY <3>1, <1>5 DEF Run
    <3>3. RunsOwnConfig'
      BY <3>1, <1>5, <2>1 DEF RunsOwnConfig
    <3> QED
      BY <3>1, <3>2, <3>3 DEF Reply
  <2>2. CASE ~(calibStore'.physical_filter = rawFilter /\ rawShards \subseteq refcatStore')
    <3>1. reply' = [cmd |-> "push", ok |-> FALSE] /\ ran' = None
      BY <1>1, <2>2 DEF RunJob
    <3> QED
      BY <3>1 DEF Reply, ConfigInv, TypeOK, RunsOwnConfig
  <2> QED
    BY <2>1, <2>2
<1>7. TypeOK'
  BY <1>1, <1>4, <1>5, <1>6 DEF TypeOK, ConfigInv
<1> QED
  BY <1>4, <1>5, <1>6, <1>7 DEF ConfigInv

\* A push that raises while its entry is rebuilt or switched to.
LEMMA PushRaisesStep ==
    ASSUME ConfigInv, NEW key \in PrepareKey, PushRaises(key)
    PROVE  ConfigInv'
<1> DEFINE command == prepareCommands[key]
<1>1. /\ reply' = [cmd |-> "push", ok |-> FALSE]
      /\ ran' = None /\ UNCHANGED <<detectorRefs, filterRefs, issued>>
  BY DEF PushRaises, certified
<1>2. RunsOwnConfig'
  BY <1>1 DEF RunsOwnConfig, ConfigInv
<1>3. CASE UNCHANGED <<caches, calibCaches, mirrors>>
  BY <1>1, <1>2, <1>3
  DEF ConfigInv, TypeOK, CachesMatchKeys, MirrorsAgree, CalibBoundIsReal,
      caches, calibCaches, mirrors, Reply
<1>4. CASE command # None /\ PushCaches(key, command) /\ ActivateRaises(command)
  <2>1. command \in Command
    BY <1>4 DEF ConfigInv, TypeOK
  <2>2. /\ preparedCache' \in Seq(PreparedEntry)
        /\ prepareCommands' \in [PrepareKey -> Command \cup {None}]
        /\ CachesMatchKeys'
    BY <1>4, PushCachesFacts
  <2> HIDE DEF command
  <2>3. /\ UNCHANGED mirrors /\ UNCHANGED filterCache
        /\ detectorCache' \in Versions \cup {None}
        /\ MirrorsAgree' /\ CalibBoundIsReal'
    BY <1>4, <2>1, ActivateRaisesFacts
  <2>4. TypeOK'
    BY <1>1, <2>2, <2>3 DEF TypeOK, ConfigInv, mirrors, Reply
  <2> QED
    BY <1>2, <2>2, <2>3, <2>4 DEF ConfigInv
<1> QED
  BY <1>3, <1>4 DEF PushRaises

\* The butler resolves a dataset differently.
LEMMA RecertifyStep == ConfigInv /\ Recertify => ConfigInv'
<1> SUFFICES ASSUME ConfigInv, Recertify PROVE ConfigInv'
  OBVIOUS
<1>1. /\ detectorRefs' \in [Times -> Versions]
      /\ filterRefs' \in [Filters \X Times -> Versions]
      /\ reply' = None /\ ran' = None
  BY DEF Recertify, ConfigInv, TypeOK
<1>2. UNCHANGED <<preparedCache, prepareCommands, filterCache, detectorCache,
                  activeKey, task, calibStore, refcatStore, issued>>
  BY DEF Recertify, caches, calibCaches, mirrors
<1> QED
  BY <1>1, <1>2
  DEF ConfigInv, TypeOK, CachesMatchKeys, MirrorsAgree, CalibBoundIsReal, RunsOwnConfig

\* A new child replaces the old one.
LEMMA RestartStep == ConfigInv /\ Restart => ConfigInv'
<1> SUFFICES ASSUME ConfigInv, Restart PROVE ConfigInv'
  OBVIOUS
<1>1. /\ preparedCache' = <<>> /\ filterCache' = <<>>
      /\ prepareCommands' = [k \in PrepareKey |-> None]
      /\ activeKey' = None /\ task' = None /\ calibStore' = None /\ refcatStore' = None
      /\ detectorCache' = None /\ ran' = None /\ reply' = None
      /\ UNCHANGED <<detectorRefs, filterRefs, issued>>
  BY DEF Restart, certified
<1>2. TypeOK'
  BY <1>1 DEF TypeOK, ConfigInv
<1>3. CachesMatchKeys'
  BY <1>1 DEF CachesMatchKeys
<1>4. MirrorsAgree' /\ RunsOwnConfig'
  BY <1>1 DEF MirrorsAgree, RunsOwnConfig
<1>5. CalibBoundIsReal'
  BY <1>1, CapsAssumption DEF CalibBoundIsReal
<1> QED
  BY <1>2, <1>3, <1>4, <1>5 DEF ConfigInv

\* Every command, the registry and a restart preserve the invariant.
LEMMA NextPreserves == ConfigInv /\ [Next]_vars => ConfigInv'
<1> SUFFICES ASSUME ConfigInv, [Next]_vars PROVE ConfigInv'
  OBVIOUS
<1>1. ASSUME NEW c \in Commands, Prepare(c) \/ PrepareRaises(c) PROVE ConfigInv'
  BY <1>1, CommandsAssumption, PrepareStep, PrepareRaisesStep
<1>2. ASSUME NEW k \in issued, NEW f \in Filters, NEW s \in Fields, Push(k, f, s)
      PROVE  ConfigInv'
  BY <1>2, PushStep DEF ConfigInv, TypeOK
<1>3. ASSUME NEW k \in issued, PushRaises(k) PROVE ConfigInv'
  BY <1>3, PushRaisesStep DEF ConfigInv, TypeOK
<1>4. CASE Recertify
  BY <1>4, RecertifyStep
<1>5. CASE Restart
  BY <1>5, RestartStep
<1>6. CASE UNCHANGED vars
  BY <1>6
  DEF vars, caches, calibCaches, mirrors, certified,
      ConfigInv, TypeOK, CachesMatchKeys, MirrorsAgree, CalibBoundIsReal, RunsOwnConfig
<1> QED
  BY <1>1, <1>2, <1>3, <1>4, <1>5, <1>6 DEF Next

-----------------------------------------------------------------------------
(* The results.                                                            *)

\* The conjunction the other results rest on holds in every reachable state:
\* it is what one serial command of the coordinator leaves true.
THEOREM ConfigInvariant == Spec => []ConfigInv
  BY InitEstablishes, NextPreserves, PTL DEF Spec

\* The caches and the mirrors keep their shape, for any caps and any registry.
THEOREM TypeCorrect == Spec => []TypeOK
<1>1. ConfigInv => TypeOK
  BY DEF ConfigInv
<1> QED
  BY <1>1, ConfigInvariant, PTL

\* No job runs under another prepare's configuration (ensure_prepared_for_push).
THEOREM JobsRunTheirOwnConfig == Spec => []RunsOwnConfig
<1>1. ConfigInv => RunsOwnConfig
  BY DEF ConfigInv
<1> QED
  BY <1>1, ConfigInvariant, PTL

\* Cached entries and retained commands are the ones their keys name.
THEOREM CachesAreKeyed == Spec => []CachesMatchKeys
<1>1. ConfigInv => CachesMatchKeys
  BY DEF ConfigInv
<1> QED
  BY <1>1, ConfigInvariant, PTL

\* The mirror globals describe one entry at all times (_activate_entry).
THEOREM MirrorsAlwaysAgree == Spec => []MirrorsAgree
<1>1. ConfigInv => MirrorsAgree
  BY DEF ConfigInv
<1> QED
  BY <1>1, ConfigInvariant, PTL

\* The calib cap bounds what is resident, the active half included.
THEOREM CalibCapBoundsMemory == Spec => []CalibBoundIsReal
<1>1. ConfigInv => CalibBoundIsReal
  BY DEF ConfigInv
<1> QED
  BY <1>1, ConfigInvariant, PTL

-----------------------------------------------------------------------------
(* What one step may never do.                                              *)

\* No step but a refused prepare answers as one, and that one moves no mirror.
LEMMA RefusedPrepareMovesNothing ==
    ASSUME ConfigInv, Next, reply' = [cmd |-> "prepare", ok |-> FALSE]
    PROVE  UNCHANGED mirrors
<1>1. ASSUME NEW c \in Commands, Prepare(c) PROVE UNCHANGED mirrors
  BY <1>1 DEF Prepare
<1>2. ASSUME NEW c \in Commands, PrepareRaises(c) PROVE UNCHANGED mirrors
  BY <1>2 DEF PrepareRaises, ActivateRaises
<1>3. ASSUME NEW k, NEW f, NEW s, Push(k, f, s) \/ PushRaises(k) PROVE UNCHANGED mirrors
  BY <1>3 DEF Push, PushRaises, RunJob
<1>4. CASE Recertify
  BY <1>4 DEF Recertify
<1>5. CASE Restart
  <2>1. [cmd |-> "prepare", ok |-> FALSE] \in Reply
    BY DEF Reply
  <2> HIDE DEF Reply
  <2>2. reply' # None
    BY <2>1, NoneAssumption
  <2> QED
    BY <1>5, <2>2 DEF Restart
<1> QED
  BY <1>1, <1>2, <1>3, <1>4, <1>5 DEF Next

\* Only a restart forgets the command of a key, and it empties the cache as well.
LEMMA CommandsAreRetained ==
    ASSUME ConfigInv, Next, NEW k \in PrepareKey, prepareCommands[k] # None
    PROVE  prepareCommands'[k] # None \/ preparedCache' = <<>>
<1>1. ASSUME NEW c \in Commands, PrepareCaches(c) PROVE prepareCommands'[k] # None
  <2>1. c # None
    BY CommandsAssumption, NoneIsNoCommand
  <2>2. KeyOf(c) \in PrepareKey /\ prepareCommands \in [PrepareKey -> Command \cup {None}]
    BY CommandsAssumption, KeyOfType DEF ConfigInv, TypeOK
  <2> QED
    BY <1>1, <2>1, <2>2 DEF PrepareCaches
<1>2. ASSUME NEW c \in Commands, Prepare(c) \/ PrepareRaises(c) PROVE prepareCommands'[k] # None
  BY <1>1, <1>2 DEF Prepare, PrepareRaises, caches
<1>3. ASSUME NEW key, NEW f, NEW s, Push(key, f, s) \/ PushRaises(key)
      PROVE  prepareCommands'[k] # None
  BY <1>3 DEF Push, PushRaises, PushCaches, caches
<1>4. CASE Recertify
  BY <1>4 DEF Recertify, caches
<1>5. CASE Restart
  BY <1>5 DEF Restart
<1> QED
  BY <1>2, <1>3, <1>4, <1>5 DEF Next

\* A run takes both calib halves that its key resolves to in that very step.
LEMMA RunTakesCertifiedCalibs ==
    ASSUME ConfigInv, Next, ran' # None
    PROVE  LET k == ran'.key
           IN  /\ ran'.calib.detector = detectorRefs[k.calib_time]
               /\ ran'.calib.filtered =
                     <<k.physical_filter, filterRefs[<<k.physical_filter, k.calib_time>>]>>
<1>1. PICK key \in issued, f \in Filters, s \in Fields : Push(key, f, s)
  BY DEF Next, Prepare, PrepareRaises, PushRaises, Recertify, Restart
<1> DEFINE command == prepareCommands[key]
<1>2. key \in PrepareKey /\ command # None
  BY <1>1 DEF ConfigInv, TypeOK, Push
<1>3. command \in Command /\ KeyOf(command) = key
  BY <1>2 DEF ConfigInv, TypeOK, CachesMatchKeys
<1>4. key.calib_time = command.calib_time /\ key.physical_filter = command.physical_filter
  BY <1>3 DEF KeyOf
<1>5. /\ calibStore'.detector = Resolve(command).detector
      /\ calibStore'.filtered = Resolve(command).filtered
  BY <1>1 DEF Push, Activate, EnsureDetectorHalf, Switch
<1>6. ran'.key = key /\ ran'.calib = calibStore'
  BY <1>1 DEF Push, RunJob
<1> QED
  BY <1>4, <1>5, <1>6 DEF Resolve

\* A refused prepare leaves the active configuration as it was, wherever it
\* raised, with caches of any size (build_task, _activate_entry).
THEOREM RefusedPrepareIsHarmless ==
    Spec => FailedPrepareKeepsActive
<1>1. ConfigInv /\ [Next]_vars =>
        [reply' = [cmd |-> "prepare", ok |-> FALSE] => UNCHANGED mirrors]_vars
  BY RefusedPrepareMovesNothing
<1> QED
  BY <1>1, ConfigInvariant, PTL DEF Spec, FailedPrepareKeepsActive

\* Eviction never takes a prepared key's way back, however often the caches
\* turn over (_evict_lru, _PREPARE_COMMANDS).
THEOREM EvictionIsRecoverable ==
    Spec => EvictedStaysReloadable
<1>1. ConfigInv /\ [Next]_vars =>
        [\A k \in PrepareKey :
            prepareCommands[k] # None => prepareCommands'[k] # None \/ preparedCache' = <<>>]_vars
  BY CommandsAreRetained
<1> QED
  BY <1>1, ConfigInvariant, PTL DEF Spec, EvictedStaysReloadable

\* No run uses a calib half the registry has replaced, whatever the two calib
\* caches still hold (CalibIds, _ensure_calib).
THEOREM RunsAreCertified ==
    Spec => RunsOnCertifiedCalibs
<1>1. ConfigInv /\ [Next]_vars =>
        [ran' # None =>
            LET k == ran'.key
            IN  /\ ran'.calib.detector = detectorRefs[k.calib_time]
                /\ ran'.calib.filtered =
                      <<k.physical_filter, filterRefs[<<k.physical_filter, k.calib_time>>]>>]_vars
  BY RunTakesCertifiedCalibs
<1> QED
  BY <1>1, ConfigInvariant, PTL DEF Spec, RunsOnCertifiedCalibs

-----------------------------------------------------------------------------
(* The caches do not show.                                                  *)

\* The abstract view of a configuration that is active for a key.
LEMMA ActiveIsConfig ==
    ASSUME ConfigInv, NEW command \in Command, NEW key, key = KeyOf(command),
           NEW entry, entry.key = key, entry.task = key.task, entry.refcat = key.refcat,
           Activate(entry, command)
    PROVE  /\ key \in PrepareKey
           /\ activeConfig' = Uncached!Config(key)
           /\ activeKey' = key
           /\ calibStore'.physical_filter = key.physical_filter
           /\ refcatStore' = key.refcat
           /\ task' = key.task
           /\ calibStore' = Uncached!Config(key).calib
<1>1. key \in PrepareKey /\ key # None
  BY KeyOfType, NoneAssumption
<1>2. key.calib_time = command.calib_time /\ key.physical_filter = command.physical_filter
  BY DEF KeyOf
<1>3. /\ activeKey' = key /\ task' = key.task /\ refcatStore' = key.refcat
      /\ calibStore' = [physical_filter |-> key.physical_filter,
                        detector |-> detectorRefs[key.calib_time],
                        filtered |-> <<key.physical_filter,
                                       filterRefs[<<key.physical_filter, key.calib_time>>]>>]
  BY <1>2 DEF Activate, EnsureDetectorHalf, Switch, Resolve
<1>4. activeConfig' = [key |-> key, task |-> key.task, refcat |-> key.refcat,
                       calib |-> calibStore']
  BY <1>1, <1>3 DEF activeConfig
<1> QED
  BY <1>1, <1>3, <1>4 DEF Uncached!Config

\* What a prepare does to the keys that are known: its own is, whether the entry
\* was there or was built.
LEMMA PrepareKnows ==
    ASSUME ConfigInv, NEW command \in Command, PrepareCaches(command)
    PROVE  knownKeys' = knownKeys \cup {KeyOf(command)}
<1> DEFINE key == KeyOf(command)
<1>1. /\ key \in PrepareKey /\ command # None
      /\ prepareCommands \in [PrepareKey -> Command \cup {None}]
  BY KeyOfType, NoneIsNoCommand DEF ConfigInv, TypeOK
<1>2. CASE HitAt(key) = {} /\ prepareCommands' = [prepareCommands EXCEPT ![key] = command]
  BY <1>1, <1>2 DEF knownKeys
<1>3. CASE HitAt(key) # {} /\ UNCHANGED prepareCommands
  <2>1. prepareCommands[key] # None
    BY <1>3 DEF HitAt, ConfigInv, CachesMatchKeys
  <2> QED BY <1>1, <1>3, <2>1 DEF knownKeys
<1> QED BY <1>2, <1>3 DEF PrepareCaches

LEMMA UncachedInit == ConfigInv /\ Init => Uncached!Init
<1> SUFFICES ASSUME Init PROVE Uncached!Init
  OBVIOUS
<1>1. knownKeys = {}
  BY DEF Init, FreshChild, knownKeys
<1>2. activeConfig = None /\ ranUnder = None
  BY DEF Init, FreshChild, activeConfig, ranUnder
<1> QED BY <1>1, <1>2 DEF Init, Uncached!Init

\* A prepare activates what a child without caches would build.
LEMMA UncachedPrepare ==
    ASSUME ConfigInv, NEW command \in Command, Prepare(command)
    PROVE  Uncached!Prepare(KeyOf(command))
<1>1. /\ Newest.key = KeyOf(command)
      /\ Newest.task = KeyOf(command).task
      /\ Newest.refcat = KeyOf(command).refcat
  BY PrepareCachesFacts DEF Prepare
<1>2. activeConfig' = Uncached!Config(KeyOf(command))
  <2>1. Activate(Newest, command)
    BY DEF Prepare
  <2> QED BY <1>1, <2>1, ActiveIsConfig
<1>3. knownKeys' = knownKeys \cup {KeyOf(command)}
  BY PrepareKnows DEF Prepare
<1>4. ranUnder' = None /\ reply' = [cmd |-> "prepare", ok |-> TRUE]
      /\ UNCHANGED <<detectorRefs, filterRefs>>
  BY DEF Prepare, ranUnder, certified
<1> QED BY <1>2, <1>3, <1>4 DEF Uncached!Prepare, Uncached!Answer, Uncached!registry

\* A refused one leaves what is active.
LEMMA UncachedRefusePrepare ==
    ASSUME ConfigInv, NEW command \in Command, PrepareRaises(command)
    PROVE  Uncached!RefusePrepare(KeyOf(command))
<1>1. UNCHANGED mirrors
  BY DEF PrepareRaises, ActivateRaises
<1>2. UNCHANGED activeConfig
  BY <1>1 DEF mirrors, activeConfig
<1>3. knownKeys' \in {knownKeys, knownKeys \cup {KeyOf(command)}}
  <2>1. CASE UNCHANGED caches
    BY <2>1 DEF caches, knownKeys
  <2>2. CASE PrepareCaches(command)
    BY <2>2, PrepareKnows
  <2> QED BY <2>1, <2>2 DEF PrepareRaises
<1>4. ranUnder' = None /\ reply' = [cmd |-> "prepare", ok |-> FALSE]
      /\ UNCHANGED <<detectorRefs, filterRefs>>
  BY DEF PrepareRaises, ranUnder, certified
<1> QED BY <1>2, <1>3, <1>4 DEF Uncached!RefusePrepare, Uncached!Answer, Uncached!registry

\* A job runs under the configuration its key stands for, evicted or not, or
\* finds that its raws are of another filter or field.
LEMMA UncachedPush ==
    ASSUME ConfigInv, NEW key \in PrepareKey, NEW f \in Filters, NEW s \in Fields,
           Push(key, f, s)
    PROVE  Uncached!Push(key, f, s)
<1> DEFINE command == prepareCommands[key]
<1>1. command \in Command /\ KeyOf(command) = key /\ key \in knownKeys
  BY DEF Push, ConfigInv, TypeOK, CachesMatchKeys, knownKeys
<1>2. Newest.key = key /\ Newest.task = key.task /\ Newest.refcat = key.refcat
  BY <1>1, PushCachesFacts DEF Push
<1>3. Activate(Newest, command)
  BY DEF Push
<1>4. /\ activeConfig' = Uncached!Config(key)
      /\ calibStore'.physical_filter = key.physical_filter
      /\ refcatStore' = key.refcat
      /\ task' = key.task
      /\ calibStore' = Uncached!Config(key).calib
  <2> HIDE DEF command
  <2> QED BY <1>1, <1>2, <1>3, ActiveIsConfig
<1>5. knownKeys' = knownKeys /\ UNCHANGED <<detectorRefs, filterRefs>>
  BY DEF Push, PushCaches, certified, knownKeys
<1>6. CASE key.physical_filter = f /\ s \subseteq key.refcat
  <2>1. /\ reply' = [cmd |-> "push", ok |-> TRUE]
        /\ ran' = [key |-> key, task |-> task', refcat |-> refcatStore',
                   raws |-> [physical_filter |-> f, refcat |-> s], calib |-> calibStore']
    BY <1>4, <1>6 DEF Push, RunJob
  <2>2. ran' # None
    <3>1. key.task \in Overrides /\ key.calib_time \in Times
      BY DEF PrepareKey
    <3>2. calibStore' \in CalibSet
      BY <1>4, <1>6, <3>1 DEF Uncached!Config, CalibSet, FilterId, ConfigInv, TypeOK
    <3>3. ran' \in Run
      BY <1>4, <1>6, <2>1, <3>1, <3>2 DEF Run, PrepareKey
    <3> QED BY <3>3, NoneAssumption
  <2>3. ranUnder' = Uncached!Config(key)
    BY <1>4, <2>1, <2>2 DEF ranUnder, Uncached!Config
  <2> QED BY <1>1, <1>4, <1>5, <1>6, <2>1, <2>3 DEF Uncached!Push, Uncached!Answer, Uncached!registry
<1>7. CASE ~(key.physical_filter = f /\ s \subseteq key.refcat)
  <2>1. reply' = [cmd |-> "push", ok |-> FALSE] /\ ran' = None
    BY <1>4, <1>7 DEF Push, RunJob
  <2>2. ranUnder' = None
    BY <2>1 DEF ranUnder
  <2> QED BY <1>1, <1>4, <1>5, <1>7, <2>1, <2>2 DEF Uncached!Push, Uncached!Answer, Uncached!registry
<1> QED BY <1>6, <1>7

LEMMA UncachedRefusePush ==
    ASSUME ConfigInv, NEW key, PushRaises(key)
    PROVE  Uncached!RefusePush
<1>1. UNCHANGED mirrors
  BY DEF PushRaises, ActivateRaises
<1>2. UNCHANGED prepareCommands
  BY DEF PushRaises, PushCaches, caches
<1>3. UNCHANGED <<activeConfig, knownKeys>>
  BY <1>1, <1>2 DEF mirrors, activeConfig, knownKeys
<1>4. ranUnder' = None /\ reply' = [cmd |-> "push", ok |-> FALSE]
      /\ UNCHANGED <<detectorRefs, filterRefs>>
  BY DEF PushRaises, ranUnder, certified
<1> QED BY <1>3, <1>4 DEF Uncached!RefusePush, Uncached!Answer, Uncached!registry

LEMMA UncachedRecertify ==
    ASSUME ConfigInv, Recertify
    PROVE  Uncached!Recertify
<1>1. detectorRefs' \in [Times -> Versions] /\ filterRefs' \in [Filters \X Times -> Versions]
  BY DEF Recertify, ConfigInv, TypeOK
<1>2. UNCHANGED <<activeConfig, knownKeys>> /\ ranUnder' = None /\ reply' = None
  BY DEF Recertify, caches, mirrors, activeConfig, knownKeys, ranUnder
<1> QED BY <1>1, <1>2 DEF Uncached!Recertify

LEMMA UncachedRestart ==
    ASSUME Restart
    PROVE  Uncached!Restart
<1>1. knownKeys' = {} /\ activeConfig' = None /\ ranUnder' = None /\ reply' = None
      /\ UNCHANGED <<detectorRefs, filterRefs>>
  BY DEF Restart, certified, activeConfig, knownKeys, ranUnder
<1> QED BY <1>1 DEF Uncached!Restart, Uncached!registry

\* Every step of the child with its caches is one of a child without.
LEMMA UncachedStep ==
    ASSUME ConfigInv, [Next]_vars
    PROVE  [Uncached!Next]_(Uncached!vars)
<1>1. ASSUME NEW c \in Commands, Prepare(c) \/ PrepareRaises(c) PROVE Uncached!Next
  <2>1. c \in Command /\ KeyOf(c) \in PrepareKey
    BY CommandsAssumption, KeyOfType
  <2>2. Uncached!Prepare(KeyOf(c)) \/ Uncached!RefusePrepare(KeyOf(c))
    BY <1>1, <2>1, UncachedPrepare, UncachedRefusePrepare
  <2> QED BY <2>1, <2>2 DEF Uncached!Next
<1>2. ASSUME NEW k \in issued, NEW f \in Filters, NEW s \in Fields, Push(k, f, s)
      PROVE  Uncached!Next
  <2>1. k \in PrepareKey
    BY DEF ConfigInv, TypeOK
  <2> QED BY <1>2, <2>1, UncachedPush DEF Uncached!Next
<1>3. ASSUME NEW k \in issued, PushRaises(k) PROVE Uncached!Next
  BY <1>3, UncachedRefusePush DEF Uncached!Next
<1>4. CASE Recertify
  BY <1>4, UncachedRecertify DEF Uncached!Next
<1>5. CASE Restart
  BY <1>5, UncachedRestart DEF Uncached!Next
<1>6. CASE UNCHANGED vars
  BY <1>6 DEF vars, caches, calibCaches, mirrors, certified, activeConfig, knownKeys, ranUnder,
              Uncached!vars, Uncached!registry
<1> QED BY <1>1, <1>2, <1>3, <1>4, <1>5, <1>6 DEF Next

\* The child with its caches implements the child without, for any caps: the
\* caches are an optimisation, and nothing but time tells them.
THEOREM CachesDoNotShow == Spec => CachesAreInvisible
<1>1. Init => Uncached!Init
  BY UncachedInit, InitEstablishes
<1>2. ConfigInv /\ [Next]_vars => [Uncached!Next]_(Uncached!vars)
  BY UncachedStep
<1> QED BY <1>1, <1>2, ConfigInvariant, PTL DEF Spec, Uncached!Spec, CachesAreInvisible

-----------------------------------------------------------------------------
(* The catalog shards.                                                     *)

\* The catalogs of the first i parents.
ReadShards(order, i) == UNION {Children[order[j]] : j \in 1..i}

\* Each of its parents is in the cache once.
Listed(cache) == Lists(cache, ToSet(cache))

\* What a call begins with.
Begun == [cache |-> shardCache, shards |-> {}, raised |-> FALSE]

\* g is what the parents of a call leave, up to the n-th: what Reads chooses.
ReadsUpTo(order, n, g) ==
    g = [i \in 0..n |-> IF i = 0 THEN Begun ELSE Touch(g[i-1], order[i])]

LEMMA ReadsExist ==
    ASSUME NEW order
    PROVE  \A n \in Nat : \E g : ReadsUpTo(order, n, g)
<1> DEFINE P == {n \in Nat : \E g : ReadsUpTo(order, n, g)}
<1>1. 0 \in P
  <2> DEFINE g == [i \in 0..0 |-> Begun]
  <2>1. ReadsUpTo(order, 0, g)
    BY DEF ReadsUpTo
  <2> QED BY <2>1
<1>2. ASSUME NEW n \in Nat, n \in P PROVE n + 1 \in P
  <2>1. PICK g : ReadsUpTo(order, n, g)
    BY <1>2
  <2> DEFINE next == Touch(g[n], order[n + 1])
             h == [i \in 0..(n + 1) |-> IF i = n + 1 THEN next ELSE g[i]]
  <2>2. \A i \in 0..(n + 1) :
           h[i] = IF i = 0 THEN Begun ELSE Touch(h[i-1], order[i])
    <3>1. \A i \in 0..n : g[i] = IF i = 0 THEN Begun ELSE Touch(g[i-1], order[i])
      BY <2>1 DEF ReadsUpTo
    <3>2. ASSUME NEW i \in 0..(n + 1)
          PROVE  h[i] = IF i = 0 THEN Begun ELSE Touch(h[i-1], order[i])
      <4>1. CASE i = n + 1
        <5>1. h[i] = next /\ i # 0 /\ h[i - 1] = g[n] /\ order[i] = order[n + 1] /\ i - 1 = n
          BY <4>1
        <5> HIDE DEF h
        <5> QED BY <5>1
      <4>2. CASE i # n + 1
        <5>1. i \in 0..n /\ h[i] = g[i]
          BY <4>2
        <5>2. i # 0 => h[i - 1] = g[i - 1]
          BY <4>2
        <5> HIDE DEF h
        <5> QED BY <3>1, <5>1, <5>2
      <4> QED BY <4>1, <4>2
    <3> QED BY <3>2
  <2>3. ReadsUpTo(order, n + 1, h)
    <3>1. h = [i \in 0..(n + 1) |-> h[i]]
      OBVIOUS
    <3> HIDE DEF h
    <3> QED BY <2>2, <3>1 DEF ReadsUpTo
  <2> QED BY <2>3
<1> HIDE DEF P
<1>3. Nat \subseteq P
  BY <1>1, <1>2, NatInduct
<1> QED BY <1>3 DEF P

\* A call reads on, from what the parents before left.
LEMMA ReadsAre ==
    ASSUME NEW order, Len(order) \in Nat
    PROVE  ReadsUpTo(order, Len(order), Reads(order))
<1>1. PICK g : ReadsUpTo(order, Len(order), g)
  BY ReadsExist
<1>2. Reads(order) = CHOOSE r : ReadsUpTo(order, Len(order), r)
  BY DEF Reads, ReadsUpTo, Begun
<1> QED BY <1>1, <1>2

\* The cache ends with the first i parents of a call, in order.
EndsWith(c, order, i) ==
    i <= Len(c) /\ \A j \in 1..i : c[Len(c) - i + j] = order[j]

\* The next parent is none of the first i.
NewAfter(order, i) == \A j \in 1..i : order[j] # order[i + 1]

\* The parents a call has moved to the end stay there, in order, as it moves the
\* next.
LEMMA LastInOrder ==
    ASSUME NEW c, Listed(c), NEW order, NEW i \in Nat,
           NewAfter(order, i), EndsWith(c, order, i),
           NEW m, m = Append(RemoveFirst(c, order[i + 1]), order[i + 1])
    PROVE  Listed(m) /\ EndsWith(m, order, i + 1)
<1>1. PICK S, x, n : S = ToSet(c) /\ x = order[i + 1] /\ n = Len(c)
  OBVIOUS
<1>2. Lists(c, S) /\ m = Append(RemoveFirst(c, x), x)
  BY <1>1 DEF Listed
<1>3. /\ Lists(m, S \cup {x})
      /\ Len(m) \in {Len(c), Len(c) + 1} \ {0}
      /\ m[Len(m)] = x
      /\ MoveUp(c, x, m)
  BY <1>2, QueueMoveToEnd
<1>4. Listed(m)
  <2>1. ToSet(m) = S \cup {x}
    BY <1>3, QueueSet
  <2> QED BY <1>3, <2>1 DEF Listed
<1>5. n \in Nat /\ i <= n /\ \A j \in 1..i : c[n - i + j] = order[j]
  <2>1. n \in Nat
    BY <1>1, <1>2, LenProperties DEF Lists
  <2> QED BY <1>1, <2>1 DEF EndsWith
<1>6. /\ Len(m) \in {n, n + 1} \ {0}
      /\ \A j \in 1..n : (\A k \in j..n : c[k] # x) =>
            Len(m) - 1 - (n - j) \in 1..Len(m) /\ m[Len(m) - 1 - (n - j)] = c[j]
  BY <1>1, <1>3 DEF MoveUp
<1>7. ASSUME NEW j \in 1..i
      PROVE  Len(m) - (i + 1) + j \in 1..Len(m) /\ m[Len(m) - (i + 1) + j] = order[j]
  <2> DEFINE at == n - i + j
  <2>1. at \in 1..n
    BY <1>5
  <2>2. ASSUME NEW k \in at..n PROVE c[k] # x
    <3>1. k - (n - i) \in 1..i /\ n - i + (k - (n - i)) = k
      BY <1>5, <2>1
    <3>2. c[k] = order[k - (n - i)]
      BY <1>5, <3>1
    <3> QED BY <1>1, <3>1, <3>2 DEF NewAfter
  <2>3. Len(m) - 1 - (n - at) \in 1..Len(m) /\ m[Len(m) - 1 - (n - at)] = c[at]
    BY <1>6, <2>1, <2>2
  <2>4. Len(m) - 1 - (n - at) = Len(m) - (i + 1) + j
    BY <1>5, <1>6
  <2> QED BY <1>5, <2>3, <2>4
<1>8. Len(m) \in Nat /\ Len(m) # 0
  BY <1>5, <1>6
<1>9. i + 1 <= Len(m)
  <2>1. CASE i = 0
    BY <1>8, <2>1
  <2>2. CASE i # 0
    <3>1. 1 \in 1..i
      BY <2>2
    <3>2. Len(m) - (i + 1) + 1 \in 1..Len(m)
      BY <1>7, <3>1
    <3> QED BY <1>8, <3>2
  <2> QED BY <2>1, <2>2
<1>10. \A j \in 1..(i + 1) : m[Len(m) - (i + 1) + j] = order[j]
  <2> SUFFICES ASSUME NEW j \in 1..(i + 1) PROVE m[Len(m) - (i + 1) + j] = order[j]
    OBVIOUS
  <2>1. CASE j = i + 1
    <3>1. Len(m) - (i + 1) + j = Len(m)
      BY <1>8, <2>1
    <3> QED BY <1>1, <1>3, <2>1, <3>1
  <2>2. CASE j # i + 1
    <3>1. j \in 1..i
      BY <2>2
    <3> QED BY <1>7, <3>1
  <2> QED BY <2>1, <2>2
<1> QED BY <1>4, <1>9, <1>10 DEF EndsWith

\* What a call has read and moved to the end, of the first i parents it wants.
ReadSoFar(order, i, r) ==
    /\ r = [cache |-> r.cache, shards |-> r.shards, raised |-> r.raised]
    /\ r.raised \in BOOLEAN
    /\ Listed(r.cache)
    /\ ~r.raised => /\ r.shards = ReadShards(order, i)
                    /\ EndsWith(r.cache, order, i)

LEMMA TouchReads ==
    ASSUME NEW order, NEW i \in Nat, NewAfter(order, i),
           NEW r, ReadSoFar(order, i, r)
    PROVE  ReadSoFar(order, i + 1, Touch(r, order[i + 1]))
<1>1. PICK id, c, m, t : /\ id = order[i + 1] /\ c = r.cache
                         /\ m = Append(RemoveFirst(c, id), id)
                         /\ t = Touch(r, id)
  OBVIOUS
<1>2. /\ r = [cache |-> c, shards |-> r.shards, raised |-> r.raised]
      /\ r.raised \in BOOLEAN /\ Listed(c)
  BY <1>1 DEF ReadSoFar
<1>3. CASE r.raised \/ (~Contains(c, id) /\ ~Reshard(id))
  <2>1. t = [r EXCEPT !.raised = TRUE]
    BY <1>1, <1>3 DEF Touch
  <2>2. t = [cache |-> c, shards |-> r.shards, raised |-> TRUE]
    <3>1. PICK sh, ra : r = [cache |-> c, shards |-> sh, raised |-> ra]
      BY <1>2
    <3>2. r.shards = sh
      BY <3>1
    <3> QED BY <2>1, <3>1, <3>2
  <2>3. t.cache = c /\ t.shards = r.shards /\ t.raised = TRUE
    BY <2>2
  <2> QED BY <1>1, <1>2, <2>2, <2>3 DEF ReadSoFar
<1>4. CASE ~(r.raised \/ (~Contains(c, id) /\ ~Reshard(id)))
  <2>1. t = [r EXCEPT !.shards = r.shards \cup Children[id], !.cache = m]
    BY <1>1, <1>4 DEF Touch
  <2>2. t = [cache |-> m, shards |-> r.shards \cup Children[id], raised |-> FALSE]
    BY <1>2, <1>4, <2>1
  <2>3. /\ r.shards = ReadShards(order, i)
        /\ EndsWith(c, order, i)
    BY <1>1, <1>4 DEF ReadSoFar
  <2>4. Listed(m) /\ EndsWith(m, order, i + 1)
    <3>1. Listed(c) /\ m = Append(RemoveFirst(c, order[i + 1]), order[i + 1])
      BY <1>1, <1>2
    <3> QED BY <2>3, <3>1, LastInOrder
  <2>5. r.shards \cup Children[id] = ReadShards(order, i + 1)
    <3>1. 1..(i + 1) = (1..i) \cup {i + 1}
      OBVIOUS
    <3>2. \A x : x \in ReadShards(order, i + 1)
                    <=> x \in ReadShards(order, i) \/ x \in Children[order[i + 1]]
      BY ONLY <3>1 DEF ReadShards
    <3> QED BY <1>1, <2>3, <3>2
  <2>6. t.cache = m /\ t.shards = ReadShards(order, i + 1) /\ t.raised = FALSE
    BY <2>2, <2>5
  <2> QED BY <1>1, <2>2, <2>4, <2>5, <2>6 DEF ReadSoFar
<1> QED BY <1>3, <1>4

\* No parent comes twice.
NoneTwice(order) == \A i \in 0..(Len(order) - 1) : NewAfter(order, i)

\* What holds of a call after each of its parents.
LEMMA ReadsFacts ==
    ASSUME Listed(shardCache), NEW order, Len(order) \in Nat, NoneTwice(order),
           NEW i \in 0..Len(order)
    PROVE  ReadSoFar(order, i, Reads(order)[i])
<1>1. PICK n, g : n = Len(order) /\ g = Reads(order)
  OBVIOUS
<1>2. n \in Nat /\ \A k \in 0..n : g[k] = IF k = 0 THEN Begun ELSE Touch(g[k-1], order[k])
  BY <1>1, ReadsAre DEF ReadsUpTo
<1> DEFINE P == {k \in Nat : k <= n => ReadSoFar(order, k, g[k])}
<1>3. 0 \in P
  <2>1. g[0] = Begun
    BY <1>2
  <2>2. PICK c : c = shardCache
    OBVIOUS
  <2>3. Begun = [cache |-> c, shards |-> {}, raised |-> FALSE]
    BY <2>2 DEF Begun
  <2>4. Begun.cache = c /\ Begun.shards = {} /\ Begun.raised = FALSE
    BY <2>3
  <2>5. ReadShards(order, 0) = {}
    BY DEF ReadShards
  <2>6. EndsWith(c, order, 0)
    <3>1. Len(c) \in Nat
      BY <2>2, LenProperties DEF Listed, Lists
    <3> QED BY <3>1 DEF EndsWith
  <2>7. ReadSoFar(order, 0, Begun)
    BY <2>2, <2>3, <2>4, <2>5, <2>6 DEF ReadSoFar
  <2> QED BY <2>1, <2>7
<1>4. ASSUME NEW k \in Nat, k \in P PROVE k + 1 \in P
  <2>1. SUFFICES ASSUME k + 1 <= n PROVE ReadSoFar(order, k + 1, g[k + 1])
    OBVIOUS
  <2>2. ReadSoFar(order, k, g[k]) /\ k \in 0..(n - 1)
    BY <1>2, <1>4, <2>1
  <2>3. g[k + 1] = Touch(g[k], order[k + 1])
    <3>1. k + 1 \in 0..n /\ k + 1 # 0 /\ (k + 1) - 1 = k
      BY <1>2, <2>1
    <3> QED BY <1>2, <3>1
  <2>4. NewAfter(order, k)
    BY <1>1, <2>2 DEF NoneTwice
  <2>5. PICK r : r = g[k]
    OBVIOUS
  <2>6. ReadSoFar(order, k + 1, Touch(r, order[k + 1]))
    BY <2>2, <2>4, <2>5, TouchReads
  <2> QED BY <2>3, <2>5, <2>6
<1> HIDE DEF P
<1>5. Nat \subseteq P
  BY <1>3, <1>4, NatInduct
<1>6. i \in Nat /\ i <= n
  BY <1>1, <1>2
<1> QED BY <1>1, <1>5, <1>6 DEF P

\* The parents of a pointing in order: each once, and nothing else.
LEMMA SortedFacts ==
    ASSUME NEW w \in SUBSET Nat, IsFiniteSet(w)
    PROVE  /\ Cardinality(w) \in Nat
           /\ Len(Sorted(w)) = Cardinality(w)
           /\ NoneTwice(Sorted(w))
           /\ ToSet(Sorted(w)) = w
           /\ DOMAIN Sorted(w) = 1..Cardinality(w)
<1>1. PICK q, n : q = Sorted(w) /\ n = Cardinality(w)
  OBVIOUS
<1>2. q = InOrder(w)
  BY <1>1 DEF Sorted, InOrder
<1>3. /\ q \in [1..n -> w]
      /\ \A i \in 1..n : Rank(w, q[i]) = i - 1
      /\ \A d \in w : d = q[Rank(w, d) + 1]
  BY <1>1, <1>2, OrderFacts
<1>4. n \in Nat /\ \A d \in w : Rank(w, d) \in 0..(n - 1)
  BY <1>1, RankFacts
<1>5. Len(q) = n /\ DOMAIN q = 1..n
  <2>1. q \in Seq(w) /\ DOMAIN q = 1..n
    BY <1>3, <1>4, FunctionIsSeq
  <2> QED BY <1>4, <2>1, LenProperties
<1>6. NoneTwice(q)
  <2> SUFFICES ASSUME NEW i \in 0..(n - 1), NEW j \in 1..i PROVE q[j] # q[i + 1]
    BY <1>5 DEF NoneTwice, NewAfter
  <2>1. j \in 1..n /\ i + 1 \in 1..n /\ j - 1 # (i + 1) - 1
    BY <1>4
  <2> QED BY <1>3, <2>1
<1>7. ToSet(q) = w
  <2>1. \A d \in w : Rank(w, d) + 1 \in 1..n
    BY <1>4
  <2> QED BY <1>3, <1>5, <2>1 DEF ToSet
<1> QED BY <1>1, <1>4, <1>5, <1>6, <1>7

\* e is the end of c.
EndOf(e, c) == \A j \in 1..Len(e) : e[j] = c[Len(c) - Len(e) + j]

\* The eviction keeps the end of the cache, as much as its cap allows.
LEMMA EvictFacts ==
    ASSUME NEW c, Listed(c), NEW e, e = Evict(c)
    PROVE  /\ Listed(e)
           /\ Len(e) = IF Len(c) > SHARD_CACHE_CAP THEN SHARD_CACHE_CAP ELSE Len(c)
           /\ EndOf(e, c)
<1>1. PICK n, S, cap : n = Len(c) /\ S = ToSet(c) /\ cap = SHARD_CACHE_CAP
  OBVIOUS
<1>2. /\ n \in Nat /\ c \in Seq(S) /\ cap \in Nat \ {0}
      /\ \A i \in 1..n : c[i] \in S
      /\ \A i, j \in 1..n : c[i] = c[j] => i = j
  BY <1>1, LenProperties, ElementOfSeq, ShardCacheAssumption DEF Listed, Lists, IsInjective
<1>3. CASE ~(n > cap)
  <2>1. e = c
    BY <1>1, <1>3 DEF Evict
  <2>2. \A j \in 1..n : n - n + j = j
    BY <1>2
  <2> QED BY <1>1, <1>3, <2>1, <2>2 DEF EndOf
<1>4. CASE n > cap
  <2>1. e = SubSeq(c, n - cap + 1, n)
    BY <1>1, <1>4 DEF Evict
  <2>2. /\ e \in Seq(S)
        /\ Len(e) = cap
        /\ \A j \in 1..cap : e[j] = c[n - cap + j]
    <3>1. PICK m : m = n - cap + 1
      OBVIOUS
    <3>2. m \in Int /\ n \in Int /\ m <= n /\ n - m + 1 = cap /\ \A i \in m..n : c[i] \in S
      BY <1>2, <1>4, <3>1
    <3>3. /\ SubSeq(c, m, n) \in Seq(S)
          /\ Len(SubSeq(c, m, n)) = IF m <= n THEN n - m + 1 ELSE 0
          /\ \A i \in 1..(n - m + 1) : SubSeq(c, m, n)[i] = c[m + i - 1]
      BY ONLY <3>2, SubSeqProperties
    <3>4. \A j \in 1..cap : m + j - 1 = n - cap + j
      BY <1>2, <3>1
    <3> QED BY <2>1, <3>1, <3>2, <3>3, <3>4
  <2>3. DOMAIN e = 1..cap
    BY <1>2, <2>2, LenProperties
  <2>4. IsInjective(e)
    <3> SUFFICES ASSUME NEW i \in 1..cap, NEW j \in 1..cap, e[i] = e[j] PROVE i = j
      BY <2>3 DEF IsInjective
    <3>1. n - cap + i \in 1..n /\ n - cap + j \in 1..n
      BY <1>2, <1>4
    <3>2. n - cap + i = n - cap + j
      BY <1>2, <2>2, <3>1
    <3> QED BY <1>2, <3>2
  <2>5. Listed(e)
    <3>1. e \in Seq(ToSet(e)) /\ \A x \in ToSet(e) : \E i \in DOMAIN e : e[i] = x
      <4>1. \A i \in 1..Len(e) : e[i] \in ToSet(e)
        BY <2>2, <2>3 DEF ToSet
      <4>2. e \in Seq(ToSet(e))
        BY <1>2, <2>2, <2>3, <4>1, IsASeq
      <4> QED BY <4>2 DEF ToSet
    <3> QED BY <2>4, <3>1 DEF Listed, Lists
  <2> QED BY <1>1, <1>4, <2>2, <2>5 DEF EndOf
<1> QED BY <1>3, <1>4

Catalogs(w) == UNION {Children[id] : id \in w}

\* The cache holds what the call was for, as far as it fits.
Keeps(cache, w) ==
    /\ Len(cache) <= SHARD_CACHE_CAP
    /\ IF Cardinality(w) <= SHARD_CACHE_CAP
       THEN w \subseteq ToSet(cache)
       ELSE ToSet(cache) \subseteq w

\* What _ensure_shards returns, when it returns, and the cache it leaves.
LEMMA EnsureFacts ==
    ASSUME Listed(shardCache), NEW w \in SUBSET Nat, IsFiniteSet(w),
           NEW r, r = EnsureShards(w)
    PROVE  /\ Listed(r.cache)
           /\ ~r.raised => /\ r.shards = Catalogs(w)
                           /\ Keeps(r.cache, w)
<1>1. PICK order, n, read, cap :
          /\ order = Sorted(w) /\ n = Cardinality(w)
          /\ read = Reads(order)[n] /\ cap = SHARD_CACHE_CAP
  OBVIOUS
<1>2. /\ n \in Nat /\ Len(order) = n /\ NoneTwice(order) /\ ToSet(order) = w
      /\ DOMAIN order = 1..n
  BY <1>1, SortedFacts
<1>3. ReadSoFar(order, n, read)
  <2>1. n \in 0..Len(order)
    BY <1>2
  <2> QED BY <1>1, <1>2, <2>1, ReadsFacts
<1>4. r = IF read.raised THEN read ELSE [read EXCEPT !.cache = Evict(read.cache)]
  BY <1>1 DEF EnsureShards
<1>5. CASE read.raised
  <2>1. r = read
    BY <1>4, <1>5
  <2> QED BY <1>3, <1>5, <2>1 DEF ReadSoFar
<1>6. CASE ~read.raised
  <2>1. PICK c, sh, e : c = read.cache /\ sh = read.shards /\ e = Evict(c)
    OBVIOUS
  <2>2. /\ read = [cache |-> c, shards |-> sh, raised |-> FALSE]
        /\ Listed(c) /\ sh = ReadShards(order, n) /\ EndsWith(c, order, n)
    BY <1>3, <1>6, <2>1 DEF ReadSoFar
  <2>3. r = [cache |-> e, shards |-> sh, raised |-> FALSE]
    <3>1. r = [read EXCEPT !.cache = e]
      BY <1>4, <1>6, <2>1
    <3> QED BY <2>2, <3>1
  <2>4. r.cache = e /\ r.shards = sh /\ r.raised = FALSE
    BY <2>3
  <2>5. /\ Listed(e)
        /\ Len(e) = IF Len(c) > SHARD_CACHE_CAP THEN SHARD_CACHE_CAP ELSE Len(c)
        /\ EndOf(e, c)
    BY <2>1, <2>2, EvictFacts
  <2>6. sh = Catalogs(w)
    <3>1. w = {order[j] : j \in 1..n}
      BY <1>2 DEF ToSet
    <3> QED BY <2>2, <3>1 DEF ReadShards, Catalogs
  <2>7. Keeps(e, w)
    <3>1. PICK k, m : k = Len(c) /\ m = Len(e)
      OBVIOUS
    <3>2. /\ k \in Nat /\ n <= k /\ \A j \in 1..n : c[k - n + j] = order[j]
      <4>1. k \in Nat
        BY <2>2, <3>1, LenProperties DEF Listed, Lists
      <4> QED BY <2>2, <3>1, <4>1 DEF EndsWith
    <3>3. /\ cap \in Nat \ {0} /\ m = IF k > cap THEN cap ELSE k
          /\ \A j \in 1..m : e[j] = c[k - m + j]
      BY <1>1, <2>5, <3>1, ShardCacheAssumption DEF EndOf
    <3>4. DOMAIN e = 1..m
      BY <2>5, <3>1, LenProperties DEF Listed, Lists
    <3>5. m <= cap
      BY <3>2, <3>3
    <3>6. CASE n <= cap
      <4>1. ASSUME NEW id \in w PROVE id \in ToSet(e)
        <5>1. PICK j \in 1..n : order[j] = id
          BY <1>2 DEF ToSet
        <5>2. m - n + j \in 1..m /\ k - m + (m - n + j) = k - n + j
          BY <1>2, <3>2, <3>3, <3>6, <5>1
        <5>3. e[m - n + j] = id
          BY <3>2, <3>3, <5>1, <5>2
        <5> QED BY <3>4, <5>2, <5>3 DEF ToSet
      <4> QED BY <1>1, <3>1, <3>5, <3>6, <4>1 DEF Keeps
    <3>7. CASE ~(n <= cap)
      <4>1. ASSUME NEW id \in ToSet(e) PROVE id \in w
        <5>1. PICK j \in 1..m : e[j] = id
          BY <3>4 DEF ToSet
        <5>2. n - m + j \in 1..n /\ k - n + (n - m + j) = k - m + j
          BY <1>2, <3>2, <3>3, <3>7, <5>1
        <5>3. order[n - m + j] = id
          BY <3>2, <3>3, <5>1, <5>2
        <5> QED BY <1>2, <5>2, <5>3 DEF ToSet
      <4> QED BY <1>1, <3>1, <3>5, <3>7, <4>1 DEF Keeps
    <3> QED BY <3>6, <3>7
  <2> QED BY <2>4, <2>5, <2>6, <2>7
<1> QED BY <1>5, <1>6

\* What a store holds is what its shard_ids stand for.
HoldsWhatItCovers(s) == store[s].shards = Catalogs(store[s].shard_ids)

\* The inductive invariant: a cache that lists each parent once, stores that
\* hold what they cover, and a cache that keeps what the last call was for.
ShardInv ==
    /\ Listed(shardCache)
    /\ DOMAIN store = Stores
    /\ \A s \in Stores : HoldsWhatItCovers(s)
    /\ ~last.raised /\ ~last.reused => Keeps(shardCache, last.wanted)

LEMMA ShardInvInit ==
    ASSUME ShardInit
    PROVE  ShardInv
<1> USE DEF ShardInit, Fresh
<1>1. Listed(shardCache)
  <2>1. ToSet(<<>>) = {}
    BY DEF ToSet
  <2> QED BY <2>1, QueueOfNobody DEF Listed
<1>2. DOMAIN store = Stores /\ \A s \in Stores : HoldsWhatItCovers(s)
  BY DEF HoldsWhatItCovers, Catalogs
<1>3. Keeps(shardCache, last.wanted)
  <2>1. last.wanted = {} /\ shardCache = <<>> /\ Len(<<>>) = 0
    OBVIOUS
  <2>2. Cardinality({}) = 0
    BY FS_EmptySet
  <2> QED BY <2>1, <2>2, ShardCacheAssumption DEF Keeps
<1> QED BY <1>1, <1>2, <1>3 DEF ShardInv

\* A call that finds its set there, or raises, leaves the store as it was; one
\* that reads leaves the set and the catalogs together.
LEMMA EnsureKeeps ==
    ASSUME ShardInv, NEW s \in Stores, NEW p \in Pointings, Ensure(s, p)
    PROVE  ShardInv'
<1>1. PICK w, r : w = Wanted(p) /\ r = EnsureShards(w)
  OBVIOUS
<1>2. w \in SUBSET Nat /\ IsFiniteSet(w) /\ SHARD_CACHE_CAP \in Nat \ {0}
  BY <1>1, ShardCacheAssumption DEF Wanted
<1>3. CASE w = store[s].shard_ids
  <2>1. UNCHANGED <<shardCache, store>> /\ last'.reused = TRUE
    BY <1>1, <1>3 DEF Ensure
  <2> QED BY <2>1 DEF ShardInv, HoldsWhatItCovers, Catalogs, Listed, Lists, ToSet, IsInjective
<1>4. CASE w # store[s].shard_ids
  <2>1. /\ shardCache' = r.cache
        /\ store' = IF r.raised THEN store
                    ELSE [store EXCEPT ![s] = [shard_ids |-> w, shards |-> r.shards]]
        /\ last' = [wanted |-> w, raised |-> r.raised, reused |-> FALSE]
    BY <1>1, <1>4 DEF Ensure
  <2>2. /\ Listed(r.cache)
        /\ ~r.raised => r.shards = Catalogs(w) /\ Keeps(r.cache, w)
    BY <1>1, <1>2, EnsureFacts DEF ShardInv
  <2>3. Listed(shardCache)'
    BY <2>1, <2>2 DEF Listed, Lists, ToSet, IsInjective
  <2>4. (~last.raised /\ ~last.reused => Keeps(shardCache, last.wanted))'
    BY <2>1, <2>2 DEF Keeps, ToSet
  <2>5. CASE r.raised
    <3>1. store' = store
      BY <2>1, <2>5
    <3> QED BY <2>3, <2>4, <3>1 DEF ShardInv, HoldsWhatItCovers, Catalogs
  <2>6. CASE ~r.raised
    <3>1. store' = [store EXCEPT ![s] = [shard_ids |-> w, shards |-> r.shards]]
      BY <2>1, <2>6
    <3>2. DOMAIN store' = Stores
      BY <3>1 DEF ShardInv
    <3>3. ASSUME NEW t \in Stores PROVE HoldsWhatItCovers(t)'
      <4>1. CASE t = s
        <5>1. store'[t] = [shard_ids |-> w, shards |-> r.shards]
          BY <3>1, <4>1 DEF ShardInv
        <5> QED BY <2>2, <2>6, <5>1 DEF HoldsWhatItCovers, Catalogs
      <4>2. CASE t # s
        <5>1. store'[t] = store[t]
          BY <3>1, <4>2 DEF ShardInv
        <5> QED BY <5>1 DEF ShardInv, HoldsWhatItCovers, Catalogs
      <4> QED BY <4>1, <4>2
    <3> QED BY <2>3, <2>4, <3>2, <3>3 DEF ShardInv
  <2> QED BY <2>5, <2>6
<1> QED BY <1>3, <1>4

\* Every step keeps the invariant.
LEMMA ShardStep ==
    ASSUME ShardInv, [ShardNext]_shardVars
    PROVE  ShardInv'
<1> DEFINE Same == UNCHANGED shardCache
<1>1. ASSUME Same, last'.reused PROVE /\ Listed(shardCache)'
                       /\ (~last.raised /\ ~last.reused => Keeps(shardCache, last.wanted))'
  BY <1>1 DEF ShardInv, Listed, Lists, ToSet, IsInjective
<1>2. ASSUME NEW s \in Stores, NEW p \in Pointings, Ensure(s, p) PROVE ShardInv'
  BY <1>2, EnsureKeeps
<1>3. ASSUME NEW s \in Stores, DropStore(s) PROVE ShardInv'
  <2>1. Same /\ last'.reused /\ store' = [store EXCEPT ![s] = Fresh]
    BY <1>3 DEF DropStore
  <2>2. ASSUME NEW t \in Stores PROVE HoldsWhatItCovers(t)'
    <3>1. CASE t = s
      <4>1. store'[t].shards = {} /\ store'[t].shard_ids = {}
        BY <2>1, <3>1 DEF ShardInv, Fresh
      <4> QED BY <4>1 DEF HoldsWhatItCovers, Catalogs
    <3>2. CASE t # s
      <4>1. store'[t] = store[t]
        BY <2>1, <3>2 DEF ShardInv
      <4> QED BY <4>1 DEF ShardInv, HoldsWhatItCovers, Catalogs
    <3> QED BY <3>1, <3>2
  <2>3. DOMAIN store' = Stores
    BY <2>1 DEF ShardInv
  <2> QED BY <1>1, <2>1, <2>2, <2>3 DEF ShardInv
<1>4. ASSUME NEW id, Disk(id) PROVE ShardInv'
  <2>1. Same /\ last'.reused /\ store' = store
    BY <1>4 DEF Disk
  <2> QED BY <1>1, <2>1 DEF ShardInv, HoldsWhatItCovers, Catalogs
<1>5. CASE UNCHANGED shardVars
  BY <1>5 DEF shardVars, ShardInv, HoldsWhatItCovers, Catalogs, Keeps, Listed, Lists, ToSet, IsInjective
<1> QED BY <1>2, <1>3, <1>4, <1>5 DEF ShardNext

\* Whatever calls, failures and changes of the directory come, the invariant stays.
THEOREM ShardInvariant == ShardSpec => []ShardInv
<1>1. ShardInit => ShardInv
  BY ShardInvInit
<1>2. ShardInv /\ [ShardNext]_shardVars => ShardInv'
  BY ShardStep
<1> QED BY <1>1, <1>2, PTL DEF ShardSpec

\* A store that says it covers what the raws need has every catalog of it, and
\* none of a pointing it has left, after any calls, failures, evictions and
\* changes of the directory (RefCatStore.ensure, uncovered).
THEOREM CoverageHonest == ShardSpec => []CoverageIsHonest
<1>1. ShardInv => CoverageIsHonest
  BY DEF ShardInv, HoldsWhatItCovers, Catalogs, CoverageIsHonest, Uncovered
<1> QED BY <1>1, ShardInvariant, PTL

\* After a call that succeeded the cache is within its cap and holds what the
\* call was for, as far as it fits (_ensure_shards).
THEOREM PointingStays == ShardSpec => []LastPointingStays
<1>1. ShardInv => LastPointingStays
  BY DEF ShardInv, Keeps, LastPointingStays
<1> QED BY <1>1, ShardInvariant, PTL
=============================================================================
