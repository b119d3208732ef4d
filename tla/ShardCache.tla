----------------------------- MODULE ShardCache -----------------------------
(***************************************************************************)
(* The reference catalog of a coordinator child (refcat_store.py).  A store  *)
(* holds the level-7 catalogs of one pointing; the parents they come from   *)
(* are read once and shared through a bounded cache.  The local directory   *)
(* of parents may be incomplete, and completed under the running service.   *)
(* A child serves one command at a time, so a call is one step.             *)
(***************************************************************************)
EXTENDS Naturals, Sequences, FiniteSets, SequencesExt

CONSTANTS
    Stores,          \* one per prepared entry that is alive
    Pointings,
    ParentIds,        \* pointing -> the parents whose region it touches
    Children,        \* parent -> its level-7 catalogs; none where it has no rows
    SHARD_CACHE_CAP

Parents == DOMAIN Children

ASSUME ShardCacheAssumption ==
    /\ Parents \subseteq Nat
    /\ \A p \in Pointings : /\ ParentIds[p] \subseteq Parents /\ ParentIds[p] # {}
                           /\ IsFiniteSet(ParentIds[p])
    /\ SHARD_CACHE_CAP \in Nat \ {0}

VARIABLES
    onDisk,     \* parents whose file can be read
    shardCache, \* _SHARD_CACHE: parents, least recently used first
    store,      \* Stores -> what its shard_ids and shards are
    last        \* the last call: what it wanted and whether it raised

shardVars == <<onDisk, shardCache, store, last>>

Fresh == [shard_ids |-> {}, shards |-> {}]

-----------------------------------------------------------------------------
\* shard_ids_for_pointing: a circle about the boresight, whatever the rotation.
Wanted(p) == ParentIds[p]

\* _reshard_one: a file that is not there, or cannot be read, raises.
Reshard(id) == id \in onDisk

\* Broken: a parent that is found stays where it is.
TouchStill(acc, id) ==
    IF acc.raised \/ (~Contains(acc.cache, id) /\ ~Reshard(id))
    THEN [acc EXCEPT !.raised = TRUE]
    ELSE [acc EXCEPT !.shards = @ \cup Children[id],
                     !.cache = IF Contains(@, id) THEN @ ELSE Append(@, id)]

\* One parent: found and moved to the end, read and put there, or not readable,
\* which ends the call there.
Touch(acc, id) ==
    IF acc.raised \/ (~Contains(acc.cache, id) /\ ~Reshard(id))
    THEN [acc EXCEPT !.raised = TRUE]
    ELSE [acc EXCEPT !.shards = @ \cup Children[id],
                     !.cache = Append(RemoveFirst(@, id), id)]

Evict(cache) ==
    IF Len(cache) > SHARD_CACHE_CAP
    THEN SubSeq(cache, Len(cache) - SHARD_CACHE_CAP + 1, Len(cache))
    ELSE cache

\* sorted(wanted).
Sorted(wanted) ==
    CHOOSE q \in [1..Cardinality(wanted) -> wanted] :
        \A i, j \in DOMAIN q : i < j => q[i] < q[j]

\* What the first i parents of a call leave.
Reads(order) ==
    LET upTo[i \in 0..Len(order)] ==
            IF i = 0 THEN [cache |-> shardCache, shards |-> {}, raised |-> FALSE]
            ELSE Touch(upTo[i-1], order[i])
    IN  upTo

\* _ensure_shards: the parents in order, then the eviction; a read that raises
\* skips it.
EnsureShards(wanted) ==
    LET read == Reads(Sorted(wanted))[Cardinality(wanted)]
    IN  IF read.raised THEN read ELSE [read EXCEPT !.cache = Evict(@)]

-----------------------------------------------------------------------------
ShardInit ==
    /\ onDisk \in SUBSET Parents
    /\ shardCache = <<>>
    /\ store = [s \in Stores |-> Fresh]
    /\ last = [wanted |-> {}, raised |-> FALSE, reused |-> FALSE]

\* Broken: the set is noted before the catalogs are there.
EnsureNotedFirst(s, p) ==
    LET wanted == Wanted(p)
        result == EnsureShards(wanted)
    IN  IF wanted = store[s].shard_ids
        THEN /\ last' = [wanted |-> wanted, raised |-> FALSE, reused |-> TRUE]
             /\ UNCHANGED <<onDisk, shardCache, store>>
        ELSE /\ shardCache' = result.cache
             /\ store' = [store EXCEPT ![s].shard_ids = wanted,
                                       ![s].shards = IF result.raised THEN @ ELSE result.shards]
             /\ last' = [wanted |-> wanted, raised |-> result.raised, reused |-> FALSE]
             /\ UNCHANGED onDisk

\* RefCatStore.ensure: nothing to do for the set it has; both fields at once, or
\* neither.
Ensure(s, p) ==
    LET wanted == Wanted(p)
        result == EnsureShards(wanted)
    IN  IF wanted = store[s].shard_ids
        THEN /\ last' = [wanted |-> wanted, raised |-> FALSE, reused |-> TRUE]
             /\ UNCHANGED <<onDisk, shardCache, store>>
        ELSE /\ shardCache' = result.cache
             /\ store' = IF result.raised THEN store
                         ELSE [store EXCEPT ![s] = [shard_ids |-> wanted, shards |-> result.shards]]
             /\ last' = [wanted |-> wanted, raised |-> result.raised, reused |-> FALSE]
             /\ UNCHANGED onDisk

\* The prepared entry is evicted; a later one begins with a store of its own.
DropStore(s) ==
    /\ store' = [store EXCEPT ![s] = Fresh]
    /\ last' = [wanted |-> {}, raised |-> FALSE, reused |-> TRUE]
    /\ UNCHANGED <<onDisk, shardCache>>

\* Somebody completes the directory, or takes a file away.
Disk(id) ==
    /\ onDisk' = IF id \in onDisk THEN onDisk \ {id} ELSE onDisk \cup {id}
    /\ last' = [wanted |-> {}, raised |-> FALSE, reused |-> TRUE]
    /\ UNCHANGED <<shardCache, store>>

ShardNext ==
    \/ \E s \in Stores, p \in Pointings : Ensure(s, p)
    \/ \E s \in Stores : DropStore(s)
    \/ \E id \in Parents : Disk(id)

ShardSpec == ShardInit /\ [][ShardNext]_shardVars

-----------------------------------------------------------------------------
\* RefCatStore.uncovered.
Uncovered(s, needed) == needed \ store[s].shard_ids

\* The check of build_quantum_context tells the truth whatever failed before: a
\* store that says it covers what the raws need has every catalog of it, and no
\* catalog of a pointing it has left.  (refcat_store.py:311.)
CoverageIsHonest ==
    \A s \in Stores :
        /\ \A needed \in SUBSET Parents :
              Uncovered(s, needed) = {} => UNION {Children[id] : id \in needed} \subseteq store[s].shards
        /\ store[s].shards = UNION {Children[id] : id \in store[s].shard_ids}

\* After a call that succeeded the cache is within its cap and holds the
\* parents the call was for, as far as they fit: a slew reads only what is new.
\* (refcat_store.py:279, :284.)
LastPointingStays ==
    ~last.raised /\ ~last.reused =>
        /\ Len(shardCache) <= SHARD_CACHE_CAP
        /\ IF Cardinality(last.wanted) <= SHARD_CACHE_CAP
           THEN last.wanted \subseteq ToSet(shardCache)
           ELSE ToSet(shardCache) \subseteq last.wanted
=============================================================================
