--------------------------- MODULE ConfiguredRuns ---------------------------
(***************************************************************************)
(* What a coordinator child promises the front-end about configurations, as *)
(* if it cached nothing and built each one anew: a prepare that succeeds     *)
(* makes its key's configuration the active one and the key known; a job    *)
(* runs under the whole configuration of the key it carries, on the calibs  *)
(* certified now; and a command that is refused changes nothing that is     *)
(* active.                                                                  *)
(***************************************************************************)
CONSTANTS Keys, Filters, Times, Fields, Versions, None

VARIABLES
    known,          \* keys whose jobs this child can run
    active,         \* the active configuration, or None
    detectorRefs,   \* what the registry certifies, by calib_time
    filterRefs,     \* and by filter and calib_time
    reply,          \* what the last command was answered
    ran             \* the configuration the last command ran a job under

registry == <<detectorRefs, filterRefs>>
vars == <<known, active, registry, reply, ran>>

\* All a key stands for, at this moment.
Config(k) ==
    [key    |-> k,
     task   |-> k.task,
     refcat |-> k.refcat,
     calib  |-> [physical_filter |-> k.physical_filter,
                 detector |-> detectorRefs[k.calib_time],
                 filtered |-> <<k.physical_filter,
                                filterRefs[<<k.physical_filter, k.calib_time>>]>>]]

Answer(cmd, ok) == reply' = [cmd |-> cmd, ok |-> ok]

Init ==
    /\ known = {}
    /\ active = None
    /\ detectorRefs \in [Times -> Versions]
    /\ filterRefs \in [Filters \X Times -> Versions]
    /\ reply = None
    /\ ran = None

Prepare(k) ==
    /\ known' = known \cup {k}
    /\ active' = Config(k)
    /\ ran' = None
    /\ Answer("prepare", TRUE)
    /\ UNCHANGED registry

\* A prepare may fail after its key has become known.
RefusePrepare(k) ==
    /\ known' \in {known, known \cup {k}}
    /\ ran' = None
    /\ Answer("prepare", FALSE)
    /\ UNCHANGED <<active, registry>>

\* A job runs when its raws are of the filter of its key and covered by its shards.
Push(k, rawFilter, rawShards) ==
    /\ k \in known
    /\ active' = Config(k)
    /\ \/ /\ k.physical_filter = rawFilter /\ rawShards \subseteq k.refcat
          /\ ran' = Config(k)
          /\ Answer("push", TRUE)
       \/ /\ k.physical_filter # rawFilter \/ ~(rawShards \subseteq k.refcat)
          /\ ran' = None
          /\ Answer("push", FALSE)
    /\ UNCHANGED <<known, registry>>

RefusePush ==
    /\ ran' = None
    /\ Answer("push", FALSE)
    /\ UNCHANGED <<known, active, registry>>

Recertify ==
    /\ detectorRefs' \in [Times -> Versions]
    /\ filterRefs' \in [Filters \X Times -> Versions]
    /\ reply' = None
    /\ ran' = None
    /\ UNCHANGED <<known, active>>

\* A new child knows nothing.
Restart ==
    /\ known' = {}
    /\ active' = None
    /\ reply' = None
    /\ ran' = None
    /\ UNCHANGED registry

Next ==
    \/ \E k \in Keys : Prepare(k) \/ RefusePrepare(k)
    \/ \E k \in Keys, f \in Filters, s \in Fields : Push(k, f, s)
    \/ RefusePush
    \/ Recertify
    \/ Restart

Spec == Init /\ [][Next]_vars
=============================================================================
