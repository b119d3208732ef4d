-------------------------- MODULE MCPreparedCache --------------------------
(***************************************************************************)
(* Three keys for a cache of two, and two filters for a calib cache of two: *)
(* every prepare can evict, every push can find its entry gone.  The last    *)
(* command is a dither: another boresight with the first one's shards, so    *)
(* another command with the same key.  The two fields share shard 2: raws    *)
(* that need it alone are covered by either.                                *)
(***************************************************************************)
EXTENDS PreparedCache, TLC

CONSTANTS o1, o2, f1, f2, t1, b1, b2, b3, v1, v2

MCShardIds == b1 :> {1, 2} @@ b2 :> {1, 2} @@ b3 :> {2, 3}

MCFields == {{1, 2}, {2}, {2, 3}}

Cmd(o, f, b) == [config_overrides |-> o, physical_filter |-> f,
                 boresight |-> b, calib_time |-> t1]

\* Only equality of versions matters, and all are possible at the start.
MCSymmetry == Permutations({v1, v2})

MCCommands == {Cmd(o1, f1, b1), Cmd(o2, f1, b3), Cmd(o1, f2, b1), Cmd(o1, f1, b2)}
=============================================================================
