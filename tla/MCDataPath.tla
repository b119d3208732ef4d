---------------------------- MODULE MCDataPath ----------------------------
(***************************************************************************)
(* DataPath for TLC: two sensors, two exposures of one filter, the shards   *)
(* of one among those of the other, and one of another filter and field,     *)
(* directories that are whole, reversed, replayed, mixed, doubled or short,  *)
(* and a replay tree whose paths are in either order.                        *)
(***************************************************************************)
EXTENDS DataPath

MCExposures == {"e1", "e2", "e3"}
MCFilterOf == [e \in MCExposures \cup {"stand"} |-> IF e = "e3" THEN "g" ELSE "r"]
\* e2 needs less of the catalog than e1, and e3 another part of it.
MCShardsOf == [e \in MCExposures \cup {"stand"} |->
                  CASE e = "e1" -> {1, 2} [] e = "e2" -> {1} [] OTHER -> {3}]
MCMetaSize == [e \in MCExposures \cup {"stand"} |-> IF e = "e2" THEN 2 ELSE 1]
MCReplayTree == [e \in {"e1", "e2"} |-> IF e = "e1" THEN <<1, 2>> ELSE <<2, 1>>]

Real(d, e)   == [det |-> d, exp |-> e, emulated |-> FALSE]
Replay(d, e) == [det |-> d, exp |-> e, emulated |-> TRUE]

MCDirs == {
    <<Real(1, "e1"), Real(2, "e1")>>,
    <<Real(2, "e2"), Real(1, "e2")>>,
    <<Replay(1, "e1"), Replay(2, "e1")>>,
    <<Replay(1, "e1"), Replay(2, "e2")>>,
    <<Replay(1, "e3"), Replay(2, "e3")>>,
    <<Real(1, "e1"), Real(2, "e2")>>,
    <<Real(1, "e1"), Real(2, "e1"), Real(1, "e1")>>,
    <<Real(1, "e1")>> }
=============================================================================
