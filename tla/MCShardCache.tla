---------------------------- MODULE MCShardCache ----------------------------
(***************************************************************************)
(* ShardCache for TLC: two stores, a cache for three parents, and a pointing *)
(* that wants four.                                                         *)
(***************************************************************************)
EXTENDS ShardCache

\* Neighbouring pointings share a parent; "pole" wants more than the cap.
MCParentIds == [p \in {"a", "b", "c", "pole"} |->
    CASE p = "a" -> {1, 2} [] p = "b" -> {2, 3} [] p = "c" -> {4, 5}
      [] p = "pole" -> {2, 3, 4, 5}]

\* Parent 5 has no rows.
MCChildren == [id \in 1..5 |-> IF id = 5 THEN {} ELSE {10 * id, 10 * id + 1}]
=============================================================================
