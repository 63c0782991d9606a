------------------------------- MODULE MCSink -------------------------------
(* Instances of the Delta sink for TLC. *)
EXTENDS Sink, TLC

CONSTANTS p1, p2, A, B

\* Two partitions of one table: its commits carry two markers.
OneTable == p1 :> A @@ p2 :> A

\* One partition per table, as the stack's single-partition topics have it.
TwoTables == p1 :> A @@ p2 :> B

\* The middle record of p1 is a tombstone.
Tombstone == {<<p1, 1>>}

OnlyRebalance == {"rebalance"}
OnlyMisread == {"write_misread"}
=============================================================================
