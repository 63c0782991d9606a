----------------------------- MODULE ChangeFeed -----------------------------
(***************************************************************************)
(* What the Delta sink promises, without Kafka offsets, batches, retries   *)
(* or restarts: every change record of a CDC topic partition that carries  *)
(* a row shows up in the partition's Delta table exactly once, in log      *)
(* order, and a table changes by whole commits.                            *)
(*                                                                         *)
(* upto[p] is the length of the prefix of partition p that the table holds *)
(* and rows[p][o] the number of times the row at offset o is in it.  The   *)
(* records in Skipped (tombstones, messages without data columns) take up  *)
(* an offset but never become a row.                                       *)
(***************************************************************************)
EXTENDS Integers

CONSTANTS Partitions, TableOf, MaxOffset, Skipped

VARIABLES logEnd, upto, rows

vars == <<logEnd, upto, rows>>

Offsets == 0..(MaxOffset - 1)

Tables == {TableOf[p] : p \in Partitions}

Init ==
    /\ logEnd = [p \in Partitions |-> 0]
    /\ upto = [p \in Partitions |-> 0]
    /\ rows = [p \in Partitions |-> [o \in Offsets |-> 0]]

\* The change stream grows by one record.
Produce(p) ==
    /\ logEnd[p] < MaxOffset
    /\ logEnd' = [logEnd EXCEPT ![p] = @ + 1]
    /\ UNCHANGED <<upto, rows>>

\* One commit of table t publishes the next records of some of its
\* partitions, each of their rows once.
Publish(t) ==
    /\ upto' \in [Partitions -> 0..MaxOffset]
    /\ \A p \in Partitions :
          /\ upto[p] <= upto'[p]
          /\ upto'[p] <= logEnd[p]
          /\ TableOf[p] # t => upto'[p] = upto[p]
    /\ rows' = [p \in Partitions |-> [o \in Offsets |->
                   IF upto[p] <= o /\ o < upto'[p] /\ <<p, o>> \notin Skipped
                     THEN rows[p][o] + 1
                     ELSE rows[p][o]]]
    /\ UNCHANGED logEnd

Next ==
    \/ \E p \in Partitions : Produce(p)
    \/ \E t \in Tables : Publish(t)

Spec == Init /\ [][Next]_vars
=============================================================================
