------------------------------- MODULE Mirror -------------------------------
(***************************************************************************)
(* What the reverse watcher and the sync service's reverse-apply promise   *)
(* together for one table, without polls, feeds, requests, recorded        *)
(* versions or retries: Postgres has the rows the lakehouse table had at   *)
(* one of its versions, all of them and no others, and only ever moves on  *)
(* to later versions.                                                      *)
(*                                                                         *)
(* The promise is kept until it is called off, by a request that was given *)
(* up while it ran or by an update that changed a key.  From then on the   *)
(* table may hold anything.                                                *)
(***************************************************************************)
EXTENDS Integers, Sequences

CONSTANTS Keys, Values, Absent

VARIABLES
    lake,   \* the rows of each version of the lakehouse table so far
    table,  \* the Postgres table
    shown,  \* the version it has the rows of: an index of lake
    kept    \* the promise has not been called off

vars == <<lake, table, shown, kept>>

Tables == [Keys -> Values \cup {Absent}]

Init ==
    /\ lake = << [k \in Keys |-> Absent] >>
    /\ table = lake[1]
    /\ shown = 1
    /\ kept = TRUE

Grows == \E rows \in Tables : lake' = Append(lake, rows)

\* The lakehouse commits a version.
Commit ==
    /\ Grows
    /\ UNCHANGED <<table, shown, kept>>

\* The rows of a version reach Postgres, in one transaction.
CarryOver ==
    /\ kept
    /\ shown' \in shown..Len(lake)
    /\ table' = lake[shown']
    /\ UNCHANGED <<lake, kept>>

\* The promise is called off, for good.
CallOff ==
    /\ ~ kept'
    /\ UNCHANGED lake \/ Grows
    /\ table' \in Tables

Next == Commit \/ CarryOver \/ CallOff

Spec == Init /\ [][Next]_vars
=============================================================================
