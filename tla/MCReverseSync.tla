---------------------------- MODULE MCReverseSync -----------------------------
(* Requests and policies for model checking ReverseSync.                   *)
EXTENDS ReverseSync

CONSTANTS k1, k2

\* A change with a version, one without, and one whose version is in a column
\* that the table does not have.
Versioned(k, v) == [key |-> k, version |-> v, column |-> v]

Bare(k) == [key |-> k, version |-> NoVersion, column |-> Kept]

Foreign(k, v) == [key |-> k, version |-> v, column |-> Kept]

Wins(side) == [kind |-> "source_of_truth", truth |-> side]

LastWriteWins == [kind |-> "last_write_wins", truth |-> "postgres"]

Merge == [kind |-> "merge", truth |-> "postgres"]

Body(rows, p, n) == [rows |-> rows, policy |-> p, named |-> n]

\* Two rows in either order (which is how requests deadlock), the same key
\* twice, a row without a version, the version in a column of the lakehouse
\* only, and two policies that nobody can follow, one of them on the second row.
MCBodies ==
    {Body(<<Versioned(k1, 1), Versioned(k2, 1)>>, Wins("lakehouse"), TRUE),
     Body(<<Versioned(k2, 2), Versioned(k1, 2)>>, LastWriteWins, TRUE),
     Body(<<Versioned(k1, 2), Versioned(k1, 1)>>, Wins("lakehouse"), TRUE),
     Body(<<Bare(k1)>>, Wins("lakehouse"), TRUE),
     Body(<<Foreign(k1, 1)>>, LastWriteWins, FALSE),
     Body(<<Versioned(k2, 1), Versioned(k1, 2)>>, Merge, TRUE),
     Body(<<Versioned(k2, 1)>>, Wins("other"), TRUE)}
=============================================================================
