---------------------------- MODULE ReverseDecision ----------------------------
(***************************************************************************)
(* What the sync service does with a row that comes from the lakehouse:    *)
(* decide_reverse_apply() of services/sync and resolve() of the type       *)
(* engine, on which it rests.  Pure functions of the two rows, the policy  *)
(* and the ledger.                                                         *)
(*                                                                         *)
(* A row is whether it exists and its version: a lakehouse change is known *)
(* by its key and its version, and its other columns decide nothing.       *)
(***************************************************************************)
EXTENDS Naturals

CONSTANT MaxVersion \* bound: versions of a row

ASSUME VersionAssumption == MaxVersion \in Nat

\* None, of the code: a row or a ledger entry without a version.
NoVersion == 0

Versions == 1..MaxVersion

RowOf(version) == [exists |-> TRUE, version |-> version]

Rows == [exists : {TRUE}, version : Versions \cup {NoVersion}]

\* _current_pg_row() found nothing.
NoRow == [exists |-> FALSE, version |-> NoVersion]

Sides == {"postgres", "lakehouse"}

\* The policy of a request, with its source_of_truth, which may be any string.
\* "merge" is accepted although no request can bring the callback it needs.
Policies == [kind : {"last_write_wins", "source_of_truth", "merge", "error"},
             truth : Sides \cup {"other"}]

\* resolve(): who wins, "conflict" for a ConflictError, "invalid" for the
\* ValueError of a policy that cannot be followed.
Resolve(pg, lake, policy) ==
    CASE policy.kind = "source_of_truth" ->
           IF policy.truth \in Sides THEN policy.truth ELSE "invalid"
      [] policy.kind = "merge" -> "invalid"
      [] policy.kind = "error" -> "conflict"
      [] policy.kind = "last_write_wins" ->
           IF NoVersion \in {pg.version, lake.version} THEN "conflict"
           ELSE IF \/ pg.version > lake.version
                   \/ pg.version = lake.version /\ policy.truth = "postgres"
                THEN "postgres" ELSE "lakehouse"

\* Has a change of this version, or a later one, been applied already?
Duplicate(version, last) ==
    /\ last # NoVersion
    /\ version # NoVersion
    /\ version <= last

\* Mutant of Decide: the ledger is looked at only in a conflict.
DecideLedgerLate(pg, lake, policy, last) ==
    CASE pg = NoRow -> "apply"
      [] pg # NoRow /\ Duplicate(lake.version, last) -> "skip"
      [] OTHER -> CASE Resolve(pg, lake, policy) = "lakehouse" -> "apply"
                    [] Resolve(pg, lake, policy) = "invalid" -> "raise"
                    [] OTHER -> "skip"

\* decide_reverse_apply(): write the row, leave it, or raise.  The three ways
\* to leave it (duplicate, Postgres wins, error) differ in the report only.
Decide(pg, lake, policy, last) ==
    CASE Duplicate(lake.version, last) -> "skip"
      [] ~Duplicate(lake.version, last) /\ pg = NoRow -> "apply"
      [] OTHER -> CASE Resolve(pg, lake, policy) = "lakehouse" -> "apply"
                    [] Resolve(pg, lake, policy) = "invalid" -> "raise"
                    [] OTHER -> "skip"
=============================================================================
