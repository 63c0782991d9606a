----------------------------- MODULE ReverseInbox -----------------------------
(***************************************************************************)
(* The reverse watcher (src/services/reverse-watcher) and the sync         *)
(* service's reverse-apply endpoint, for one table: the commits of the     *)
(* table's inbox, a Delta table with Change Data Feed that only the        *)
(* lakehouse writes, are carried over to Postgres.                         *)
(*                                                                         *)
(* The watcher polls.  It reads the feed behind the version it has         *)
(* recorded, collapses it to the last change of each key, sends these to   *)
(* the sync service as one request, which is one Postgres transaction, and *)
(* records the version.  Inboxes are handled one after the other and share *)
(* nothing, so one of them is modelled.                                    *)
(***************************************************************************)
EXTENDS Integers, Sequences, FiniteSets, FiniteSetsExt

CONSTANTS
    Keys,        \* primary keys
    Values,      \* contents of a row
    Refused,     \* those of them a constraint of the Postgres table forbids
    Absent,      \* no row: a delete in the feed, a missing row in Postgres
    Same,        \* the key is not touched
    MaxCommits,  \* bound: commits to an inbox
    MaxErrors,   \* bound: failed calls and crashes
    MaxAbandons  \* bound: requests given up while the sync service runs them

Versions == 0..(MaxCommits - 1)

ASSUME InboxAssumption ==
    /\ Absent \notin Values \cup Keys /\ Same \notin Values \cup {Absent}
    /\ Refused \subseteq Values
    /\ MaxCommits \in Nat /\ MaxErrors \in Nat
    /\ MaxAbandons \in Nat

VARIABLES
    inbox,      \* the inbox's commits; version v is inbox[v + 1]
    last,       \* reverse_watch.last_version, -1 without a row
    pg,         \* the Postgres table
    carried,    \* history: the versions whose changes a transaction applied
    pc,         \* where the watcher is in process_inbox
    current,    \* the inbox version it has seen
    request,    \* the feed it has read, collapsed: its request
    orphans,    \* abandoned requests the sync service still runs
    errors,     \* failed calls and crashes so far
    abandoned   \* abandoned requests so far

watcher == <<pc, current, request>>
budget  == <<errors, abandoned>>
vars    == <<inbox, last, pg, carried, pc, current, request, orphans, errors,
             abandoned>>

\* One commit inserts, updates or deletes one row, or touches none (version 0
\* creates the table).  An update may give the row another key: "left" is the
\* key it had before.
AnyKey  == CHOOSE k \in Keys : TRUE
Commits ==
    [key : Keys, value : Values \cup {Absent}, left : {Absent}]
      \cup [key : Keys, value : Values, left : Keys]
      \cup {[key |-> AnyKey, value |-> Same, left |-> Absent]}

Latest == Len(inbox) - 1

NothingChanged == [k \in Keys |-> Same]

EmptyTable == [k \in Keys |-> Absent]

NoRequest == [from |-> 0, upto |-> -1, changes |-> NothingChanged]

Init ==
    /\ inbox = <<>>
    /\ last = -1
    /\ pg = EmptyTable
    /\ carried = {}
    /\ pc = "sleeping"
    /\ current = -1
    /\ request = NoRequest
    /\ orphans = {}
    /\ errors = 0
    /\ abandoned = 0

Error == errors < MaxErrors /\ errors' = errors + 1

\* process_inbox() is left; its variables are gone.
Leave ==
    /\ pc' = "sleeping"
    /\ current' = -1
    /\ request' = NoRequest

-----------------------------------------------------------------------------
(* Surroundings: the lakehouse                                             *)

\* What a commit makes of the rows of the inbox.
Changed(rows, commit) ==
    [k \in Keys |->
        CASE commit.key = k /\ commit.value # Same -> commit.value
          [] commit.left = k -> Absent
          [] OTHER -> rows[k]]

\* The rows of the inbox as of each version, by replaying its commits.
LakeAt[v \in -1..(MaxCommits - 1)] ==
    IF v = -1 THEN EmptyTable ELSE Changed(LakeAt[v - 1], inbox[v + 1])

\* A row can only be moved where there is one, and to a key that is free.
WriteInbox(commit) ==
    /\ Len(inbox) < MaxCommits
    /\ commit.left # Absent => /\ LakeAt[Latest][commit.left] # Absent
                              /\ LakeAt[Latest][commit.key] = Absent
    /\ inbox' = Append(inbox, commit)
    /\ UNCHANGED <<last, pg, carried, watcher, orphans, budget>>

-----------------------------------------------------------------------------
(* process_inbox()                                                         *)

\* Is there anything behind the recorded version?
LookUp ==
    /\ pc = "sleeping"
    /\ Latest > last
    /\ current' = Latest
    /\ pc' = "reading"
    /\ UNCHANGED <<inbox, last, pg, carried, request, orphans, budget>>

\* The commits that change a key.  The feed holds an update twice, with the old
\* row and with the new one, and the watcher drops the old one: a key that a
\* row has left is not among those the update touches.
Touching(k, from, upto) ==
    {v \in from..upto : inbox[v + 1].key = k /\ inbox[v + 1].value # Same}

\* Mutant of Collapse: the first change of each key wins.
CollapseToFirst(from, upto) ==
    [k \in Keys |->
        LET vs == Touching(k, from, upto)
        IN  IF vs = {} THEN Same ELSE inbox[Min(vs) + 1].value]

Collapse(from, upto) ==
    [k \in Keys |->
        LET vs == Touching(k, from, upto)
        IN  IF vs = {} THEN Same ELSE inbox[Max(vs) + 1].value]

\* load_cdf() has no ending version: it may see commits behind "current".
ReadFeed ==
    /\ pc = "reading"
    /\ \E upto \in current..Latest :
          request' = [from |-> last + 1, upto |-> upto,
                      changes |-> Collapse(last + 1, upto)]
    /\ pc' = IF request'.changes = NothingChanged THEN "recording" ELSE "posting"
    /\ UNCHANGED <<inbox, last, pg, carried, current, orphans, budget>>

\* Mutant of After: untouched keys are overwritten as well.
AfterAll(changes) == [k \in Keys |-> changes[k]]

\* What reverse_apply() makes of the table, in one transaction.
After(changes) ==
    [k \in Keys |-> IF changes[k] = Same THEN pg[k] ELSE changes[k]]

Transaction(r) ==
    /\ pg' = After(r.changes)
    /\ carried' = carried \cup (r.from..r.upto)

\* Postgres takes all the changes of a request, or none of them.
Acceptable(r) == \A k \in Keys : r.changes[k] \notin Refused

\* The request is answered in time.
PostOk ==
    /\ pc = "posting"
    /\ Acceptable(request)
    /\ Transaction(request)
    /\ pc' = "recording"
    /\ UNCHANGED <<inbox, last, current, request, orphans, budget>>

\* Mutant of PostFails: the status of the answer is not looked at.
PostFailsUnseen ==
    /\ pc = "posting"
    /\ Error
    /\ \/ UNCHANGED <<pg, carried>>
       \/ Acceptable(request) /\ Transaction(request)
    /\ pc' = "recording"
    /\ UNCHANGED <<inbox, last, current, request, orphans, abandoned>>

\* The answer is an error, or there is none: the transaction was rolled
\* back, or it was committed and the answer got lost.
PostFails ==
    /\ pc = "posting"
    /\ Error
    /\ \/ UNCHANGED <<pg, carried>>
       \/ Acceptable(request) /\ Transaction(request)
    /\ Leave
    /\ UNCHANGED <<inbox, last, orphans, abandoned>>

\* Postgres refuses a change of the request: all of them are rolled back, and
\* the watcher comes back to them at its next poll.
PostRefused ==
    /\ pc = "posting"
    /\ ~ Acceptable(request)
    /\ Leave
    /\ UNCHANGED <<inbox, last, pg, carried, orphans, budget>>

\* The request takes longer than 30 seconds, or the watcher is restarted
\* while it waits; the sync service does not notice and goes on.
Abandon ==
    /\ pc = "posting"
    /\ abandoned < MaxAbandons
    /\ abandoned' = abandoned + 1
    /\ orphans' = orphans \cup {request}
    /\ Leave
    /\ UNCHANGED <<inbox, last, pg, carried, errors>>

\* The sync service comes to the end of an abandoned request.
OrphanEnds(r) ==
    /\ orphans' = orphans \ {r}
    /\ IF Acceptable(r) THEN Transaction(r) ELSE UNCHANGED <<pg, carried>>
    /\ UNCHANGED <<inbox, last, watcher, budget>>

\* Mutant of Recorded: the last version read, not the one looked up first.
RecordedLatest == Latest

Recorded == current

SetVersion ==
    /\ pc = "recording"
    /\ last' = Recorded
    /\ Leave
    /\ UNCHANGED <<inbox, pg, carried, orphans, budget>>

\* process_inbox() raises, the feed or the database being out of reach, or
\* the watcher is restarted: the version is not recorded.
Interrupted ==
    /\ pc \in {"reading", "recording"}
    /\ Error
    /\ Leave
    /\ UNCHANGED <<inbox, last, pg, carried, orphans, abandoned>>

-----------------------------------------------------------------------------

Watch == LookUp \/ ReadFeed \/ PostOk \/ PostRefused \/ SetVersion

Trouble == PostFails \/ Abandon \/ Interrupted

Next ==
    \/ Watch
    \/ Trouble
    \/ \E r \in orphans : OrphanEnds(r)
    \/ \E commit \in Commits : WriteInbox(commit)

Spec == Init /\ [][Next]_vars

\* The watcher polls for ever and the sync service finishes what it began.
FairSpec ==
    /\ Spec
    /\ WF_vars(Watch)
    /\ WF_vars(\E r \in orphans : OrphanEnds(r))

-----------------------------------------------------------------------------
(* Properties.                                                             *)

TypeOK ==
    /\ inbox \in Seq(Commits) /\ Len(inbox) <= MaxCommits
    /\ last \in -1..(MaxCommits - 1)
    /\ pg \in [Keys -> Values \cup {Absent}]
    /\ carried \subseteq Versions
    /\ pc \in {"sleeping", "reading", "posting", "recording"}
    /\ current \in -1..(MaxCommits - 1)
    /\ orphans \in SUBSET [from : 0..MaxCommits, upto : -1..(MaxCommits - 1),
                           changes : [Keys -> Values \cup {Absent, Same}]]
    /\ errors \in 0..MaxErrors
    /\ abandoned \in 0..MaxAbandons

Carried(v) == v \in carried \/ inbox[v + 1].value = Same

\* No version is recorded before its changes are in Postgres: a failure
\* between the two makes the watcher read them again, never skip them.
NothingSkipped == \A v \in 0..last : v <= Latest /\ Carried(v)

\* Does every update keep the key of the row it changes?
KeysStay == \A v \in 0..Latest : inbox[v + 1].left = Absent

\* No request has been abandoned and no update has changed a key.
Calm == abandoned = 0 /\ KeysStay

\* What is in Postgres is the inbox as of a version, the recorded one or a
\* later one: "exactly-once and ordering", "deletes included" (watcher.py:3-13).
OrderKept == \E v \in -1..Latest : v >= last /\ pg = LakeAt[v]

\* As long as no request is abandoned and no update changes a key, an old
\* change never lands on top of a newer one, whatever calls fail, whatever
\* Postgres refuses and whenever the watcher is restarted.
AlwaysAPrefix == Calm => OrderKept

\* The rows of all versions so far, the empty table before them included.
Lake == [n \in 1..(Latest + 2) |-> LakeAt[n - 2]]

\* The version of the inbox that Postgres has the rows of.
Shown == Max(carried \cup {-1})

Mirrored == INSTANCE Mirror WITH
    lake  <- Lake,
    table <- pg,
    shown <- Shown + 2,
    kept  <- Calm

\* The watcher and reverse-apply implement a mirror of the inbox that only
\* moves forward: what the watcher applies again, it applies from the version
\* Postgres already has, whatever failed in between.
MirrorSpec == Mirrored!Spec

\* A row Postgres refuses holds up all the changes behind it, but not for
\* ever: once the lakehouse has mended it and stops writing, Postgres ends up
\* with the inbox's rows.
EventuallyMirrored ==
    LET Mended == \A k \in Keys : LakeAt[Latest][k] \notin Refused
    IN  <>[](Calm /\ Mended => pg = LakeAt[Latest])
=============================================================================
