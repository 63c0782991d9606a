----------------------------- MODULE ReverseSync ------------------------------
(***************************************************************************)
(* The reverse-sync endpoint of the sync service (src/services/sync) for   *)
(* one table: rows of the lakehouse, with their versions, are written to   *)
(* Postgres under a conflict policy, and a ledger remembers the version    *)
(* applied last for each key.                                              *)
(*                                                                         *)
(* A request is one transaction (read committed) that, for each of its     *)
(* rows, reads the Postgres row, reads the ledger, decides, and writes     *)
(* both.  Requests run concurrently, in the threads of the web server, and *)
(* applications write to the same table.                                   *)
(***************************************************************************)
EXTENDS ReverseDecision, Sequences, FiniteSets

\* The change has no value for the row's version column.
Kept == MaxVersion + 1

CONSTANTS
    Keys,          \* primary keys
    Handlers,      \* requests that can be in progress at the same time
    Bodies,        \* requests (below)
    MaxRequests,   \* bound: requests
    MaxAppWrites   \* bound: transactions of applications

\* A row of a request: the version that is compared and recorded, which is that
\* of the request's version_col, and what it has for the table's version column.
Changes == [key : Keys, version : Versions \cup {NoVersion},
            column : Versions \cup {NoVersion, Kept}]

\* A request has rows, a policy, and names the table's version column or not.
\* If it does, the version is what the row has there, if it has anything.  If
\* not, it names no column, or one that is not in the table.
ASSUME RequestAssumption ==
    /\ \A body \in Bodies :
          /\ body.rows \in Seq(Changes)
          /\ body.rows # <<>>
          /\ body.policy \in Policies
          /\ body.named \in BOOLEAN
          /\ body.named => \A i \in DOMAIN body.rows :
                body.rows[i].version =
                    IF body.rows[i].column = Kept THEN NoVersion ELSE body.rows[i].column
    /\ MaxRequests \in Nat /\ MaxAppWrites \in Nat

VARIABLES
    pg,        \* the committed rows of the Postgres table
    ledger,    \* the committed lake_version of each key in sync_applied
    past,      \* history: the highest version committed for a key, and whether
               \* a change was applied that the ledger could not guard
    pc,        \* where each handler is
    todo,      \* the rows it has still to handle, the current one first
    policy,    \* the policy of its request
    named,     \* does it name the version column?
    found,     \* the Postgres row it has read for the current one
    mine,      \* what it has written for a key, not yet committed
    overtaken, \* history: who has committed the current key since it was read
    requests,  \* requests so far
    appWrites  \* transactions of applications so far

database == <<pg, ledger, past>>
request == <<policy, named>>
vars == <<pg, ledger, past, pc, todo, policy, named, found, mine, overtaken,
          requests, appWrites>>

Nothing == [highest |-> NoVersion, doubtful |-> FALSE]

Unwritten == [written |-> FALSE, row |-> NoRow, entry |-> NoVersion, past |-> Nothing]

Written(h) == {k \in Keys : mine[h][k].written}

\* A handler without a request.
AnyPolicy == [kind |-> "last_write_wins", truth |-> "postgres"]

Init ==
    /\ pg = [k \in Keys |-> NoRow]
    /\ ledger = [k \in Keys |-> NoVersion]
    /\ past = [k \in Keys |-> Nothing]
    /\ pc = [h \in Handlers |-> "idle"]
    /\ todo = [h \in Handlers |-> <<>>]
    /\ policy = [h \in Handlers |-> AnyPolicy]
    /\ named = [h \in Handlers |-> FALSE]
    /\ found = [h \in Handlers |-> NoRow]
    /\ mine = [h \in Handlers |-> [k \in Keys |-> Unwritten]]
    /\ overtaken = [h \in Handlers |-> {}]
    /\ requests = 0
    /\ appWrites = 0

Change(h) == Head(todo[h])

Key(h) == Change(h).key

\* The current key, as the transaction sees it.
Row(h) == IF Key(h) \in Written(h) THEN mine[h][Key(h)].row ELSE pg[Key(h)]

Entry(h) == IF Key(h) \in Written(h) THEN mine[h][Key(h)].entry ELSE ledger[Key(h)]

Past(h) == IF Key(h) \in Written(h) THEN mine[h][Key(h)].past ELSE past[Key(h)]

\* The handlers that must wait, and the ones they wait for: a row written by
\* an open transaction is locked until that transaction ends.
WaitsFor(h, g) ==
    /\ g # h
    /\ pc[h] = "writing"
    /\ Key(h) \in Written(g)

\* Everybody in the set waits for somebody in it.
Deadlocked(h) ==
    \E S \in SUBSET Handlers :
        /\ h \in S
        /\ \A g \in S : \E other \in S : WaitsFor(g, other)

\* Somebody has committed these keys.
Overtake(keys, who) ==
    overtaken' = [h \in Handlers |->
                     overtaken[h] \cup
                     (IF todo[h] # <<>> /\ Key(h) \in keys THEN {who} ELSE {})]

-----------------------------------------------------------------------------
(* Surroundings                                                            *)

Open(h, body) ==
    /\ pc[h] = "idle"
    /\ requests < MaxRequests
    /\ requests' = requests + 1
    /\ pc' = [pc EXCEPT ![h] = "reading"]
    /\ todo' = [todo EXCEPT ![h] = body.rows]
    /\ policy' = [policy EXCEPT ![h] = body.policy]
    /\ named' = [named EXCEPT ![h] = body.named]
    /\ UNCHANGED <<database, found, mine, overtaken, appWrites>>

\* An application writes a row, with a newer version, or deletes it.
AppWrites(k) ==
    /\ appWrites < MaxAppWrites
    /\ appWrites' = appWrites + 1
    /\ \A h \in Handlers : k \notin Written(h)
    /\ \E row \in {RowOf(v) : v \in Versions} \cup {NoRow} :
          /\ row # pg[k]
          /\ row # NoRow => row.version > pg[k].version
          /\ pg' = [pg EXCEPT ![k] = row]
    /\ Overtake({k}, "application")
    /\ UNCHANGED <<ledger, past, pc, todo, request, found, mine, requests>>

-----------------------------------------------------------------------------
(* reverse_sync()                                                          *)

\* Mutant of NextRow: the last row is left out.
NextRowShort(h) ==
    /\ todo' = [todo EXCEPT ![h] = Tail(@)]
    /\ pc' = [pc EXCEPT ![h] = IF Len(todo[h]) <= 2 THEN "committing" ELSE "reading"]
    /\ found' = [found EXCEPT ![h] = NoRow]
    /\ overtaken' = [overtaken EXCEPT ![h] = {}]
    /\ UNCHANGED <<database, request, requests, appWrites>>

\* On to the next row of the request, or to the commit.
NextRow(h) ==
    /\ todo' = [todo EXCEPT ![h] = Tail(@)]
    /\ pc' = [pc EXCEPT ![h] = IF Tail(todo[h]) = <<>> THEN "committing"
                                                       ELSE "reading"]
    /\ found' = [found EXCEPT ![h] = NoRow]
    /\ overtaken' = [overtaken EXCEPT ![h] = {}]
    /\ UNCHANGED <<database, request, requests, appWrites>>

\* Its columns, as rec.get(version_col) knows them: a request that does not
\* name the version column sees no version.
Seen(h) == IF Row(h).exists /\ ~named[h] THEN RowOf(NoVersion) ELSE Row(h)

\* _current_pg_row(): what is committed, or what this transaction has written.
ReadRow(h) ==
    /\ pc[h] = "reading"
    /\ found' = [found EXCEPT ![h] = Seen(h)]
    /\ overtaken' = [overtaken EXCEPT ![h] = {}]
    /\ pc' = [pc EXCEPT ![h] = "deciding"]
    /\ UNCHANGED <<database, todo, request, mine, requests, appWrites>>

\* The decision about the current row, with the ledger read: _last_applied()
\* and decide_reverse_apply().
Decision(h) == Decide(found[h], RowOf(Change(h).version), policy[h], Entry(h))

LeaveRow(h) ==
    /\ pc[h] = "deciding"
    /\ Decision(h) = "skip"
    /\ NextRow(h)
    /\ UNCHANGED mine

DecideToApply(h) ==
    /\ pc[h] = "deciding"
    /\ Decision(h) = "apply"
    /\ pc' = [pc EXCEPT ![h] = "writing"]
    /\ UNCHANGED <<database, todo, request, found, mine, overtaken, requests,
                   appWrites>>

\* _upsert(): only the columns of the change are updated, so without one for
\* the version the row keeps the version it has.
Upserted(h) ==
    RowOf(IF Change(h).column = Kept THEN Row(h).version ELSE Change(h).column)

\* Mutant of Recorded: an entry that is there is not updated.
RecordedOnce(h) == IF Entry(h) = NoVersion THEN Change(h).version ELSE Entry(h)

\* _record_applied(): the version of the change, whatever was there before.
Recorded(h) == Change(h).version

\* The ledger cannot tell whether the change was applied before when it has no
\* version, or when another request has applied one since the row was read.
Remembered(h) ==
    [highest |-> IF Change(h).version > Past(h).highest THEN Change(h).version
                                                        ELSE Past(h).highest,
     doubtful |-> \/ Past(h).doubtful
                  \/ Change(h).version = NoVersion
                  \/ "request" \in overtaken[h]]

\* _upsert() and _record_applied().  The first waits for whoever has written
\* the row; the second then finds nobody at the ledger's row of the same key.
ApplyRow(h) ==
    /\ pc[h] = "writing"
    /\ \A g \in Handlers : ~WaitsFor(h, g)
    /\ mine' = [mine EXCEPT ![h][Key(h)] =
                   [written |-> TRUE, row |-> Upserted(h), entry |-> Recorded(h),
                    past |-> Remembered(h)]]
    /\ NextRow(h)

\* The transaction ends, one way or the other.
End(h) ==
    /\ pc' = [pc EXCEPT ![h] = "idle"]
    /\ todo' = [todo EXCEPT ![h] = <<>>]
    /\ policy' = [policy EXCEPT ![h] = AnyPolicy]
    /\ named' = [named EXCEPT ![h] = FALSE]
    /\ found' = [found EXCEPT ![h] = NoRow]
    /\ mine' = [mine EXCEPT ![h] = [k \in Keys |-> Unwritten]]
    /\ UNCHANGED <<requests, appWrites>>

Commit(h) ==
    /\ pc[h] = "committing"
    /\ pg' = [k \in Keys |-> IF k \in Written(h) THEN mine[h][k].row ELSE pg[k]]
    /\ ledger' = [k \in Keys |-> IF k \in Written(h) THEN mine[h][k].entry
                                                     ELSE ledger[k]]
    /\ past' = [k \in Keys |-> IF k \in Written(h) THEN mine[h][k].past ELSE past[k]]
    /\ Overtake(Written(h), "request")
    /\ End(h)

Aborted(h) ==
    /\ End(h)
    /\ overtaken' = [overtaken EXCEPT ![h] = {}]
    /\ UNCHANGED database

\* Mutant of Refuse: the connection is left open, with its locks.
RefuseLeaks(h) ==
    /\ pc[h] = "deciding"
    /\ Decision(h) = "raise"
    /\ pc' = [pc EXCEPT ![h] = "idle"]
    /\ todo' = [todo EXCEPT ![h] = <<>>]
    /\ overtaken' = [overtaken EXCEPT ![h] = {}]
    /\ UNCHANGED <<database, request, found, mine, requests, appWrites>>

\* The policy cannot be followed: 400, and the transaction is rolled back.
Refuse(h) ==
    /\ pc[h] = "deciding"
    /\ Decision(h) = "raise"
    /\ Aborted(h)

\* Postgres aborts a transaction of a deadlock.
BreakDeadlock(h) ==
    /\ Deadlocked(h)
    /\ Aborted(h)

\* A row lacks the key, the connection fails, or the service is restarted.
RollBack(h) ==
    /\ pc[h] # "idle"
    /\ Aborted(h)

-----------------------------------------------------------------------------

Handle(h) ==
    \/ ReadRow(h)
    \/ LeaveRow(h)
    \/ DecideToApply(h)
    \/ ApplyRow(h)
    \/ Commit(h)
    \/ Refuse(h)

Next ==
    \/ \E h \in Handlers :
          \/ \E body \in Bodies : Open(h, body)
          \/ Handle(h)
          \/ BreakDeadlock(h)
          \/ RollBack(h)
    \/ \E k \in Keys : AppWrites(k)

Spec == Init /\ [][Next]_vars

\* As long as a thread can go on one does, and Postgres looks for deadlocks.
FairSpec == Spec /\ WF_vars(\E h \in Handlers : Handle(h) \/ BreakDeadlock(h))

-----------------------------------------------------------------------------
(* Properties.                                                             *)

Pasts == [highest : Versions \cup {NoVersion}, doubtful : BOOLEAN]

Writes == [written : BOOLEAN, row : Rows \cup {NoRow},
           entry : Versions \cup {NoVersion}, past : Pasts]

TypeOK ==
    /\ pg \in [Keys -> Rows \cup {NoRow}]
    /\ ledger \in [Keys -> Versions \cup {NoVersion}]
    /\ past \in [Keys -> Pasts]
    /\ pc \in [Handlers -> {"idle", "reading", "deciding", "writing", "committing"}]
    /\ todo \in [Handlers -> Seq(Changes)]
    /\ \A h \in Handlers :
          pc[h] \in {"reading", "deciding", "writing"} <=> todo[h] # <<>>
    /\ policy \in [Handlers -> Policies]
    /\ named \in [Handlers -> BOOLEAN]
    /\ found \in [Handlers -> Rows \cup {NoRow}]
    /\ mine \in [Handlers -> [Keys -> Writes]]
    /\ overtaken \in [Handlers -> SUBSET {"request", "application"}]
    /\ requests \in 0..MaxRequests
    /\ appWrites \in 0..MaxAppWrites

\* The ledger has the highest version applied for a key, however requests
\* interleave, fail and meet applications (state_machine.py:69-70 says so of
\* every key), unless some change of the key had no version, or was decided on
\* before another request committed that key and written after it.  The first
\* replaces the entry by NULL (reconciler.py:271), the second by its own version.
LedgerIsHighest ==
    \A k \in Keys : past[k].doubtful \/ ledger[k] = past[k].highest

\* The change at hand has been applied before, or a later one was.
AppliedBefore(h) == Duplicate(Change(h).version, Past(h).highest)

\* It takes the row back to an older version.
OverwritesNewer(h) ==
    /\ policy[h].kind = "last_write_wins"
    /\ Change(h).version < Row(h).version

\* No change already applied, or older than one of these, is applied again,
\* by the same request or by another, and last_write_wins leaves newer rows of
\* Postgres alone.  (state_machine.py:72-74 promises the first without a
\* condition.  The code breaks it for a key once a change of it had no version,
\* since the entry it empties guards nothing, and when two requests for the key
\* overlap; and an application's write between the read and the upsert is
\* overwritten, however new.)
NeverBack ==
    [][\A h \in Handlers : ApplyRow(h) =>
          /\ AppliedBefore(h) => Past(h).doubtful \/ "request" \in overtaken[h]
          /\ OverwritesNewer(h) => overtaken[h] # {}]_vars

\* Every request comes to an end: no row of it holds it up for ever, and no
\* request waits for ever for the rows of another.  (There are MaxRequests of
\* them: so, again and again, none is open.)
Answered == []<>(\A h \in Handlers : pc[h] = "idle")
=============================================================================
