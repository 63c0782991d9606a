-------------------------------- MODULE Sink --------------------------------
(***************************************************************************)
(* The Delta sink (src/services/sink): one process that consumes the CDC   *)
(* topics, collects rows per Delta table, appends each table's rows as one *)
(* Delta commit and then commits its Kafka offsets.                        *)
(*                                                                         *)
(* A Delta commit carries one marker per topic partition, the largest      *)
(* offset of the batch (an "application transaction").  On assignment the  *)
(* sink resumes a partition behind its marker, whatever Kafka says.        *)
(*                                                                         *)
(* The model has the process (volatile memory, a program counter for the   *)
(* places where it can stop), the Kafka group offsets, and the tables with *)
(* their markers.  A record is its offset: no property depends on what is  *)
(* in a row, only on how often it reaches the table.                       *)
(***************************************************************************)
EXTENDS Integers, FiniteSets

CONSTANTS
    Partitions,       \* topic partitions the subscription matches
    TableOf,          \* the Delta table of each partition
    MaxOffset,        \* bound: records per partition
    Skipped,          \* <<p, o>>: to_record makes no row of this record
    BatchMaxRecords,  \* settings.batch_max_records
    RejectsStale,     \* Delta refuses a commit whose marker is not newer
    Faults,           \* the kinds of fault that may happen
    MaxFaults         \* bound: how many of them in one behaviour

None == -1

Offsets == 0..(MaxOffset - 1)

FaultKinds ==
    {"crash",              \* the process dies (SIGKILL, SIGTERM, OOM)
     "poll_raises",        \* poll() reports a fatal error, or Ctrl-C
     "write_fails",        \* write_deltalake raises, nothing is committed
     "write_unacked",      \* write_deltalake commits, then raises
     "write_misread",      \* as write_fails, with "version", "already" or
                           \* "transaction" in the text of the error
     "commit_fails",       \* the Kafka offset commit raises or is partial
     "offsets_reset",      \* an operator resets the group to earliest
     "assign_read_fails",  \* the markers cannot be read on assignment
     "rebalance"}          \* the group is rebalanced: on_assign runs again

ASSUME SinkAssumption ==
    /\ MaxOffset \in Nat
    /\ BatchMaxRecords \in Nat \ {0}
    /\ MaxFaults \in Nat
    /\ Skipped \subseteq Partitions \X Offsets
    /\ RejectsStale \in BOOLEAN
    /\ Faults \subseteq FaultKinds

Tables == {TableOf[p] : p \in Partitions}

IsRow(p, o) == <<p, o>> \notin Skipped

VARIABLES
    logEnd,     \* [p]: next offset the producer will use
    committed,  \* [p]: Kafka's committed offset of the group
    copies,     \* [p][o]: times the row at o is in the Delta table
    marker,     \* [p]: the table's application transaction, or None
    pc,         \* where the process is
    pos,        \* [p]: next offset poll() will deliver
    stored,     \* [p]: offset commit() would commit, or None
    batch,      \* [p][o]: times the row at o is in the buffered batch
    offsets,    \* [p]: largest offset in the batch, or None
    count,      \* records in the batch
    todo,       \* tables the flush in progress has not written yet
    unwinding,  \* the flush is the one of the "finally" block
    faults,     \* faults so far
    misread     \* history: the rows of the writes that were misread

log     == <<logEnd, misread>>
delta   == <<copies, marker>>
buffer  == <<batch, offsets, count>>
cursor  == <<pos, stored>>
control == <<pc, todo, unwinding>>
vars    == <<logEnd, committed, copies, marker, pc, pos, stored, batch,
             offsets, count, todo, unwinding, faults, misread>>

NoBatch == [p \in Partitions |-> [o \in Offsets |-> 0]]

Unset == [p \in Partitions |-> None]

Init ==
    /\ logEnd = [p \in Partitions |-> 0]
    /\ committed = [p \in Partitions |-> 0]
    /\ copies = NoBatch
    /\ marker = Unset
    /\ pc = "down"
    /\ pos = [p \in Partitions |-> 0]
    /\ stored = Unset
    /\ batch = NoBatch
    /\ offsets = Unset
    /\ count = 0
    /\ todo = {}
    /\ unwinding = FALSE
    /\ faults = 0
    /\ misread = {}

Fault(kind) ==
    /\ kind \in Faults
    /\ faults < MaxFaults
    /\ faults' = faults + 1

-----------------------------------------------------------------------------
(* Surroundings: the CDC producer, and the group reset of eo-test.         *)

Produce(p) ==
    /\ logEnd[p] < MaxOffset
    /\ logEnd' = [logEnd EXCEPT ![p] = @ + 1]
    /\ UNCHANGED <<committed, delta, control, cursor, buffer, faults, misread>>

\* kafka-consumer-groups --reset-offsets --to-earliest, on a stopped sink.
ResetOffsets ==
    /\ pc = "down"
    /\ Fault("offsets_reset")
    /\ committed' = [p \in Partitions |-> 0]
    /\ UNCHANGED <<log, delta, control, cursor, buffer>>

-----------------------------------------------------------------------------
(* How the process stops.                                                  *)

\* The process is gone, and all it held in memory.
Exit ==
    /\ pc' = "down"
    /\ pos' = [p \in Partitions |-> 0]
    /\ stored' = Unset
    /\ batch' = NoBatch
    /\ offsets' = Unset
    /\ count' = 0
    /\ todo' = {}
    /\ unwinding' = FALSE

Crash ==
    /\ pc # "down"
    /\ Fault("crash")
    /\ Exit
    /\ UNCHANGED <<log, committed, delta>>

\* The tables with rows in a batch whose largest offsets are off.
Pending(off) == {TableOf[p] : p \in {q \in Partitions : off[q] # None}}

\* An exception leaves the consumer loop: the "finally" block flushes what
\* is in memory once more; an exception of that flush ends the process.
Raise ==
    IF unwinding \/ count = 0
      THEN Exit
      ELSE /\ pc' = "flush"
           /\ todo' = Pending(offsets)
           /\ unwinding' = TRUE
           /\ UNCHANGED <<cursor, buffer>>

PollRaises ==
    /\ pc = "poll"
    /\ Fault("poll_raises")
    /\ Raise
    /\ UNCHANGED <<log, committed, delta>>

-----------------------------------------------------------------------------
(* Start and assignment.                                                   *)

Boot ==
    /\ pc = "down"
    /\ pc' = "assigning"
    /\ UNCHANGED <<log, committed, delta, cursor, buffer, todo, unwinding,
                   faults>>

\* Mutant of ResumeAt: one record too far.
ResumeTooFar(unread) ==
    [p \in Partitions |-> IF p \in unread \/ marker[p] = None
                            THEN committed[p]
                            ELSE marker[p] + 2]

\* on_assign: behind the marker, or where the group stands when the table
\* has no marker of the partition, or its log could not be read.
ResumeAt(unread) ==
    [p \in Partitions |-> IF p \in unread \/ marker[p] = None
                            THEN committed[p]
                            ELSE marker[p] + 1]

OnAssign(unread) ==
    /\ pos' = ResumeAt(unread)
    /\ stored' = Unset
    /\ pc' = "poll"
    /\ UNCHANGED <<log, committed, delta, buffer, todo, unwinding>>

Assign ==
    /\ pc = "assigning"
    /\ \/ OnAssign({}) /\ UNCHANGED faults
       \/ \E unread \in SUBSET Partitions \ {{}} :
             OnAssign(unread) /\ Fault("assign_read_fails")

\* A new topic matches the pattern, or a broker moves: poll() runs on_assign
\* again, whether the markers can be read or not.  There is no on_revoke, and
\* on_assign leaves the batch as it is.
Rebalance ==
    /\ pc = "poll"
    /\ Fault("rebalance")
    /\ \E unread \in SUBSET Partitions :
          /\ unread # {} => "assign_read_fails" \in Faults
          /\ OnAssign(unread)

-----------------------------------------------------------------------------
(* The consumer loop.                                                      *)

\* poll() delivers the next record of p; delivery also stores its position.
Deliver(p) ==
    /\ pc = "poll"
    /\ pos[p] < logEnd[p]
    /\ pos' = [pos EXCEPT ![p] = @ + 1]
    /\ stored' = [stored EXCEPT ![p] = pos[p] + 1]

PollSkipped(p) ==
    /\ Deliver(p)
    /\ ~IsRow(p, pos[p])
    /\ UNCHANGED <<log, committed, delta, control, buffer, faults>>

\* A row goes to the batch; the flush that may follow is due when the batch
\* is full, or when the timer says so.
PollRow(p) ==
    /\ Deliver(p)
    /\ IsRow(p, pos[p])
    /\ batch' = [batch EXCEPT ![p][pos[p]] = @ + 1]
    /\ offsets' = [offsets EXCEPT ![p] = IF pos[p] > @ THEN pos[p] ELSE @]
    /\ count' = count + 1
    /\ \/ count' < BatchMaxRecords /\ UNCHANGED <<pc, todo>>
       \/ pc' = "flush" /\ todo' = Pending(offsets')
    /\ UNCHANGED <<log, committed, delta, unwinding, faults>>

\* Mutant of FlushDue: an idle poll flushes full batches only.
FlushFull ==
    /\ pc = "poll"
    /\ count >= BatchMaxRecords
    /\ pc' = "flush"
    /\ todo' = Pending(offsets)
    /\ UNCHANGED <<log, committed, delta, cursor, buffer, unwinding, faults>>

\* An idle poll finds the timer expired.  An empty batch is not flushed.
FlushDue ==
    /\ pc = "poll"
    /\ count > 0
    /\ pc' = "flush"
    /\ todo' = Pending(offsets)
    /\ UNCHANGED <<log, committed, delta, cursor, buffer, unwinding, faults>>

-----------------------------------------------------------------------------
(* flush(): one Delta commit per table, then the offset commit.            *)

\* A marker of the batch is not newer than the one the table has.
Stale(t) ==
    \E p \in Partitions :
        TableOf[p] = t /\ offsets[p] # None /\ offsets[p] <= marker[p]

\* Mutant of Land: the commit carries no app transactions.
LandWithoutMarkers(t) ==
    /\ copies' = [p \in Partitions |-> [o \in Offsets |->
                     IF TableOf[p] = t THEN copies[p][o] + batch[p][o]
                                       ELSE copies[p][o]]]
    /\ UNCHANGED marker

\* The rows of t and their markers become one Delta commit.
Land(t) ==
    /\ copies' = [p \in Partitions |-> [o \in Offsets |->
                     IF TableOf[p] = t THEN copies[p][o] + batch[p][o]
                                       ELSE copies[p][o]]]
    /\ marker' = [p \in Partitions |->
                     IF TableOf[p] = t /\ offsets[p] # None
                       THEN offsets[p] ELSE marker[p]]

\* Mutant of Written: the loop over the tables ends after the first one.
WrittenFirst(t) ==
    /\ todo' = {}
    /\ pc' = "commit"
    /\ UNCHANGED <<cursor, buffer, unwinding>>

Written(t) ==
    /\ todo' = todo \ {t}
    /\ pc' = IF todo' = {} THEN "commit" ELSE "flush"
    /\ UNCHANGED <<cursor, buffer, unwinding>>

Flushing(t) == pc = "flush" /\ t \in todo

Refused(t) == RejectsStale /\ Stale(t)

AppendOk(t) ==
    /\ Flushing(t)
    /\ ~Refused(t)
    /\ Land(t)
    /\ Written(t)
    /\ UNCHANGED <<log, committed, faults>>

\* Delta refuses the commit; writer.append takes that for a duplicate.
AppendRejected(t) ==
    /\ Flushing(t)
    /\ Refused(t)
    /\ Written(t)
    /\ UNCHANGED <<log, committed, delta, faults>>

RowsOf(t) ==
    {po \in Partitions \X Offsets : TableOf[po[1]] = t /\ batch[po[1]][po[2]] > 0}

\* Another failure whose text looks like the refusal.
AppendMisread(t) ==
    /\ Flushing(t)
    /\ Fault("write_misread")
    /\ misread' = misread \cup RowsOf(t)
    /\ Written(t)
    /\ UNCHANGED <<logEnd, committed, delta>>

AppendRaises(t) ==
    /\ Flushing(t)
    /\ \/ Fault("write_fails") /\ UNCHANGED delta
       \/ Fault("write_unacked") /\ ~Refused(t) /\ Land(t)
    /\ Raise
    /\ UNCHANGED <<log, committed>>

Uncommitted == {p \in Partitions : stored[p] # None}

CommitFor(ps) ==
    committed' = [p \in Partitions |->
                     IF p \in ps THEN stored[p] ELSE committed[p]]

\* Mutants of ClearBatch: one of the two dictionaries is not replaced.
ClearOffsetsOnly ==
    /\ batch' = batch
    /\ offsets' = Unset
    /\ count' = 0

ClearRowsOnly ==
    /\ batch' = NoBatch
    /\ offsets' = offsets
    /\ count' = 0

ClearBatch ==
    /\ batch' = NoBatch
    /\ offsets' = Unset
    /\ count' = 0

\* commit() returns; the partitions it could not commit are in its result,
\* which the sink does not look at.
CommitReturns ==
    /\ pc = "commit"
    /\ Uncommitted # {}
    /\ \/ CommitFor(Uncommitted) /\ UNCHANGED faults
       \/ \E kept \in SUBSET Uncommitted :
             /\ kept # Uncommitted
             /\ CommitFor(kept)
             /\ Fault("commit_fails")
    /\ IF unwinding
         THEN Exit
         ELSE /\ ClearBatch
              /\ pc' = "poll"
              /\ UNCHANGED <<cursor, todo, unwinding>>
    /\ UNCHANGED <<log, delta>>

\* commit() raises: nothing was delivered since the assignment, or the
\* broker's answer was an error or got lost.
CommitRaises ==
    /\ pc = "commit"
    /\ \/ Uncommitted = {} /\ UNCHANGED <<committed, faults>>
       \/ /\ Uncommitted # {}
          /\ \E kept \in {{}, Uncommitted} : CommitFor(kept)
          /\ Fault("commit_fails")
    /\ Raise
    /\ UNCHANGED <<log, delta>>

-----------------------------------------------------------------------------

\* What the process does by itself, when nothing goes wrong around it.
Progress ==
    \/ Boot
    \/ Assign
    \/ FlushDue
    \/ \E p \in Partitions : PollSkipped(p) \/ PollRow(p)
    \/ \E t \in Tables : AppendOk(t) \/ AppendRejected(t)
    \/ CommitReturns
    \/ CommitRaises

Trouble ==
    \/ Crash
    \/ PollRaises
    \/ Rebalance
    \/ ResetOffsets
    \/ \E t \in Tables : AppendMisread(t) \/ AppendRaises(t)

Next ==
    \/ Progress
    \/ Trouble
    \/ \E p \in Partitions : Produce(p)

Spec == Init /\ [][Next]_vars

\* The container restarts the process ("unless-stopped") and its one thread
\* runs; a broker or a table that can be reached is reached in the end.
FairSpec == Spec /\ WF_vars(Progress)

-----------------------------------------------------------------------------
(* Properties.                                                             *)

TypeOK ==
    /\ logEnd \in [Partitions -> 0..MaxOffset]
    /\ committed \in [Partitions -> 0..MaxOffset]
    /\ copies \in [Partitions -> [Offsets -> Nat]]
    /\ marker \in [Partitions -> Offsets \cup {None}]
    /\ pc \in {"down", "assigning", "poll", "flush", "commit"}
    /\ pos \in [Partitions -> 0..MaxOffset]
    /\ stored \in [Partitions -> 0..MaxOffset \cup {None}]
    /\ batch \in [Partitions -> [Offsets -> Nat]]
    /\ offsets \in [Partitions -> Offsets \cup {None}]
    /\ count \in Nat
    /\ todo \in SUBSET Tables
    /\ unwinding \in BOOLEAN
    /\ faults \in 0..MaxFaults
    /\ misread \subseteq Partitions \X Offsets

\* No row is in a Delta table twice, whatever is re-delivered or retried
\* (README "Exactly-once sink", consumer.py:57-60).
ExactlyOnce ==
    \A p \in Partitions, o \in Offsets : copies[p][o] <= 1

\* Kafka's offset and Delta's marker are only ever moved over rows that are
\* in the table ("committed only after a successful write", consumer.py:4-6).
CommittedIsWritten ==
    \A p \in Partitions, o \in Offsets :
        IsRow(p, o) /\ (o < committed[p] \/ o <= marker[p])
            => copies[p][o] >= 1

\* They are, whatever fails and in whatever order, but for the rows of a write
\* whose error was misread.
NothingLost ==
    \A p \in Partitions, o \in Offsets :
        IsRow(p, o) /\ (o < committed[p] \/ o <= marker[p])
            => copies[p][o] >= 1 \/ <<p, o>> \in misread

\* Every row that is produced reaches its table, provided the faults end,
\* unless its write was misread.
EventuallyDelivered ==
    \A p \in Partitions, o \in Offsets :
        o < logEnd[p] /\ IsRow(p, o)
            ~> copies[p][o] >= 1 \/ <<p, o>> \in misread

Feed == INSTANCE ChangeFeed WITH
            upto <- [p \in Partitions |-> marker[p] + 1],
            rows <- copies

\* The tables, seen from their markers, are an exactly-once change feed: the
\* rows of a partition appear in log order, without gaps, by whole commits.
FeedSpec == Feed!Spec

-----------------------------------------------------------------------------
(* The invariant behind ExactlyOnce and NothingLost.  It is inductive when *)
(* every assignment reads the markers into an empty batch and a failed     *)
(* write is never taken for a duplicate.                                   *)

Tolerated == FaultKinds \ {"write_misread", "assign_read_fails", "rebalance"}

\* The table holds exactly the rows up to its marker, once each.
MarkerSplits ==
    \A p \in Partitions, o \in Offsets :
        copies[p][o] = IF IsRow(p, o) /\ o <= marker[p] THEN 1 ELSE 0

InLog ==
    \A p \in Partitions : marker[p] < logEnd[p] /\ committed[p] <= logEnd[p]

\* The rows below x are in the table.
WrittenBelow(p, x) ==
    \A o \in Offsets : IsRow(p, o) /\ o < x => o <= marker[p]

CommittedWritten == \A p \in Partitions : WrittenBelow(p, committed[p])

Consuming == pc \in {"poll", "flush", "commit"}

\* What was delivered is in the table or in the batch, and what is in the
\* batch was delivered, once.
BatchHolds ==
    \A p \in Partitions :
        /\ offsets[p] # None => batch[p][offsets[p]] = 1
        /\ stored[p] # None => stored[p] <= pos[p]
        /\ Consuming =>
              /\ marker[p] < pos[p]
              /\ pos[p] <= logEnd[p]
        /\ \A o \in Offsets :
              /\ batch[p][o] \in {0, 1}
              /\ batch[p][o] = 1 =>
                    /\ IsRow(p, o)
                    /\ o <= offsets[p]
                    /\ o < pos[p]
              /\ Consuming /\ IsRow(p, o) /\ o < pos[p] => o <= marker[p] \/ batch[p][o] = 1

Fresh(t) ==
    \A p \in Partitions, o \in Offsets :
        TableOf[p] = t /\ batch[p][o] = 1 => o > marker[p]

Done(t) == \A p \in Partitions : TableOf[p] = t => offsets[p] <= marker[p]

\* A table has all of its part of the batch, or nothing of it.
AllOrNothing ==
    \A t \in Tables :
        /\ Fresh(t) \/ Done(t)
        /\ pc = "poll" => Fresh(t)
        /\ pc = "flush" /\ t \notin todo => Done(t)
        /\ pc = "commit" => Done(t)

\* Nothing is in memory before the assignment.
EmptyAtStart == pc \in {"down", "assigning"} => offsets = Unset

SinkInv ==
    /\ TypeOK
    /\ MarkerSplits
    /\ InLog
    /\ CommittedWritten
    /\ BatchHolds
    /\ AllOrNothing
    /\ EmptyAtStart
=============================================================================
