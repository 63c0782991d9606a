----------------------------- MODULE SinkProofs -----------------------------
(***************************************************************************)
(* Proofs about the Delta sink, for any partitions, tables, log lengths,   *)
(* batch sizes and number of faults.                                       *)
(***************************************************************************)
EXTENDS Sink, TLAPS

-----------------------------------------------------------------------------
(* Type correctness.                                                       *)

\* An offset that the log has is an offset of the model.
LEMMA OffsetsFacts ==
    /\ \A p \in Partitions : TableOf[p] \in Tables
    /\ \A o \in Offsets : o \in Int /\ 0 <= o /\ o + 1 \in 0..MaxOffset
    /\ \A x \in 0..MaxOffset, y \in 0..MaxOffset :
          x < y => x \in Offsets /\ x + 1 \in 0..MaxOffset
BY SinkAssumption DEF Offsets, Tables

\* The values an empty process holds.
LEMMA EmptyTypes ==
    /\ NoBatch \in [Partitions -> [Offsets -> Nat]]
    /\ Unset \in [Partitions -> Offsets \cup {None}]
    /\ Unset \in [Partitions -> 0..MaxOffset \cup {None}]
    /\ [p \in Partitions |-> 0] \in [Partitions -> 0..MaxOffset]
    /\ 0 \in 0..MaxFaults
<1>1. 0 \in 0..MaxOffset /\ 0 \in 0..MaxFaults
  BY SinkAssumption
<1>2. QED
  BY <1>1 DEF NoBatch, Unset

\* Exit leaves a well-typed empty process behind.
LEMMA ExitType ==
    ASSUME TypeOK, Exit,
           logEnd' \in [Partitions -> 0..MaxOffset],
           committed' \in [Partitions -> 0..MaxOffset],
           copies' \in [Partitions -> [Offsets -> Nat]],
           marker' \in [Partitions -> Offsets \cup {None}],
           faults' \in 0..MaxFaults,
           misread' \subseteq Partitions \X Offsets
    PROVE  TypeOK'
BY EmptyTypes DEF TypeOK, Exit

\* So does an exception, wherever it leaves the process.
LEMMA RaiseType ==
    ASSUME TypeOK, Raise,
           logEnd' \in [Partitions -> 0..MaxOffset],
           committed' \in [Partitions -> 0..MaxOffset],
           copies' \in [Partitions -> [Offsets -> Nat]],
           marker' \in [Partitions -> Offsets \cup {None}],
           faults' \in 0..MaxFaults,
           misread' \subseteq Partitions \X Offsets
    PROVE  TypeOK'
<1>1. CASE Exit
  BY <1>1, ExitType
<1>2. CASE ~(unwinding \/ count = 0)
  BY <1>2 DEF Raise, TypeOK, Pending, Tables, cursor, buffer
<1>3. QED
  BY <1>1, <1>2 DEF Raise

LEMMA FaultType ==
    ASSUME TypeOK, NEW k, Fault(k)
    PROVE  faults' \in 0..MaxFaults
BY SinkAssumption DEF TypeOK, Fault

\* A Delta commit keeps the table and its markers well typed.
LEMMA LandType ==
    ASSUME TypeOK, NEW t \in Tables, Land(t)
    PROVE  /\ copies' \in [Partitions -> [Offsets -> Nat]]
           /\ marker' \in [Partitions -> Offsets \cup {None}]
BY DEF TypeOK, Land

\* An offset commit leaves a position of the log with the group.
LEMMA CommitType ==
    ASSUME TypeOK, NEW ps \in SUBSET Uncommitted, CommitFor(ps)
    PROVE  committed' \in [Partitions -> 0..MaxOffset]
BY DEF TypeOK, CommitFor, Uncommitted

LEMMA AssignType ==
    ASSUME TypeOK, NEW unread, OnAssign(unread), faults' \in 0..MaxFaults
    PROVE  TypeOK'
<1>1. ResumeAt(unread) \in [Partitions -> 0..MaxOffset]
  BY OffsetsFacts DEF TypeOK, ResumeAt
<1>2. QED
  BY <1>1 DEF TypeOK, OnAssign, Unset, log, delta, buffer

LEMMA DeliverType ==
    ASSUME TypeOK, NEW p \in Partitions, Deliver(p)
    PROVE  /\ pos[p] \in Offsets
           /\ pos' \in [Partitions -> 0..MaxOffset]
           /\ stored' \in [Partitions -> 0..MaxOffset \cup {None}]
<1>1. pos[p] \in Offsets /\ pos[p] + 1 \in 0..MaxOffset
  BY OffsetsFacts DEF TypeOK, Deliver
<1>2. QED
  BY <1>1 DEF TypeOK, Deliver

LEMMA TypeInit == Init => TypeOK
<1> SUFFICES ASSUME Init PROVE TypeOK
  OBVIOUS
<1>1. /\ logEnd \in [Partitions -> 0..MaxOffset]
      /\ committed \in [Partitions -> 0..MaxOffset]
      /\ pos \in [Partitions -> 0..MaxOffset]
  BY EmptyTypes DEF Init
<1>2. /\ copies \in [Partitions -> [Offsets -> Nat]]
      /\ batch \in [Partitions -> [Offsets -> Nat]]
  BY EmptyTypes DEF Init
<1>3. /\ marker \in [Partitions -> Offsets \cup {None}]
      /\ offsets \in [Partitions -> Offsets \cup {None}]
      /\ stored \in [Partitions -> 0..MaxOffset \cup {None}]
  BY EmptyTypes DEF Init
<1>4. /\ pc \in {"down", "assigning", "poll", "flush", "commit"}
      /\ count \in Nat
      /\ todo \in SUBSET Tables
      /\ unwinding \in BOOLEAN
      /\ faults \in 0..MaxFaults
      /\ misread \subseteq Partitions \X Offsets
  BY EmptyTypes DEF Init
<1>5. QED
  BY <1>1, <1>2, <1>3, <1>4 DEF TypeOK

LEMMA TypeStep == TypeOK /\ [Next]_vars => TypeOK'
<1> SUFFICES ASSUME TypeOK, [Next]_vars PROVE TypeOK'
  OBVIOUS
<1> USE DEF log, delta, buffer, cursor, control
<1>1. CASE Boot
  BY <1>1 DEF TypeOK, Boot
<1>2. CASE Assign
  <2>1. CASE OnAssign({}) /\ UNCHANGED faults
    BY <2>1, AssignType DEF TypeOK
  <2>2. ASSUME NEW unread, OnAssign(unread), Fault("assign_read_fails")
        PROVE  TypeOK'
    BY <2>2, AssignType, FaultType
  <2>3. QED
    BY <1>2, <2>1, <2>2 DEF Assign
<1>3. CASE FlushDue
  BY <1>3 DEF TypeOK, FlushDue, Pending, Tables
<1>4. ASSUME NEW p \in Partitions, PollSkipped(p) PROVE TypeOK'
  BY <1>4, DeliverType DEF TypeOK, PollSkipped, Deliver
<1>5. ASSUME NEW p \in Partitions, PollRow(p) PROVE TypeOK'
  <2>1. pos[p] \in Offsets /\ Deliver(p)
    BY <1>5, DeliverType DEF PollRow
  <2>2. batch' \in [Partitions -> [Offsets -> Nat]]
    BY <1>5, <2>1 DEF TypeOK, PollRow
  <2>3. offsets' \in [Partitions -> Offsets \cup {None}]
    BY <1>5, <2>1 DEF TypeOK, PollRow
  <2>4. count' \in Nat /\ pc' \in {"poll", "flush"} /\ todo' \in SUBSET Tables
    BY <1>5 DEF TypeOK, PollRow, Deliver, Pending, Tables
  <2>5. QED
    BY <1>5, <2>1, <2>2, <2>3, <2>4, DeliverType DEF TypeOK, PollRow
<1>6. ASSUME NEW t \in Tables, AppendOk(t) PROVE TypeOK'
  BY <1>6, LandType DEF TypeOK, AppendOk, Written
<1>7. ASSUME NEW t \in Tables, AppendRejected(t) PROVE TypeOK'
  BY <1>7 DEF TypeOK, AppendRejected, Written
<1>8. CASE CommitReturns
  <2>1. committed' \in [Partitions -> 0..MaxOffset]
    BY <1>8, CommitType DEF CommitReturns
  <2>2. faults' \in 0..MaxFaults
    BY <1>8, FaultType DEF CommitReturns, TypeOK
  <2>3. CASE Exit
    BY <1>8, <2>1, <2>2, <2>3, ExitType DEF CommitReturns, TypeOK
  <2>4. CASE ~unwinding
    BY <1>8, <2>1, <2>2, <2>4
       DEF CommitReturns, ClearBatch, TypeOK, NoBatch, Unset
  <2>5. QED
    BY <1>8, <2>3, <2>4 DEF CommitReturns
<1>9. CASE CommitRaises
  <2>1. committed' \in [Partitions -> 0..MaxOffset]
    BY <1>9, CommitType DEF CommitRaises, TypeOK
  <2>2. faults' \in 0..MaxFaults
    BY <1>9, FaultType DEF CommitRaises, TypeOK
  <2>3. QED
    BY <1>9, <2>1, <2>2, RaiseType DEF CommitRaises, TypeOK
<1>10. CASE Crash
  BY <1>10, ExitType, FaultType DEF Crash, TypeOK
<1>11. CASE PollRaises
  BY <1>11, RaiseType, FaultType DEF PollRaises, TypeOK
<1>12. CASE Rebalance
  BY <1>12, AssignType, FaultType DEF Rebalance
<1>13. CASE ResetOffsets
  BY <1>13, FaultType, SinkAssumption DEF ResetOffsets, TypeOK
<1>14. ASSUME NEW t \in Tables, AppendMisread(t) PROVE TypeOK'
  <2>1. misread' \subseteq Partitions \X Offsets
    BY <1>14 DEF TypeOK, AppendMisread, RowsOf
  <2>2. faults' \in 0..MaxFaults
    BY <1>14, FaultType DEF AppendMisread
  <2>3. QED
    BY <1>14, <2>1, <2>2 DEF TypeOK, AppendMisread, Written
<1>15. ASSUME NEW t \in Tables, AppendRaises(t) PROVE TypeOK'
  <2>1. /\ copies' \in [Partitions -> [Offsets -> Nat]]
        /\ marker' \in [Partitions -> Offsets \cup {None}]
    BY <1>15, LandType DEF AppendRaises, TypeOK
  <2>2. faults' \in 0..MaxFaults
    BY <1>15, FaultType DEF AppendRaises
  <2>3. QED
    BY <1>15, <2>1, <2>2, RaiseType DEF AppendRaises, TypeOK
<1>16. ASSUME NEW p \in Partitions, Produce(p) PROVE TypeOK'
  <2>1. logEnd[p] + 1 \in 0..MaxOffset
    BY <1>16, OffsetsFacts, SinkAssumption DEF TypeOK, Produce
  <2>2. logEnd' \in [Partitions -> 0..MaxOffset]
    BY <1>16, <2>1 DEF TypeOK, Produce
  <2>3. QED
    BY <1>16, <2>2 DEF TypeOK, Produce
<1>17. CASE UNCHANGED vars
  BY <1>17 DEF TypeOK, vars
<1>18. QED
  BY <1>1, <1>2, <1>3, <1>4, <1>5, <1>6, <1>7, <1>8, <1>9, <1>10, <1>11,
     <1>12, <1>13, <1>14, <1>15, <1>16, <1>17 DEF Next, Progress, Trouble

\* Whatever goes wrong around it, the sink's bookkeeping stays in range: no
\* position or marker ever points outside of the log.
THEOREM TypeCorrect == Spec => []TypeOK
BY TypeInit, TypeStep, PTL DEF Spec

-----------------------------------------------------------------------------
(* The inductive invariant, in two parts: what is stored outside of the    *)
(* process, and what the process holds.                                    *)

Harmless == RejectsStale /\ Faults \subseteq Tolerated

StoreInv == MarkerSplits /\ InLog /\ CommittedWritten

MemoryInv == BatchHolds /\ AllOrNothing /\ EmptyAtStart

LEMMA InvParts == SinkInv <=> TypeOK /\ StoreInv /\ MemoryInv
BY DEF SinkInv, StoreInv, MemoryInv

\* With markers m, no marker went back or passed the position ...
Advances(m) == \A p \in Partitions : marker[p] <= m[p] /\ m[p] < pos[p]

\* ... and every table has all of its part of the batch, or nothing of it.
Settled(m) ==
    \A t \in Tables :
        \/ \A p \in Partitions, o \in Offsets :
              TableOf[p] = t /\ batch[p][o] = 1 => o > m[p]
        \/ \A p \in Partitions : TableOf[p] = t => offsets[p] <= m[p]

\* The numbers that the invariant compares are integers.
LEMMA Numbers ==
    ASSUME TypeOK
    PROVE  /\ \A p \in Partitions :
                 /\ logEnd[p] \in Nat
                 /\ committed[p] \in Nat
                 /\ pos[p] \in Nat
                 /\ marker[p] \in Int /\ marker[p] >= -1
                 /\ offsets[p] \in Int /\ offsets[p] >= -1
                 /\ stored[p] # None => stored[p] \in Nat
                 /\ offsets[p] # None => offsets[p] \in Offsets
           /\ \A o \in Offsets : o \in Nat
BY SinkAssumption DEF TypeOK, Offsets, None

LEMMA InitInv == Init => StoreInv /\ MemoryInv
<1> SUFFICES ASSUME Init PROVE StoreInv /\ MemoryInv
  OBVIOUS
<1> USE DEF Init, NoBatch, Unset, None
<1>1. MarkerSplits /\ InLog /\ CommittedWritten
  BY DEF MarkerSplits, InLog, CommittedWritten, WrittenBelow, Offsets
<1>2. BatchHolds
  BY DEF BatchHolds, Consuming
<1>3. AllOrNothing
  BY DEF AllOrNothing, Fresh, Done
<1>4. EmptyAtStart
  BY DEF EmptyAtStart
<1>5. QED
  BY <1>1, <1>2, <1>3, <1>4 DEF StoreInv, MemoryInv

\* An empty process is in order.
LEMMA ExitMemory ==
    ASSUME TypeOK', Exit
    PROVE  MemoryInv'
<1> USE DEF Exit, NoBatch, Unset, None
<1>1. BatchHolds'
  BY DEF BatchHolds, Consuming
<1>2. AllOrNothing'
  BY DEF AllOrNothing, Fresh
<1>3. EmptyAtStart'
  BY DEF EmptyAtStart
<1>4. QED
  BY <1>1, <1>2, <1>3 DEF MemoryInv

\* Neither a longer log nor an offset commit over written rows disturbs
\* what is stored, as long as the tables stay as they are.
LEMMA StoreKept ==
    ASSUME TypeOK, TypeOK', StoreInv, UNCHANGED delta, CommittedWritten',
           \A p \in Partitions :
              logEnd[p] <= logEnd'[p] /\ committed'[p] <= logEnd[p]
    PROVE  StoreInv'
<1>1. MarkerSplits'
  BY DEF StoreInv, MarkerSplits, delta
<1>2. InLog'
  <2> SUFFICES ASSUME NEW p \in Partitions
      PROVE  marker'[p] < logEnd'[p] /\ committed'[p] <= logEnd'[p]
    BY DEF InLog
  <2>1. logEnd'[p] \in Nat /\ committed'[p] \in Nat
    BY SinkAssumption DEF TypeOK
  <2>2. QED
    BY <2>1, Numbers DEF StoreInv, InLog, delta
<1>3. QED
  BY <1>1, <1>2 DEF StoreInv

\* Moving on to, or within, a flush with the batch as it is.
LEMMA FlushMemory ==
    ASSUME SinkInv, TypeOK', Consuming, UNCHANGED <<cursor, buffer, log>>,
           pc' \in {"flush", "commit"}, Advances(marker'), Settled(marker'),
           \A t \in Tables : pc' = "commit" \/ t \notin todo' => Done(t)'
    PROVE  MemoryInv'
<1> USE DEF cursor, buffer, log
<1>1. BatchHolds'
  <2> SUFFICES ASSUME NEW p \in Partitions
      PROVE  /\ offsets'[p] # None => batch'[p][offsets'[p]] = 1
             /\ stored'[p] # None => stored'[p] <= pos'[p]
             /\ marker'[p] < pos'[p]
             /\ pos'[p] <= logEnd'[p]
             /\ \A o \in Offsets :
                   /\ batch'[p][o] \in {0, 1}
                   /\ batch'[p][o] = 1 =>
                         /\ IsRow(p, o)
                         /\ o <= offsets'[p]
                         /\ o < pos'[p]
                   /\ IsRow(p, o) /\ o < pos'[p]
                         => o <= marker'[p] \/ batch'[p][o] = 1
    BY DEF BatchHolds, IsRow
  <2>1. marker[p] <= marker'[p] /\ marker'[p] < pos[p]
    BY DEF Advances
  <2>2. marker[p] \in Int /\ marker'[p] \in Int
    BY DEF TypeOK, SinkInv, Offsets, None
  <2>3. QED
    BY <2>1, <2>2 DEF SinkInv, BatchHolds, Offsets
<1>2. AllOrNothing'
  BY DEF Settled, AllOrNothing, Fresh, Done
<1>3. EmptyAtStart'
  BY DEF EmptyAtStart
<1>4. QED
  BY <1>1, <1>2, <1>3 DEF MemoryInv

\* A table without rows in the batch has all of its part of it.
LEMMA NotPendingDone ==
    ASSUME TypeOK', offsets' = offsets, NEW t \in Tables,
           t \notin Pending(offsets)
    PROVE  Done(t)'
<1> SUFFICES ASSUME NEW p \in Partitions, TableOf[p] = t
    PROVE  offsets'[p] <= marker'[p]
  BY DEF Done
<1>1. offsets'[p] = -1
  BY DEF Pending, None
<1>2. marker'[p] \in Int /\ marker'[p] >= -1
  BY SinkAssumption DEF TypeOK, Offsets, None
<1>3. QED
  BY <1>1, <1>2

\* An exception, whatever the failing step did to the tables.
LEMMA RaiseMemory ==
    ASSUME SinkInv, TypeOK', Consuming, Raise, UNCHANGED log,
           Advances(marker'), Settled(marker')
    PROVE  MemoryInv'
<1>1. CASE Exit
  BY <1>1, ExitMemory
<1>2. CASE ~(unwinding \/ count = 0)
  <2>1. /\ pc' = "flush"
        /\ todo' = Pending(offsets)
        /\ UNCHANGED <<cursor, buffer>>
    BY <1>2 DEF Raise
  <2>2. \A t \in Tables : t \notin todo' => Done(t)'
    BY <2>1, NotPendingDone DEF buffer
  <2>3. QED
    BY <2>1, <2>2, FlushMemory
<1>3. QED
  BY <1>1, <1>2 DEF Raise

\* Tables that stay as they are: no marker moves.
LEMMA StillSettled ==
    ASSUME SinkInv, Consuming, marker' = marker
    PROVE  Advances(marker') /\ Settled(marker')
<1>1. Advances(marker')
  BY Numbers DEF Advances, SinkInv, BatchHolds
<1>2. Settled(marker')
  BY DEF Settled, SinkInv, AllOrNothing, Fresh, Done
<1>3. QED
  BY <1>1, <1>2

\* Writing a table whose markers are not stale: its part of the batch was
\* not written before, and now is, completely.
LEMMA LandInv ==
    ASSUME SinkInv, TypeOK', NEW t \in Tables, Consuming, ~Stale(t), Land(t),
           UNCHANGED <<log, committed>>
    PROVE  StoreInv' /\ Advances(marker') /\ Settled(marker')
<1> USE DEF log
<1>1. \A p \in Partitions, o \in Offsets :
         TableOf[p] = t /\ batch[p][o] = 1 =>
            offsets[p] # None /\ offsets[p] > marker[p] /\ o > marker[p]
  <2> SUFFICES ASSUME NEW p \in Partitions, NEW o \in Offsets,
                      TableOf[p] = t, batch[p][o] = 1
      PROVE  offsets[p] # None /\ offsets[p] > marker[p] /\ o > marker[p]
    OBVIOUS
  <2>1. o <= offsets[p] /\ o \in Nat /\ offsets[p] \in Int /\ marker[p] \in Int
    BY Numbers DEF SinkInv, BatchHolds
  <2>2. offsets[p] # None /\ offsets[p] > marker[p]
    BY <2>1 DEF Stale, None
  <2>3. ~Done(t)
    BY <2>1, <2>2 DEF Done
  <2>4. QED
    BY <2>2, <2>3 DEF SinkInv, AllOrNothing, Fresh
<1>2. \A p \in Partitions :
         /\ TableOf[p] # t \/ offsets[p] = None => marker'[p] = marker[p]
         /\ TableOf[p] = t /\ offsets[p] # None =>
               marker'[p] = offsets[p] /\ marker[p] < offsets[p]
  BY Numbers DEF Land, Stale, SinkInv
<1>3. Advances(marker')
  <2> SUFFICES ASSUME NEW p \in Partitions
      PROVE  marker[p] <= marker'[p] /\ marker'[p] < pos[p]
    BY DEF Advances
  <2>1. marker[p] \in Int /\ offsets[p] \in Int /\ marker[p] < pos[p]
    BY Numbers DEF SinkInv, BatchHolds
  <2>2. offsets[p] # None => offsets[p] < pos[p]
    BY Numbers DEF SinkInv, BatchHolds
  <2>3. QED
    BY <1>2, <2>1, <2>2
<1>4. Settled(marker')
  <2> SUFFICES ASSUME NEW s \in Tables
      PROVE  \/ \A p \in Partitions, o \in Offsets :
                   TableOf[p] = s /\ batch[p][o] = 1 => o > marker'[p]
             \/ \A p \in Partitions : TableOf[p] = s => offsets[p] <= marker'[p]
    BY DEF Settled
  <2>1. CASE s = t
    <3>1. \A p \in Partitions : TableOf[p] = s => offsets[p] <= marker'[p]
      BY <1>2, <2>1, Numbers DEF SinkInv, None
    <3>2. QED
      BY <3>1
  <2>2. CASE s # t
    BY <1>2, <2>2 DEF SinkInv, AllOrNothing, Fresh, Done
  <2>3. QED
    BY <2>1, <2>2
<1>5. MarkerSplits'
  <2> SUFFICES ASSUME NEW p \in Partitions, NEW o \in Offsets
      PROVE  copies'[p][o] = IF IsRow(p, o) /\ o <= marker'[p] THEN 1 ELSE 0
    BY DEF MarkerSplits, IsRow
  <2>1. /\ copies[p][o] = IF IsRow(p, o) /\ o <= marker[p] THEN 1 ELSE 0
        /\ batch[p][o] \in {0, 1}
        /\ batch[p][o] = 1 => IsRow(p, o) /\ o <= offsets[p]
        /\ IsRow(p, o) /\ o < pos[p] => o <= marker[p] \/ batch[p][o] = 1
        /\ offsets[p] # None => offsets[p] < pos[p]
    BY Numbers DEF SinkInv, MarkerSplits, BatchHolds
  <2>2. /\ o \in Nat /\ marker[p] \in Int /\ offsets[p] \in Int
        /\ pos[p] \in Nat
    BY Numbers DEF SinkInv
  <2>3. CASE TableOf[p] # t
    BY <1>2, <2>1, <2>3 DEF Land
  <2>4. CASE TableOf[p] = t /\ offsets[p] = None
    <3>1. batch[p][o] = 0
      BY <2>1, <2>2, <2>4 DEF None
    <3>2. copies'[p][o] = copies[p][o] + batch[p][o]
      BY <2>4 DEF Land
    <3>3. QED
      BY <1>2, <2>1, <2>4, <3>1, <3>2
  <2>5. CASE TableOf[p] = t /\ offsets[p] # None
    <3>1. copies'[p][o] = copies[p][o] + batch[p][o]
      BY <2>5 DEF Land
    <3>2. marker'[p] = offsets[p] /\ marker[p] < offsets[p]
      BY <1>2, <2>5
    <3>3. batch[p][o] = 1 => o > marker[p]
      BY <1>1, <2>5
    <3>4. QED
      BY <2>1, <2>2, <2>5, <3>1, <3>2, <3>3
  <2>6. QED
    BY <2>3, <2>4, <2>5
<1>6. InLog'
  <2> SUFFICES ASSUME NEW p \in Partitions
      PROVE  marker'[p] < logEnd'[p] /\ committed'[p] <= logEnd'[p]
    BY DEF InLog
  <2>1. marker'[p] < pos[p] /\ pos[p] <= logEnd[p] /\ committed[p] <= logEnd[p]
    BY <1>3 DEF Advances, SinkInv, BatchHolds, InLog
  <2>2. marker'[p] \in Int
    BY SinkAssumption DEF TypeOK, Offsets, None
  <2>3. QED
    BY <2>1, <2>2, Numbers DEF SinkInv
<1>7. CommittedWritten'
  <2> SUFFICES ASSUME NEW p \in Partitions, NEW o \in Offsets,
                      IsRow(p, o), o < committed[p]
      PROVE  o <= marker'[p]
    BY DEF CommittedWritten, WrittenBelow, IsRow
  <2>1. o <= marker[p] /\ marker[p] <= marker'[p]
    BY <1>3 DEF SinkInv, CommittedWritten, WrittenBelow, Advances
  <2>2. marker'[p] \in Int
    BY SinkAssumption DEF TypeOK, Offsets, None
  <2>3. QED
    BY <2>1, <2>2, Numbers DEF SinkInv
<1>8. QED
  BY <1>3, <1>4, <1>5, <1>6, <1>7 DEF StoreInv

\* The tables have all that a commit would move the group's offsets over.
LEMMA CommitStore ==
    ASSUME SinkInv, TypeOK', pc = "commit", UNCHANGED <<log, delta>>,
           NEW ps \in SUBSET Uncommitted, CommitFor(ps)
    PROVE  StoreInv'
<1>1. \A p \in Partitions :
         committed'[p] = committed[p] \/ (stored[p] # None /\ committed'[p] = stored[p])
  BY DEF CommitFor, Uncommitted
<1>2. \A p \in Partitions : committed'[p] <= logEnd[p]
  <2> SUFFICES ASSUME NEW p \in Partitions PROVE committed'[p] <= logEnd[p]
    OBVIOUS
  <2>1. /\ committed[p] <= logEnd[p]
        /\ stored[p] # None => stored[p] <= pos[p]
        /\ pos[p] <= logEnd[p]
    BY DEF SinkInv, InLog, BatchHolds, Consuming
  <2>2. QED
    BY <1>1, <2>1, Numbers DEF SinkInv
<1>3. CommittedWritten'
  <2> SUFFICES ASSUME NEW p \in Partitions, NEW o \in Offsets,
                      IsRow(p, o), o < committed'[p]
      PROVE  o <= marker[p]
    BY DEF CommittedWritten, WrittenBelow, IsRow, delta
  <2>1. CASE committed'[p] = committed[p]
    BY <2>1 DEF SinkInv, CommittedWritten, WrittenBelow
  <2>2. CASE stored[p] # None /\ committed'[p] = stored[p]
    <3>1. o < pos[p]
      BY <2>2, Numbers DEF SinkInv, BatchHolds
    <3>2. batch[p][o] = 1 => o <= offsets[p] /\ offsets[p] <= marker[p]
      BY OffsetsFacts DEF SinkInv, BatchHolds, AllOrNothing, Done
    <3>3. QED
      BY <3>1, <3>2, Numbers DEF SinkInv, BatchHolds, Consuming
  <2>3. QED
    BY <1>1, <2>1, <2>2
<1>4. \A p \in Partitions : logEnd'[p] = logEnd[p] /\ logEnd[p] \in Nat
  BY Numbers DEF SinkInv, log
<1>5. QED
  BY <1>2, <1>3, <1>4, InvParts, StoreKept

\* Steps that touch neither the tables nor the group's offsets.
LEMMA SameStore ==
    ASSUME SinkInv, TypeOK', UNCHANGED <<log, committed, delta>>
    PROVE  StoreInv'
<1>1. CommittedWritten'
  BY DEF SinkInv, CommittedWritten, WrittenBelow, IsRow, delta
<1>2. \A p \in Partitions :
         logEnd[p] <= logEnd'[p] /\ committed'[p] <= logEnd[p]
  BY Numbers DEF SinkInv, InLog, log
<1>3. QED
  BY <1>1, <1>2, InvParts, StoreKept

\* An assignment that reads the markers, with nothing in memory.
LEMMA AssignMemory ==
    ASSUME SinkInv, TypeOK', pc = "assigning", OnAssign({})
    PROVE  MemoryInv'
<1> USE DEF OnAssign, log, delta, buffer
<1>1. \A p \in Partitions, o \in Offsets : batch[p][o] = 0
  BY Numbers DEF SinkInv, BatchHolds, EmptyAtStart, Unset, None
<1>2. \A p \in Partitions :
         /\ marker[p] < pos'[p]
         /\ pos'[p] <= logEnd[p]
         /\ WrittenBelow(p, pos'[p])
  <2> SUFFICES ASSUME NEW p \in Partitions
      PROVE  /\ marker[p] < pos'[p]
             /\ pos'[p] <= logEnd[p]
             /\ WrittenBelow(p, pos'[p])
    OBVIOUS
  <2>1. CASE marker[p] = None
    <3>1. pos'[p] = committed[p]
      BY <2>1 DEF ResumeAt
    <3>2. QED
      BY <2>1, <3>1, Numbers DEF SinkInv, CommittedWritten, InLog, None
  <2>2. CASE marker[p] # None
    <3>1. pos'[p] = marker[p] + 1
      BY <2>2 DEF ResumeAt
    <3>2. QED
      BY <3>1, Numbers DEF SinkInv, InLog, WrittenBelow
  <2>3. QED
    BY <2>1, <2>2
<1>3. BatchHolds'
  <2>1. \A p \in Partitions : offsets[p] = None
    BY DEF SinkInv, EmptyAtStart, Unset
  <2>2. QED
    BY <1>1, <1>2, <2>1 DEF BatchHolds, Consuming, Unset, WrittenBelow, IsRow
<1>4. AllOrNothing'
  BY <1>1 DEF AllOrNothing, Fresh
<1>5. EmptyAtStart'
  BY DEF EmptyAtStart
<1>6. QED
  BY <1>3, <1>4, <1>5 DEF MemoryInv

\* A record is delivered and joins the batch, or turns out not to be a row.
LEMMA PollMemory ==
    ASSUME SinkInv, TypeOK', NEW p \in Partitions, PollSkipped(p) \/ PollRow(p)
    PROVE  MemoryInv'
<1> USE DEF log, delta, buffer, control
<1>1. /\ pc = "poll" /\ pos[p] < logEnd[p]
      /\ pos' = [pos EXCEPT ![p] = @ + 1]
      /\ stored' = [stored EXCEPT ![p] = pos[p] + 1]
      /\ UNCHANGED <<logEnd, marker>>
      /\ pos[p] \in Offsets
  BY DeliverType DEF PollSkipped, PollRow, Deliver, SinkInv
<1>2. \A q \in Partitions :
         /\ pos'[q] = IF q = p THEN pos[q] + 1 ELSE pos[q]
         /\ stored'[q] = IF q = p THEN pos[q] + 1 ELSE stored[q]
         /\ pos[q] \in Nat /\ logEnd[q] \in Nat /\ marker[q] \in Int
         /\ marker[q] < pos'[q]
         /\ pos'[q] <= logEnd[q]
         /\ stored'[q] # None => stored'[q] <= pos'[q]
  BY <1>1, Numbers DEF SinkInv, BatchHolds, Consuming, TypeOK
<1>3. CASE PollSkipped(p)
  <2>1. BatchHolds'
    <3>1. \A q \in Partitions, o \in Offsets :
             IsRow(q, o) /\ o < pos'[q] => o < pos[q]
      BY <1>2, <1>3, OffsetsFacts DEF PollSkipped
    <3>2. QED
      BY <1>1, <1>2, <1>3, <3>1, OffsetsFacts
         DEF PollSkipped, SinkInv, BatchHolds, Consuming, IsRow
  <2>2. AllOrNothing'
    BY <1>1, <1>3 DEF PollSkipped, SinkInv, AllOrNothing, Fresh, Done
  <2>3. EmptyAtStart'
    BY <1>1, <1>3 DEF PollSkipped, EmptyAtStart
  <2>4. QED
    BY <2>1, <2>2, <2>3 DEF MemoryInv
<1>4. CASE PollRow(p)
  <2>1. \A q \in Partitions, o \in Offsets :
           batch'[q][o] = IF q = p /\ o = pos[p] THEN batch[q][o] + 1
                                                 ELSE batch[q][o]
    BY <1>1, <1>4 DEF PollRow, SinkInv, TypeOK
  <2>2. batch[p][pos[p]] = 0
    BY <1>1, OffsetsFacts DEF SinkInv, BatchHolds
  <2>3. \A q \in Partitions :
           offsets'[q] = IF q = p /\ pos[p] > offsets[p] THEN pos[p]
                                                         ELSE offsets[q]
    BY <1>4 DEF PollRow, SinkInv, TypeOK
  <2>4. \A q \in Partitions :
           offsets[q] # None => offsets[q] \in Offsets /\ offsets[q] < pos[q]
    BY Numbers DEF SinkInv, BatchHolds
  <2>5. offsets'[p] = pos[p]
    BY <2>3, <2>4, Numbers DEF SinkInv, None
  <2>6. BatchHolds'
    <3> SUFFICES ASSUME NEW q \in Partitions
        PROVE  /\ offsets'[q] # None => batch'[q][offsets'[q]] = 1
               /\ stored'[q] # None => stored'[q] <= pos'[q]
               /\ marker'[q] < pos'[q]
               /\ pos'[q] <= logEnd'[q]
               /\ \A o \in Offsets :
                     /\ batch'[q][o] \in {0, 1}
                     /\ batch'[q][o] = 1 =>
                           /\ IsRow(q, o)
                           /\ o <= offsets'[q]
                           /\ o < pos'[q]
                     /\ IsRow(q, o) /\ o < pos'[q]
                           => o <= marker'[q] \/ batch'[q][o] = 1
      BY DEF BatchHolds, IsRow
    <3>1. CASE q # p
      BY <1>1, <1>2, <2>1, <2>3, <2>4, <3>1
         DEF SinkInv, BatchHolds, Consuming
    <3>2. CASE q = p
      <4>1. \A o \in Offsets :
               /\ batch[q][o] = 1 => IsRow(q, o) /\ o < pos[q]
               /\ batch[q][o] \in {0, 1}
               /\ IsRow(q, o) /\ o < pos[q] => o <= marker[q] \/ batch[q][o] = 1
               /\ o \in Nat
        BY <1>1, Numbers DEF SinkInv, BatchHolds, Consuming
      <4>2. IsRow(p, pos[p])
        BY <1>4 DEF PollRow
      <4>3. QED
        BY <1>1, <1>2, <2>1, <2>2, <2>5, <3>2, <4>1, <4>2
    <3>3. QED
      BY <3>1, <3>2
  <2>7. \A t \in Tables : Fresh(t)'
    <3>1. \A q \in Partitions, o \in Offsets :
             batch[q][o] = 1 => o > marker[q]
      BY <1>1, OffsetsFacts DEF SinkInv, AllOrNothing, Fresh
    <3>2. pos[p] > marker[p]
      BY <1>1, Numbers DEF SinkInv, BatchHolds, Consuming
    <3>3. QED
      BY <1>1, <2>1, <3>1, <3>2 DEF Fresh
  <2>8. \A t \in Tables : t \notin Pending(offsets') => Done(t)'
    <3> SUFFICES ASSUME NEW t \in Tables, t \notin Pending(offsets'),
                        NEW q \in Partitions, TableOf[q] = t
        PROVE  offsets'[q] <= marker'[q]
      BY DEF Done
    <3>1. offsets'[q] = -1
      BY DEF Pending, None
    <3>2. QED
      BY <1>1, <3>1, Numbers DEF SinkInv
  <2>9. AllOrNothing'
    BY <1>1, <1>4, <2>7, <2>8 DEF PollRow, AllOrNothing
  <2>10. EmptyAtStart'
    BY <1>1, <1>4 DEF PollRow, EmptyAtStart
  <2>11. QED
    BY <2>6, <2>9, <2>10 DEF MemoryInv
<1>5. QED
  BY <1>3, <1>4

\* A table is done with, whichever way: the loop goes on to the others.
LEMMA WrittenMemory ==
    ASSUME SinkInv, TypeOK', NEW t \in Tables, Flushing(t), Written(t),
           UNCHANGED log, Advances(marker'), Settled(marker'), Done(t)'
    PROVE  MemoryInv'
<1>1. pc' \in {"flush", "commit"} /\ todo' = todo \ {t}
      /\ (pc' = "commit" => todo' = {})
  BY DEF Written
<1>2. \A s \in Tables : s \notin todo => Done(s)'
  <2> SUFFICES ASSUME NEW s \in Tables, s \notin todo,
                      NEW p \in Partitions, TableOf[p] = s
      PROVE  offsets'[p] <= marker'[p]
    BY DEF Done
  <2>1. offsets[p] <= marker[p] /\ marker[p] <= marker'[p]
    BY DEF Flushing, SinkInv, AllOrNothing, Done, Advances
  <2>2. marker'[p] \in Int /\ offsets' = offsets
    BY SinkAssumption DEF TypeOK, Offsets, None, Written, buffer
  <2>3. QED
    BY <2>1, <2>2, Numbers DEF SinkInv
<1>3. QED
  BY <1>1, <1>2, FlushMemory DEF Written, Flushing, Consuming

-----------------------------------------------------------------------------
(* Invariance, one step per action.                                        *)

LEMMA InvStep ==
    ASSUME Harmless, SinkInv, [Next]_vars
    PROVE  SinkInv'
<1>0. TypeOK'
  BY TypeStep DEF SinkInv
<1> SUFFICES StoreInv' /\ MemoryInv'
  BY <1>0 DEF SinkInv, StoreInv, MemoryInv
<1>1. CASE Boot
  <2>1. StoreInv'
    BY <1>0, <1>1, SameStore DEF Boot
  <2>2. BatchHolds' /\ AllOrNothing' /\ EmptyAtStart'
    BY <1>1 DEF Boot, SinkInv, BatchHolds, AllOrNothing, EmptyAtStart, Fresh,
                Done, Consuming, IsRow, log, delta, cursor, buffer
  <2>3. QED
    BY <2>1, <2>2 DEF MemoryInv
<1>2. CASE Assign
  <2>1. pc = "assigning" /\ OnAssign({})
    BY <1>2 DEF Assign, Fault, Harmless, Tolerated
  <2>2. QED
    BY <1>0, <2>1, SameStore, AssignMemory DEF OnAssign
<1>3. CASE FlushDue
  <2>1. \A t \in Tables : t \notin todo' => Done(t)'
    BY <1>0, <1>3, NotPendingDone DEF FlushDue, buffer
  <2>2. Advances(marker') /\ Settled(marker')
    BY <1>3, StillSettled DEF FlushDue, Consuming, delta
  <2>3. QED
    BY <1>0, <1>3, <2>1, <2>2, SameStore, FlushMemory DEF FlushDue, Consuming
<1>4. ASSUME NEW p \in Partitions, PollSkipped(p) \/ PollRow(p)
      PROVE  StoreInv' /\ MemoryInv'
  BY <1>0, <1>4, SameStore, PollMemory DEF PollSkipped, PollRow
<1>5. ASSUME NEW t \in Tables, AppendOk(t)
      PROVE  StoreInv' /\ MemoryInv'
  <2>1. Consuming /\ ~Stale(t)
    BY <1>5 DEF AppendOk, Flushing, Refused, Harmless, Consuming
  <2>2. StoreInv' /\ Advances(marker') /\ Settled(marker')
    BY <1>0, <1>5, <2>1, LandInv DEF AppendOk
  <2>3. Done(t)'
    <3> SUFFICES ASSUME NEW p \in Partitions, TableOf[p] = t
        PROVE  offsets'[p] <= marker'[p]
      BY DEF Done
    <3>1. offsets' = offsets /\ (offsets[p] # None => marker'[p] = offsets[p])
      BY <1>5 DEF AppendOk, Land, Written, buffer
    <3>2. marker'[p] \in Int /\ marker'[p] >= -1
      BY <1>0, SinkAssumption DEF TypeOK, Offsets, None
    <3>3. QED
      BY <3>1, <3>2 DEF None
  <2>4. QED
    BY <1>0, <1>5, <2>2, <2>3, WrittenMemory DEF AppendOk
<1>6. ASSUME NEW t \in Tables, AppendRejected(t)
      PROVE  StoreInv' /\ MemoryInv'
  <2>1. Advances(marker') /\ Settled(marker')
    BY <1>6, StillSettled DEF AppendRejected, Flushing, Consuming, delta
  <2>2. PICK p \in Partitions :
           TableOf[p] = t /\ offsets[p] # None /\ offsets[p] <= marker[p]
    BY <1>6 DEF AppendRejected, Refused, Stale
  <2>3. batch[p][offsets[p]] = 1 /\ offsets[p] \in Offsets
    BY <2>2, Numbers DEF SinkInv, BatchHolds
  <2>4. ~Fresh(t)
    BY <2>2, <2>3, Numbers DEF Fresh, SinkInv
  <2>5. Done(t)'
    BY <1>6, <2>4 DEF SinkInv, AllOrNothing, AppendRejected, Written, Done,
                      delta, buffer
  <2>6. QED
    BY <1>0, <1>6, <2>1, <2>5, SameStore, WrittenMemory DEF AppendRejected
<1>7. CASE CommitReturns
  <2>1. PICK ps \in SUBSET Uncommitted : CommitFor(ps)
    BY <1>7 DEF CommitReturns
  <2>2. StoreInv'
    BY <1>0, <1>7, <2>1, CommitStore DEF CommitReturns
  <2>3. CASE Exit
    BY <1>0, <2>2, <2>3, ExitMemory
  <2>4. CASE ~unwinding
    <3>1. /\ ClearBatch /\ pc' = "poll" /\ pc = "commit"
          /\ UNCHANGED <<cursor, log, delta>>
      BY <1>7, <2>4 DEF CommitReturns
    <3>2. BatchHolds'
      <4>1. \A p \in Partitions, o \in Offsets :
               IsRow(p, o) /\ o < pos[p] => o <= marker[p]
        <5> SUFFICES ASSUME NEW p \in Partitions, NEW o \in Offsets,
                            IsRow(p, o), o < pos[p]
            PROVE  o <= marker[p]
          OBVIOUS
        <5>1. batch[p][o] = 1 => o <= offsets[p] /\ offsets[p] <= marker[p]
          BY <3>1, OffsetsFacts DEF SinkInv, BatchHolds, AllOrNothing, Done
        <5>2. QED
          BY <3>1, <5>1, Numbers DEF SinkInv, BatchHolds, Consuming
      <4>2. QED
        BY <3>1, <4>1 DEF SinkInv, BatchHolds, Consuming, ClearBatch, NoBatch,
                          Unset, IsRow, cursor, log, delta
    <3>3. AllOrNothing' /\ EmptyAtStart'
      BY <3>1 DEF AllOrNothing, Fresh, ClearBatch, NoBatch, EmptyAtStart
    <3>4. QED
      BY <2>2, <3>2, <3>3 DEF MemoryInv
  <2>5. QED
    BY <1>7, <2>3, <2>4 DEF CommitReturns
<1>8. CASE CommitRaises
  <2>1. StoreInv'
    <3>1. CASE UNCHANGED committed
      BY <1>0, <1>8, <3>1, SameStore DEF CommitRaises
    <3>2. CASE \E kept \in {{}, Uncommitted} : CommitFor(kept)
      <4>1. PICK ps \in SUBSET Uncommitted : CommitFor(ps)
        BY <3>2
      <4>2. QED
        BY <1>0, <1>8, <4>1, CommitStore DEF CommitRaises
    <3>3. QED
      BY <1>8, <3>1, <3>2 DEF CommitRaises
  <2>2. Advances(marker') /\ Settled(marker')
    BY <1>8, StillSettled DEF CommitRaises, Consuming, delta
  <2>3. QED
    BY <1>0, <1>8, <2>1, <2>2, RaiseMemory DEF CommitRaises, Consuming
<1>9. CASE Crash
  BY <1>0, <1>9, SameStore, ExitMemory DEF Crash
<1>10. CASE PollRaises
  <2>1. Advances(marker') /\ Settled(marker')
    BY <1>10, StillSettled DEF PollRaises, Consuming, delta
  <2>2. QED
    BY <1>0, <1>10, <2>1, SameStore, RaiseMemory DEF PollRaises, Consuming
<1>11. CASE ResetOffsets
  <2>1. StoreInv'
    <3>1. CommittedWritten'
      BY <1>11, OffsetsFacts DEF ResetOffsets, CommittedWritten, WrittenBelow
    <3>2. \A p \in Partitions :
             logEnd[p] <= logEnd'[p] /\ committed'[p] <= logEnd[p]
      BY <1>11, Numbers DEF ResetOffsets, SinkInv, log
    <3>3. QED
      BY <1>0, <1>11, <3>1, <3>2, InvParts, StoreKept DEF ResetOffsets
  <2>2. BatchHolds' /\ AllOrNothing' /\ EmptyAtStart'
    BY <1>11 DEF ResetOffsets, SinkInv, BatchHolds, AllOrNothing, Fresh, Done,
                 EmptyAtStart, Consuming, IsRow, log, delta, control, cursor, buffer
  <2>3. QED
    BY <2>1, <2>2 DEF MemoryInv
<1>12. ASSUME NEW t \in Tables, AppendRaises(t)
       PROVE  StoreInv' /\ MemoryInv'
  <2>1. CASE UNCHANGED delta
    <3>1. Advances(marker') /\ Settled(marker')
      BY <1>12, <2>1, StillSettled DEF AppendRaises, Flushing, Consuming, delta
    <3>2. QED
      BY <1>0, <1>12, <2>1, <3>1, SameStore, RaiseMemory
         DEF AppendRaises, Flushing, Consuming
  <2>2. CASE ~Refused(t) /\ Land(t)
    <3>1. Consuming /\ ~Stale(t)
      BY <1>12, <2>2 DEF AppendRaises, Flushing, Refused, Harmless, Consuming
    <3>2. StoreInv' /\ Advances(marker') /\ Settled(marker')
      BY <1>0, <1>12, <2>2, <3>1, LandInv DEF AppendRaises
    <3>3. QED
      BY <1>0, <1>12, <3>1, <3>2, RaiseMemory DEF AppendRaises
  <2>3. QED
    BY <1>12, <2>1, <2>2 DEF AppendRaises
<1>13. ASSUME NEW p \in Partitions, Produce(p)
       PROVE  StoreInv' /\ MemoryInv'
  <2>1. \A q \in Partitions : logEnd[q] <= logEnd'[q] /\ logEnd'[q] \in Nat
    BY <1>0, <1>13, Numbers, SinkAssumption DEF Produce, SinkInv, TypeOK
  <2>2. StoreInv'
    <3>1. CommittedWritten'
      BY <1>13 DEF Produce, SinkInv, CommittedWritten, WrittenBelow, IsRow, delta
    <3>2. \A q \in Partitions : committed'[q] <= logEnd[q]
      BY <1>13 DEF Produce, SinkInv, InLog
    <3>3. QED
      BY <1>0, <1>13, <2>1, <3>1, <3>2, InvParts, StoreKept DEF Produce
  <2>3. BatchHolds'
    <3>1. Consuming => \A q \in Partitions : pos[q] <= logEnd'[q]
      BY <2>1, Numbers DEF SinkInv, BatchHolds
    <3>2. QED
      BY <1>13, <3>1 DEF Produce, SinkInv, BatchHolds, Consuming, IsRow,
                         delta, control, cursor, buffer
  <2>4. AllOrNothing' /\ EmptyAtStart'
    BY <1>13 DEF Produce, SinkInv, AllOrNothing, Fresh, Done, EmptyAtStart,
                 delta, control, buffer
  <2>5. QED
    BY <2>2, <2>3, <2>4 DEF MemoryInv
<1>14. CASE UNCHANGED vars
  BY <1>14 DEF vars, SinkInv, StoreInv, MemoryInv, MarkerSplits, InLog,
               CommittedWritten, WrittenBelow, BatchHolds, AllOrNothing, Fresh,
               Done, EmptyAtStart, Consuming, IsRow
<1>15. /\ ~Rebalance
       /\ \A t \in Tables : ~AppendMisread(t)
  BY DEF Rebalance, AppendMisread, Fault, Harmless, Tolerated
<1>16. QED
  BY <1>1, <1>2, <1>3, <1>4, <1>5, <1>6, <1>7, <1>8, <1>9, <1>10, <1>11,
     <1>12, <1>13, <1>14, <1>15 DEF Next, Progress, Trouble

LEMMA InvAlways ==
    ASSUME Harmless
    PROVE  Spec => []SinkInv
<1>1. Init => SinkInv
  BY TypeInit, InitInv, InvParts
<1>2. SinkInv /\ [Next]_vars => SinkInv'
  BY InvStep
<1>3. QED
  BY <1>1, <1>2, PTL DEF Spec

-----------------------------------------------------------------------------
(* What the invariant gives.                                               *)

\* The invariant those two rest on, which the runs check as well.
THEOREM SinkInvHolds ==
    ASSUME Harmless
    PROVE  Spec => []SinkInv
BY InvAlways

\* No row is in a table twice, through any number of crashes, failed or
\* unacknowledged writes, lost offset commits and offset resets.
THEOREM ExactlyOnceHolds ==
    ASSUME Harmless
    PROVE  Spec => []ExactlyOnce
<1>1. SinkInv => ExactlyOnce
  BY DEF SinkInv, MarkerSplits, ExactlyOnce
<1>2. QED
  BY <1>1, InvAlways, PTL

\* Neither the group's offsets nor a marker passes a row that is not in its
\* table, under the same faults.
THEOREM NothingLostHolds ==
    ASSUME Harmless
    PROVE  Spec => [](CommittedIsWritten /\ NothingLost)
<1>1. SinkInv => CommittedIsWritten
  BY DEF SinkInv, MarkerSplits, CommittedWritten, WrittenBelow, CommittedIsWritten
<1>2. CommittedIsWritten => NothingLost
  BY DEF CommittedIsWritten, NothingLost
<1>3. QED
  BY <1>1, <1>2, InvAlways, PTL

-----------------------------------------------------------------------------
(* Nothing is lost, whatever fails.  SinkInv is gone with the first        *)
(* rebalance; what is left of it is that the sink passes no row that is    *)
(* neither written nor in the batch.                                       *)

Held(p, o) == copies[p][o] >= 1 \/ <<p, o>> \in misread

\* Each table has one partition, as with the stack's single-partition topics,
\* or Delta takes every commit.  With two, the markers of one make Delta
\* refuse the rows of the other with them.
NoneRefusedWithOthers ==
    RejectsStale => \A p, q \in Partitions : TableOf[p] = TableOf[q] => p = q

NonePassed ==
    \A p \in Partitions, o \in Offsets :
        IsRow(p, o) /\ (o < pos[p] \/ o < stored[p] \/ o <= offsets[p])
            => Held(p, o) \/ batch[p][o] >= 1

BatchBounded ==
    \A p \in Partitions, o \in Offsets :
        batch[p][o] >= 1 => IsRow(p, o) /\ o <= offsets[p]

Flushed ==
    \A p \in Partitions, o \in Offsets :
        /\ batch[p][o] >= 1
        /\ pc = "commit" \/ (pc = "flush" /\ TableOf[p] \notin todo)
        => Held(p, o)

PassedInv == NonePassed /\ BatchBounded /\ Flushed

LossInv == TypeOK /\ NothingLost /\ PassedInv

LEMMA InitLoss == Init => LossInv
<1> SUFFICES ASSUME Init PROVE LossInv
  OBVIOUS
<1>1. TypeOK
  BY TypeInit
<1>2. NothingLost /\ PassedInv
  BY Numbers, <1>1
     DEF Init, NothingLost, PassedInv, NonePassed, BatchBounded, Flushed, NoBatch,
         Unset, None
<1> QED
  BY <1>1, <1>2 DEF LossInv

\* A row that is held stays so.
StillHeld == \A p \in Partitions, o \in Offsets : Held(p, o) => Held(p, o)'

LEMMA SameHeld ==
    ASSUME UNCHANGED delta, misread \subseteq misread'
    PROVE  StillHeld
BY DEF StillHeld, Held, delta

\* A Delta commit adds the rows of the batch, and its markers pass no others.
LEMMA LandHeld ==
    ASSUME LossInv, TypeOK', NEW t \in Tables, Land(t), UNCHANGED <<log, committed>>
    PROVE  /\ StillHeld /\ NothingLost'
           /\ \A p \in Partitions, o \in Offsets :
                 TableOf[p] = t /\ batch[p][o] >= 1 => Held(p, o)'
<1>1. \A p \in Partitions, o \in Offsets :
         /\ copies[p][o] \in Nat /\ batch[p][o] \in Nat
         /\ copies'[p][o] = IF TableOf[p] = t THEN copies[p][o] + batch[p][o]
                                              ELSE copies[p][o]
  BY DEF LossInv, TypeOK, Land
<1>2. StillHeld
  BY <1>1 DEF StillHeld, Held, log
<1>3. \A p \in Partitions, o \in Offsets :
         TableOf[p] = t /\ batch[p][o] >= 1 => Held(p, o)'
  BY <1>1 DEF Held
<1>4. NothingLost'
  <2> SUFFICES ASSUME NEW p \in Partitions, NEW o \in Offsets, IsRow(p, o),
                      o < committed[p] \/ o <= marker'[p]
               PROVE  Held(p, o)'
    BY DEF NothingLost, Held, IsRow
  <2>1. CASE o < committed[p] \/ o <= marker[p]
    BY <1>2, <2>1 DEF LossInv, NothingLost, Held, StillHeld
  <2>2. CASE TableOf[p] = t /\ o <= offsets[p]
    BY <1>2, <1>3, <2>2 DEF LossInv, PassedInv, NonePassed, StillHeld
  <2> QED
    BY <2>1, <2>2 DEF Land
<1> QED
  BY <1>2, <1>3, <1>4

\* Without a Delta commit, only an offset commit can disturb NothingLost.
LEMMA SameStored ==
    ASSUME NothingLost, UNCHANGED <<delta, committed>>, misread \subseteq misread'
    PROVE  NothingLost'
BY DEF NothingLost, IsRow, delta

LEMMA ExitLoss ==
    ASSUME TypeOK', NothingLost', Exit
    PROVE  LossInv'
<1>1. NonePassed' /\ BatchBounded' /\ Flushed'
  BY Numbers DEF Exit, NonePassed, BatchBounded, Flushed, NoBatch, Unset, None,
     Offsets
<1> QED
  BY <1>1 DEF LossInv, PassedInv

\* The batch and the position stay.
LEMMA SameBatch ==
    ASSUME LossInv, UNCHANGED <<cursor, buffer>>, StillHeld
    PROVE  NonePassed' /\ BatchBounded'
BY DEF LossInv, PassedInv, NonePassed, BatchBounded, StillHeld, cursor, buffer, IsRow

\* A flush begins with every table that has a row in the batch.
LEMMA FlushBegins ==
    ASSUME TypeOK', BatchBounded', pc' = "flush", todo' = Pending(offsets')
    PROVE  Flushed'
<1> SUFFICES ASSUME NEW p \in Partitions, NEW o \in Offsets, batch'[p][o] >= 1
             PROVE  TableOf[p] \in Pending(offsets')
  BY DEF Flushed
<1>1. o <= offsets'[p]
  BY DEF BatchBounded
<1>2. o \in Nat
  BY SinkAssumption DEF Offsets
<1>3. offsets'[p] # None
  BY <1>1, <1>2 DEF None
<1> QED
  BY <1>3 DEF Pending

LEMMA RaiseLoss ==
    ASSUME LossInv, TypeOK', NothingLost', StillHeld, Raise
    PROVE  LossInv'
<1>1. CASE Exit
  BY <1>1, ExitLoss
<1>2. CASE /\ pc' = "flush" /\ todo' = Pending(offsets) /\ UNCHANGED <<cursor, buffer>>
  <2>1. NonePassed' /\ BatchBounded'
    BY <1>2, SameBatch
  <2>2. Flushed'
    BY <1>2, <2>1, FlushBegins DEF buffer
  <2> QED
    BY <2>1, <2>2 DEF LossInv, PassedInv
<1> QED
  BY <1>1, <1>2 DEF Raise

\* Wherever an assignment takes the sink, it has the rows before.
LEMMA AssignLoss ==
    ASSUME LossInv, TypeOK', NEW unread, OnAssign(unread)
    PROVE  LossInv'
<1>1. StillHeld /\ NothingLost'
  BY SameHeld, SameStored DEF OnAssign, log, LossInv
<1>2. NonePassed'
  <2> SUFFICES ASSUME NEW p \in Partitions, NEW o \in Offsets, IsRow(p, o),
                      o < pos'[p] \/ o < stored'[p] \/ o <= offsets[p]
               PROVE  Held(p, o) \/ batch[p][o] >= 1
    BY <1>1 DEF NonePassed, OnAssign, buffer, IsRow, Held, delta, log
  <2>1. o \in Nat /\ marker[p] \in Int
    BY Numbers DEF LossInv
  <2>2. CASE o <= offsets[p]
    BY <2>2 DEF LossInv, PassedInv, NonePassed
  <2>3. CASE o < pos'[p]
    <3>1. o < committed[p] \/ o <= marker[p]
      BY <2>1, <2>3 DEF OnAssign, ResumeAt
    <3> QED
      BY <3>1 DEF LossInv, NothingLost, Held
  <2>4. ~ (o < stored'[p])
    BY <2>1 DEF OnAssign, Unset, None
  <2> QED
    BY <2>2, <2>3, <2>4
<1>3. BatchBounded' /\ Flushed'
  BY DEF LossInv, PassedInv, BatchBounded, Flushed, OnAssign, buffer
<1> QED
  BY <1>1, <1>2, <1>3 DEF LossInv, PassedInv

LEMMA PollLoss ==
    ASSUME LossInv, TypeOK', NEW p \in Partitions, PollSkipped(p) \/ PollRow(p)
    PROVE  LossInv'
<1>1. StillHeld /\ NothingLost'
  BY SameHeld, SameStored DEF PollSkipped, PollRow, log, LossInv
<1>2. pos[p] \in Offsets /\ Deliver(p) /\ pc = "poll" /\ TypeOK
  BY DeliverType DEF PollSkipped, PollRow, LossInv, Deliver
<1>3. /\ pos' = [pos EXCEPT ![p] = pos[p] + 1]
      /\ stored' = [stored EXCEPT ![p] = pos[p] + 1]
  BY <1>2 DEF Deliver
<1>4. \A o \in Offsets : o \in Nat
  BY SinkAssumption DEF Offsets
<1>5. CASE PollSkipped(p)
  <2>1. NonePassed'
    <3> SUFFICES ASSUME NEW q \in Partitions, NEW o \in Offsets, IsRow(q, o),
                        o < pos'[q] \/ o < stored'[q] \/ o <= offsets[q]
                 PROVE  Held(q, o) \/ batch[q][o] >= 1
      BY <1>1, <1>5 DEF NonePassed, PollSkipped, buffer, IsRow, StillHeld
    <3>1. o < pos[q] \/ o < stored[q] \/ o <= offsets[q]
      <4>1. CASE q = p /\ o = pos[p]
        BY <1>5, <4>1 DEF PollSkipped
      <4>2. CASE q = p /\ o # pos[p]
        <5>1. pos[p] \in Nat /\ o \in Nat
          BY <1>2, <1>4
        <5>2. pos'[p] = pos[p] + 1 /\ stored'[p] = pos[p] + 1
          BY <1>2, <1>3 DEF TypeOK
        <5> QED
          BY <4>2, <5>1, <5>2
      <4>3. CASE q # p
        BY <1>2, <1>3, <4>3 DEF TypeOK
      <4> QED
        BY <4>1, <4>2, <4>3
    <3> QED
      BY <3>1 DEF LossInv, PassedInv, NonePassed
  <2>2. BatchBounded' /\ Flushed'
    BY <1>2, <1>5 DEF LossInv, PassedInv, BatchBounded, Flushed, PollSkipped, buffer,
       control
  <2> QED
    BY <1>1, <2>1, <2>2 DEF LossInv, PassedInv
<1>6. CASE PollRow(p)
  <2>1. /\ batch' = [batch EXCEPT ![p][pos[p]] = batch[p][pos[p]] + 1]
        /\ offsets' = [offsets EXCEPT ![p] = IF pos[p] > offsets[p] THEN pos[p]
                                                                  ELSE offsets[p]]
    BY <1>6 DEF PollRow
  <2>2. \A q \in Partitions, o \in Offsets :
           /\ batch[q][o] \in Nat
           /\ batch'[q][o] = IF q = p /\ o = pos[p] THEN batch[q][o] + 1
                                                     ELSE batch[q][o]
    BY <1>2, <2>1 DEF TypeOK
  <2>3. /\ \A q \in Partitions : q # p => offsets'[q] = offsets[q] /\ pos'[q] = pos[q]
                                          /\ stored'[q] = stored[q]
        /\ offsets'[p] = IF pos[p] > offsets[p] THEN pos[p] ELSE offsets[p]
        /\ pos'[p] = pos[p] + 1 /\ stored'[p] = pos[p] + 1
    BY <1>2, <1>3, <2>1 DEF TypeOK
  <2>4. pos[p] \in Nat /\ offsets[p] \in Int
    BY <1>2, Numbers
  <2>5. NonePassed'
    <3> SUFFICES ASSUME NEW q \in Partitions, NEW o \in Offsets, IsRow(q, o),
                        o < pos'[q] \/ o < stored'[q] \/ o <= offsets'[q]
                 PROVE  Held(q, o) \/ batch'[q][o] >= 1
      BY <1>1 DEF NonePassed, IsRow, StillHeld
    <3>1. CASE q = p /\ o = pos[p]
      BY <2>2, <3>1
    <3>2. CASE ~ (q = p /\ o = pos[p])
      <4>1. o < pos[q] \/ o < stored[q] \/ o <= offsets[q]
        BY <1>4, <2>3, <2>4, <3>2
      <4> QED
        BY <2>2, <3>2, <4>1 DEF LossInv, PassedInv, NonePassed
    <3> QED
      BY <3>1, <3>2
  <2>6. BatchBounded'
    <3> SUFFICES ASSUME NEW q \in Partitions, NEW o \in Offsets, batch'[q][o] >= 1
                 PROVE  IsRow(q, o) /\ o <= offsets'[q]
      BY DEF BatchBounded, IsRow
    <3>1. q # p \/ o # pos[p] => IsRow(q, o) /\ o <= offsets[q]
      BY <2>2 DEF LossInv, PassedInv, BatchBounded
    <3>2. IsRow(p, pos[p])
      BY <1>6 DEF PollRow
    <3> QED
      BY <1>4, <2>3, <2>4, <3>1, <3>2
  <2>7. Flushed'
    <3>1. CASE pc' = "flush" /\ todo' = Pending(offsets')
      BY <2>6, <3>1, FlushBegins
    <3>2. CASE pc' = "poll"
      BY <3>2 DEF Flushed
    <3> QED
      BY <1>2, <1>6, <3>1, <3>2 DEF PollRow
  <2> QED
    BY <1>1, <2>5, <2>6, <2>7 DEF LossInv, PassedInv
<1> QED
  BY <1>5, <1>6

\* A table is written: its part of the batch is held now.
LEMMA WrittenLoss ==
    ASSUME LossInv, TypeOK', NothingLost', StillHeld,
           NEW t \in Tables, Flushing(t), Written(t),
           \A p \in Partitions, o \in Offsets :
              TableOf[p] = t /\ batch[p][o] >= 1 => Held(p, o)'
    PROVE  LossInv'
<1>1. NonePassed' /\ BatchBounded'
  BY SameBatch DEF Written
<1>2. Flushed'
  <2> SUFFICES ASSUME NEW p \in Partitions, NEW o \in Offsets, batch[p][o] >= 1,
                      TableOf[p] \notin todo \/ TableOf[p] = t
               PROVE  Held(p, o)'
    BY DEF Flushed, Written, buffer
  <2>1. CASE TableOf[p] = t
    BY <2>1
  <2>2. CASE TableOf[p] \notin todo
    BY <2>2 DEF LossInv, PassedInv, Flushed, Flushing, StillHeld
  <2> QED
    BY <2>1, <2>2
<1> QED
  BY <1>1, <1>2 DEF LossInv, PassedInv

\* What Delta refuses the table has.
LEMMA RejectedLoss ==
    ASSUME NoneRefusedWithOthers, LossInv, TypeOK', NEW t \in Tables, AppendRejected(t)
    PROVE  LossInv'
<1>1. StillHeld /\ NothingLost'
  BY SameHeld, SameStored DEF AppendRejected, log, LossInv
<1>2. PICK p \in Partitions : TableOf[p] = t /\ offsets[p] # None /\ offsets[p] <= marker[p]
  BY DEF AppendRejected, Refused, Stale
<1>3. ASSUME NEW q \in Partitions, NEW o \in Offsets, TableOf[q] = t, batch[q][o] >= 1
      PROVE  Held(q, o)'
  <2>1. q = p
    BY <1>2, <1>3 DEF NoneRefusedWithOthers, AppendRejected, Refused
  <2>2. o <= offsets[p] /\ offsets[p] \in Int /\ marker[p] \in Int /\ o \in Nat
    BY <1>3, <2>1, Numbers DEF LossInv, PassedInv, BatchBounded
  <2>3. o <= marker[p]
    BY <1>2, <2>2
  <2>4. IsRow(p, o)
    BY <1>3, <2>1 DEF LossInv, PassedInv, BatchBounded
  <2>5. Held(p, o)
    BY <2>3, <2>4 DEF LossInv, NothingLost, Held
  <2> QED
    BY <1>1, <2>1, <2>5 DEF StillHeld
<1> QED
  BY <1>1, <1>3, WrittenLoss DEF AppendRejected

\* The offset commit moves the group over rows that are all held by now.
LEMMA CommitLoss ==
    ASSUME LossInv, pc = "commit", UNCHANGED <<log, delta>>,
           NEW ps \in SUBSET Uncommitted, CommitFor(ps)
    PROVE  StillHeld /\ NothingLost'
<1>1. StillHeld
  BY SameHeld DEF log
<1>2. NothingLost'
  <2> SUFFICES ASSUME NEW p \in Partitions, NEW o \in Offsets, IsRow(p, o),
                      o < committed'[p] \/ o <= marker[p]
               PROVE  Held(p, o)
    BY DEF NothingLost, Held, IsRow, delta, log
  <2>1. CASE o < committed[p] \/ o <= marker[p]
    BY <2>1 DEF LossInv, NothingLost, Held
  <2>2. CASE o < stored[p]
    BY <2>2 DEF LossInv, PassedInv, NonePassed, Flushed
  <2> QED
    BY <2>1, <2>2 DEF CommitFor
<1> QED
  BY <1>1, <1>2

LEMMA CommitReturnsLoss ==
    ASSUME LossInv, TypeOK', CommitReturns
    PROVE  LossInv'
<1>1. StillHeld /\ NothingLost'
  BY CommitLoss DEF CommitReturns
<1>2. CASE Exit
  BY <1>1, <1>2, ExitLoss
<1>3. CASE ClearBatch /\ pc' = "poll" /\ UNCHANGED cursor
  <2>1. \A p \in Partitions, o \in Offsets : ~ (batch'[p][o] >= 1)
    BY <1>3 DEF ClearBatch, NoBatch
  <2>2. NonePassed'
    <3> SUFFICES ASSUME NEW p \in Partitions, NEW o \in Offsets, IsRow(p, o),
                        o < pos[p] \/ o < stored[p] \/ o <= offsets'[p]
                 PROVE  Held(p, o)'
      BY <1>3 DEF NonePassed, IsRow, cursor
    <3>1. ~ (o <= offsets'[p])
      BY <1>3, SinkAssumption DEF ClearBatch, Unset, None, Offsets
    <3>2. Held(p, o)
      BY <3>1 DEF LossInv, PassedInv, NonePassed, Flushed, CommitReturns
    <3> QED
      BY <1>1, <3>2 DEF StillHeld
  <2> QED
    BY <1>1, <2>1, <2>2 DEF LossInv, PassedInv, BatchBounded, Flushed
<1> QED
  BY <1>2, <1>3 DEF CommitReturns

LEMMA StepLoss ==
    ASSUME NoneRefusedWithOthers, LossInv, [Next]_vars
    PROVE  LossInv'
<1>0. TypeOK'
  BY TypeStep DEF LossInv
<1>1. CASE Boot
  BY <1>0, <1>1 DEF Boot, LossInv, PassedInv, NothingLost, NonePassed, BatchBounded,
     Flushed, Held, log, delta, cursor, buffer, IsRow
<1>2. CASE Assign
  BY <1>0, <1>2, AssignLoss DEF Assign
<1>3. CASE FlushDue
  <2>1. StillHeld /\ NothingLost'
    BY <1>3, SameHeld, SameStored DEF FlushDue, log, LossInv
  <2>2. NonePassed' /\ BatchBounded'
    BY <1>3, <2>1, SameBatch DEF FlushDue
  <2>3. Flushed'
    BY <1>0, <1>3, <2>2, FlushBegins DEF FlushDue, buffer
  <2> QED
    BY <1>0, <2>1, <2>2, <2>3 DEF LossInv, PassedInv
<1>4. CASE \E p \in Partitions : PollSkipped(p) \/ PollRow(p)
  BY <1>0, <1>4, PollLoss
<1>5. ASSUME NEW t \in Tables, AppendOk(t)
      PROVE  LossInv'
  BY <1>0, <1>5, LandHeld, WrittenLoss DEF AppendOk
<1>6. ASSUME NEW t \in Tables, AppendRejected(t)
      PROVE  LossInv'
  BY <1>0, <1>6, RejectedLoss
<1>7. CASE CommitReturns
  BY <1>0, <1>7, CommitReturnsLoss
<1>8. CASE CommitRaises
  <2>1. StillHeld /\ NothingLost'
    <3>1. CASE UNCHANGED committed
      BY <1>8, <3>1, SameHeld, SameStored DEF CommitRaises, log, LossInv
    <3>2. CASE \E kept \in {{}, Uncommitted} : CommitFor(kept)
      BY <1>8, <3>2, CommitLoss DEF CommitRaises
    <3> QED
      BY <1>8, <3>1, <3>2 DEF CommitRaises
  <2> QED
    BY <1>0, <1>8, <2>1, RaiseLoss DEF CommitRaises
<1>9. CASE Crash
  BY <1>0, <1>9, SameStored, ExitLoss DEF Crash, log, LossInv
<1>10. CASE PollRaises
  BY <1>0, <1>10, SameHeld, SameStored, RaiseLoss DEF PollRaises, log, LossInv
<1>11. CASE Rebalance
  BY <1>0, <1>11, AssignLoss DEF Rebalance
<1>12. CASE ResetOffsets
  <2>1. StillHeld
    BY <1>12, SameHeld DEF ResetOffsets, log
  <2>2. NothingLost'
    <3>1. \A p \in Partitions, o \in Offsets : ~ (o < committed'[p])
      BY <1>12, SinkAssumption DEF ResetOffsets, Offsets
    <3> QED
      BY <1>12, <3>1 DEF ResetOffsets, NothingLost, IsRow, delta, log, LossInv
  <2>3. NonePassed' /\ BatchBounded'
    BY <1>12, <2>1, SameBatch DEF ResetOffsets
  <2>4. Flushed'
    BY <1>12 DEF ResetOffsets, Flushed, control
  <2> QED
    BY <1>0, <2>2, <2>3, <2>4 DEF LossInv, PassedInv
<1>13. ASSUME NEW t \in Tables, AppendMisread(t)
      PROVE  LossInv'
  <2>1. StillHeld /\ NothingLost'
    BY <1>13, SameHeld, SameStored DEF AppendMisread, LossInv
  <2>2. \A p \in Partitions, o \in Offsets :
           TableOf[p] = t /\ batch[p][o] >= 1 => Held(p, o)'
    <3> SUFFICES ASSUME NEW p \in Partitions, NEW o \in Offsets,
                        TableOf[p] = t, batch[p][o] >= 1
                 PROVE  <<p, o>> \in RowsOf(t)
      BY <1>13 DEF AppendMisread, Held
    <3>1. batch[p][o] \in Nat
      BY DEF LossInv, TypeOK
    <3> QED
      BY <3>1 DEF RowsOf
  <2> QED
    BY <1>0, <1>13, <2>1, <2>2, WrittenLoss DEF AppendMisread
<1>14. ASSUME NEW t \in Tables, AppendRaises(t)
      PROVE  LossInv'
  <2>1. StillHeld /\ NothingLost'
    <3>1. CASE UNCHANGED delta
      BY <1>14, <3>1, SameHeld, SameStored DEF AppendRaises, log, LossInv
    <3>2. CASE Land(t)
      BY <1>0, <1>14, <3>2, LandHeld DEF AppendRaises
    <3> QED
      BY <1>14, <3>1, <3>2 DEF AppendRaises
  <2> QED
    BY <1>0, <1>14, <2>1, RaiseLoss DEF AppendRaises
<1>15. CASE \E p \in Partitions : Produce(p)
  <2>1. StillHeld /\ NothingLost'
    BY <1>15, SameHeld, SameStored DEF Produce, LossInv
  <2>2. NonePassed' /\ BatchBounded'
    BY <1>15, <2>1, SameBatch DEF Produce
  <2>3. Flushed'
    BY <1>15, <2>1 DEF Produce, LossInv, PassedInv, Flushed, control, buffer, StillHeld
  <2> QED
    BY <1>0, <2>1, <2>2, <2>3 DEF LossInv, PassedInv
<1>16. CASE UNCHANGED vars
  BY <1>0, <1>16 DEF vars, LossInv, PassedInv, NothingLost, NonePassed, BatchBounded,
     Flushed, Held, IsRow
<1> QED
  BY <1>1, <1>2, <1>3, <1>4, <1>5, <1>6, <1>7, <1>8, <1>9, <1>10, <1>11, <1>12,
     <1>13, <1>14, <1>15, <1>16 DEF Next, Progress, Trouble

\* Whatever fails, a rebalance over a batch in memory and markers that cannot
\* be read among it, and in whatever order, neither the group's offsets nor a
\* marker passes a row that is not in its table, but for the rows of a write
\* whose error was misread (consumer.py:4-6).
THEOREM NothingLostWhateverFails ==
    ASSUME NoneRefusedWithOthers
    PROVE  Spec => []NothingLost
<1>1. LossInv /\ [Next]_vars => LossInv'
  BY StepLoss
<1>2. LossInv => NothingLost
  BY DEF LossInv
<1> QED
  BY <1>1, <1>2, InitLoss, PTL DEF Spec

-----------------------------------------------------------------------------
(* The sink implements the change feed.                                    *)

LEMMA FeedInit == Init => Feed!Init
BY DEF Init, Feed!Init, NoBatch, Unset, None, Offsets, Feed!Offsets

\* A Delta commit publishes what follows each of its markers.
LEMMA LandPublishes ==
    ASSUME SinkInv, SinkInv', NEW t \in Tables, Consuming, ~Stale(t), Land(t),
           UNCHANGED log
    PROVE  Feed!Publish(t)
<1>1. /\ \A p \in Partitions : marker[p] <= marker'[p]
      /\ \A p \in Partitions : TableOf[p] # t => marker'[p] = marker[p]
  BY Numbers DEF Land, Stale, SinkInv
<1>2. \A p \in Partitions :
         /\ marker[p] \in Int /\ marker[p] >= -1
         /\ marker'[p] \in Int /\ marker'[p] >= -1
         /\ marker'[p] < logEnd[p]
         /\ logEnd[p] \in 0..MaxOffset
  <2> SUFFICES ASSUME NEW p \in Partitions
      PROVE  /\ marker[p] \in Int /\ marker[p] >= -1
             /\ marker'[p] \in Int /\ marker'[p] >= -1
             /\ marker'[p] < logEnd[p]
             /\ logEnd[p] \in 0..MaxOffset
    OBVIOUS
  <2>1. marker'[p] \in Offsets \cup {None} /\ marker'[p] < logEnd'[p]
    BY DEF SinkInv, TypeOK, InLog
  <2>2. marker'[p] \in Int /\ marker'[p] >= -1
    BY <2>1, SinkAssumption DEF Offsets, None
  <2>3. logEnd[p] \in 0..MaxOffset /\ logEnd' = logEnd
    BY DEF SinkInv, TypeOK, log
  <2>4. QED
    BY <2>1, <2>2, <2>3, Numbers DEF SinkInv
<1>3. [p \in Partitions |-> marker[p] + 1]' \in [Partitions -> 0..MaxOffset]
  BY <1>2, SinkAssumption
<1>4. copies' = [p \in Partitions |-> [o \in Offsets |->
                   IF marker[p] + 1 <= o /\ o < marker'[p] + 1 /\ <<p, o>> \notin Skipped
                     THEN copies[p][o] + 1
                     ELSE copies[p][o]]]
  <2>1. \A p \in Partitions, o \in Offsets :
           copies'[p][o] =
              IF marker[p] + 1 <= o /\ o < marker'[p] + 1 /\ <<p, o>> \notin Skipped
                THEN copies[p][o] + 1
                ELSE copies[p][o]
    <3> SUFFICES ASSUME NEW p \in Partitions, NEW o \in Offsets
        PROVE  copies'[p][o] =
                  IF marker[p] + 1 <= o /\ o < marker'[p] + 1 /\ <<p, o>> \notin Skipped
                    THEN copies[p][o] + 1
                    ELSE copies[p][o]
      OBVIOUS
    <3>1. /\ copies[p][o] = IF <<p, o>> \notin Skipped /\ o <= marker[p] THEN 1 ELSE 0
          /\ copies'[p][o] = IF <<p, o>> \notin Skipped /\ o <= marker'[p] THEN 1 ELSE 0
      BY DEF SinkInv, MarkerSplits, IsRow
    <3>2. o \in Nat
      BY OffsetsFacts
    <3>3. QED
      BY <1>1, <1>2, <3>1, <3>2
  <2>2. copies' \in [Partitions -> [Offsets -> Nat]]
    BY DEF SinkInv, TypeOK
  <2>3. QED
    BY <2>1, <2>2
<1>5. QED
  BY <1>1, <1>2, <1>3, <1>4 DEF Feed!Publish, Feed!Offsets, Offsets, log

LEMMA FeedStep ==
    ASSUME Harmless, SinkInv, SinkInv', [Next]_vars
    PROVE  [Feed!Next]_Feed!vars
<1> USE DEF Feed!vars, log, delta
<1>1. ASSUME NEW t \in Tables, ~Refused(t), Land(t), Flushing(t), UNCHANGED log
      PROVE  Feed!Next
  <2>1. Feed!Publish(t)
    BY <1>1, LandPublishes DEF Refused, Harmless, Flushing, Consuming
  <2>2. QED
    BY <2>1 DEF Feed!Next, Feed!Tables, Tables
<1>2. ASSUME NEW p \in Partitions, Produce(p)
      PROVE  Feed!Next
  BY <1>2 DEF Produce, Feed!Produce, Feed!Next
<1>3. CASE UNCHANGED <<logEnd, copies, marker>>
  BY <1>3
<1>4. QED
  BY <1>1, <1>2, <1>3 DEF Next, Progress, Trouble, vars, Boot, Assign, OnAssign,
     FlushDue, PollSkipped, PollRow, AppendOk, AppendRejected, AppendMisread,
     AppendRaises, CommitReturns, CommitRaises, Crash, PollRaises, Rebalance,
     ResetOffsets

\* Seen from the markers, the tables are an exactly-once change feed: each
\* row of a partition appears once, in log order, without gaps, with the
\* other rows of its table's commit.
THEOREM SinkImplementsFeed ==
    ASSUME Harmless
    PROVE  Spec => FeedSpec
<1>1. SinkInv /\ SinkInv' /\ [Next]_vars => [Feed!Next]_Feed!vars
  BY FeedStep
<1>2. QED
  BY <1>1, FeedInit, InvAlways, PTL DEF Spec, FeedSpec, Feed!Spec
=============================================================================
