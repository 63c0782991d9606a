--------------------------- MODULE ReverseSyncProofs ---------------------------
(***************************************************************************)
(* Proofs about ReverseSync: whatever requests interleave, the ledger has  *)
(* the highest version applied for a key whose changes it can guard, and   *)
(* no such change is applied again behind it.                              *)
(***************************************************************************)
EXTENDS ReverseSync, TLAPS

-----------------------------------------------------------------------------
(* Types.                                                                  *)

LakeVersions == Versions \cup {NoVersion}

PgRows == Rows \cup {NoRow}

LEMMA RowOfType == \A v \in LakeVersions : RowOf(v) \in PgRows
  BY DEF RowOf, Rows, PgRows, LakeVersions

LEMMA RowTypes ==
    ASSUME NEW row \in PgRows
    PROVE  row.version \in LakeVersions
<1>1. CASE row \in Rows
  BY <1>1 DEF Rows, LakeVersions
<1>2. CASE row = NoRow
  <2>1. NoRow.version = NoVersion
    BY DEF NoRow
  <2> QED
    BY <1>2, <2>1 DEF LakeVersions
<1> QED
  BY <1>1, <1>2 DEF PgRows

LEMMA VersionNumbers == \A v \in LakeVersions : v \in Nat
  BY VersionAssumption DEF LakeVersions, Versions, NoVersion

LEMMA UnwrittenType == Unwritten \in Writes
  BY DEF Unwritten, Writes, Nothing, Pasts

LEMMA AnyPolicyType == AnyPolicy \in Policies
  BY DEF AnyPolicy, Policies, Sides

\* The row a handler is at.
LEMMA CurrentType ==
    ASSUME TypeOK, NEW h \in Handlers, pc[h] \in {"reading", "deciding", "writing"}
    PROVE  /\ todo[h] \in Seq(Changes) /\ todo[h] # <<>>
           /\ Change(h) \in Changes /\ Key(h) \in Keys
           /\ Change(h).version \in LakeVersions
           /\ Change(h).column = Kept \/ Change(h).column \in LakeVersions
           /\ Tail(todo[h]) \in Seq(Changes)
<1>1. todo[h] \in Seq(Changes) /\ todo[h] # <<>>
  BY DEF TypeOK
<1>2. Change(h) \in Changes /\ Tail(todo[h]) \in Seq(Changes)
  BY <1>1 DEF Change
<1> QED
  BY <1>1, <1>2 DEF Changes, Key, LakeVersions

\* What the transaction sees of it.
LEMMA SeenTypes ==
    ASSUME TypeOK, NEW h \in Handlers, Key(h) \in Keys
    PROVE  /\ Row(h) \in PgRows /\ Entry(h) \in LakeVersions /\ Past(h) \in Pasts
           /\ Seen(h) \in PgRows
<1>1. mine[h][Key(h)] \in Writes
  BY DEF TypeOK
<1>2. Row(h) \in PgRows /\ Entry(h) \in LakeVersions /\ Past(h) \in Pasts
  BY <1>1 DEF TypeOK, Row, Entry, Past, Writes, PgRows, LakeVersions
<1>3. RowOf(NoVersion) \in PgRows
  BY RowOfType DEF LakeVersions
<1> QED
  BY <1>2, <1>3 DEF Seen

LEMMA OvertakeType ==
    ASSUME TypeOK, NEW keys, NEW who \in {"request", "application"}, Overtake(keys, who)
    PROVE  overtaken' \in [Handlers -> SUBSET {"request", "application"}]
  BY DEF Overtake, TypeOK

\* The end of a transaction.
LEMMA EndTypes ==
    ASSUME TypeOK, NEW h \in Handlers, End(h)
    PROVE  /\ pc' \in [Handlers -> {"idle", "reading", "deciding", "writing", "committing"}]
           /\ todo' \in [Handlers -> Seq(Changes)]
           /\ \A g \in Handlers :
                 pc'[g] \in {"reading", "deciding", "writing"} <=> todo'[g] # <<>>
           /\ policy' \in [Handlers -> Policies]
           /\ named' \in [Handlers -> BOOLEAN]
           /\ found' \in [Handlers -> Rows \cup {NoRow}]
           /\ mine' \in [Handlers -> [Keys -> Writes]]
           /\ requests' \in 0..MaxRequests
           /\ appWrites' \in 0..MaxAppWrites
<1>1. [k \in Keys |-> Unwritten] \in [Keys -> Writes]
  BY UnwrittenType
<1>2. mine' \in [Handlers -> [Keys -> Writes]]
  BY <1>1 DEF TypeOK, End
<1>3. <<>> \in Seq(Changes)
  OBVIOUS
<1> QED
  BY <1>2, <1>3, AnyPolicyType DEF TypeOK, End

\* On to the next row.
LEMMA NextRowTypes ==
    ASSUME TypeOK, NEW h \in Handlers, pc[h] \in {"deciding", "writing"}, NextRow(h),
           mine' \in [Handlers -> [Keys -> Writes]]
    PROVE  TypeOK'
<1>1. Tail(todo[h]) \in Seq(Changes)
  BY CurrentType
<1>2. /\ pc' \in [Handlers -> {"idle", "reading", "deciding", "writing", "committing"}]
      /\ todo' \in [Handlers -> Seq(Changes)]
      /\ \A g \in Handlers :
            pc'[g] \in {"reading", "deciding", "writing"} <=> todo'[g] # <<>>
      /\ found' \in [Handlers -> Rows \cup {NoRow}]
      /\ overtaken' \in [Handlers -> SUBSET {"request", "application"}]
  BY <1>1 DEF TypeOK, NextRow
<1> QED
  BY <1>2 DEF TypeOK, NextRow, database, request

LEMMA OpenTypes ==
    ASSUME TypeOK, RequestAssumption, NEW h \in Handlers, NEW body \in Bodies,
           Open(h, body)
    PROVE  TypeOK'
<1>1. /\ body.rows \in Seq(Changes) /\ body.rows # <<>>
      /\ body.policy \in Policies /\ body.named \in BOOLEAN
  BY DEF RequestAssumption
<1>2. requests' \in 0..MaxRequests
  BY DEF Open, TypeOK, RequestAssumption
<1> QED
  BY <1>1, <1>2 DEF Open, TypeOK, database

LEMMA ReadTypes ==
    ASSUME TypeOK, NEW h \in Handlers, ReadRow(h)
    PROVE  TypeOK'
<1>1. Seen(h) \in Rows \cup {NoRow}
  BY CurrentType, SeenTypes DEF ReadRow, PgRows
<1> QED
  BY <1>1 DEF ReadRow, TypeOK, database, request

LEMMA ApplyTypes ==
    ASSUME TypeOK, NEW h \in Handlers, ApplyRow(h)
    PROVE  TypeOK'
<1>1. /\ pc[h] = "writing" /\ Key(h) \in Keys /\ Change(h).version \in LakeVersions
      /\ Change(h).column = Kept \/ Change(h).column \in LakeVersions
  BY CurrentType DEF ApplyRow
<1>2. /\ Row(h) \in PgRows /\ Past(h) \in Pasts
      /\ Row(h).version \in LakeVersions
  BY <1>1, SeenTypes, RowTypes
<1>3. Upserted(h) \in Rows \cup {NoRow}
  BY <1>1, <1>2, RowOfType DEF Upserted, PgRows
<1>4. Remembered(h) \in Pasts /\ Recorded(h) \in Versions \cup {NoVersion}
  BY <1>1, <1>2 DEF Remembered, Recorded, Pasts, LakeVersions
<1> DEFINE new == [written |-> TRUE, row |-> Upserted(h), entry |-> Recorded(h),
                   past |-> Remembered(h)]
<1>5. new \in Writes
  BY <1>3, <1>4 DEF Writes
<1>6. mine' = [mine EXCEPT ![h][Key(h)] = new]
  BY DEF ApplyRow
<1> HIDE DEF new
<1>7. mine' \in [Handlers -> [Keys -> Writes]]
  BY <1>1, <1>5, <1>6 DEF TypeOK
<1> QED
  BY <1>1, <1>7, NextRowTypes DEF ApplyRow

LEMMA CommitTypes ==
    ASSUME TypeOK, NEW h \in Handlers, Commit(h)
    PROVE  TypeOK'
<1>1. \A k \in Keys : mine[h][k] \in Writes
  BY DEF TypeOK
<1>2. pg' \in [Keys -> Rows \cup {NoRow}]
  BY <1>1 DEF Commit, TypeOK, Writes
<1>3. ledger' \in [Keys -> Versions \cup {NoVersion}]
  BY <1>1 DEF Commit, TypeOK, Writes
<1>4. past' \in [Keys -> Pasts]
  BY <1>1 DEF Commit, TypeOK, Writes
<1>5. overtaken' \in [Handlers -> SUBSET {"request", "application"}]
  BY OvertakeType DEF Commit
<1> QED
  BY <1>2, <1>3, <1>4, <1>5, EndTypes DEF Commit, TypeOK

LEMMA AppTypes ==
    ASSUME TypeOK, RequestAssumption, NEW k \in Keys, AppWrites(k)
    PROVE  TypeOK'
<1>1. PICK row \in {RowOf(v) : v \in Versions} \cup {NoRow} :
          pg' = [pg EXCEPT ![k] = row]
  BY DEF AppWrites
<1>2. row \in Rows \cup {NoRow}
  <2>1. \A v \in Versions : RowOf(v) \in PgRows
    BY RowOfType DEF LakeVersions
  <2> QED
    BY <2>1 DEF PgRows
<1>3. pg' \in [Keys -> Rows \cup {NoRow}]
  BY <1>1, <1>2 DEF TypeOK
<1>4. appWrites' \in 0..MaxAppWrites
  BY DEF AppWrites, TypeOK, RequestAssumption
<1>5. overtaken' \in [Handlers -> SUBSET {"request", "application"}]
  BY OvertakeType DEF AppWrites
<1> QED
  BY <1>3, <1>4, <1>5 DEF AppWrites, TypeOK, request

LEMMA TypeStep ==
    ASSUME TypeOK, RequestAssumption, [Next]_vars
    PROVE  TypeOK'
<1>1. ASSUME NEW h \in Handlers, NEW body \in Bodies, Open(h, body)
      PROVE  TypeOK'
  BY <1>1, OpenTypes
<1>2. ASSUME NEW h \in Handlers, ReadRow(h)
      PROVE  TypeOK'
  BY <1>2, ReadTypes
<1>3. ASSUME NEW h \in Handlers, LeaveRow(h)
      PROVE  TypeOK'
  <2>1. mine' \in [Handlers -> [Keys -> Writes]] /\ pc[h] = "deciding" /\ NextRow(h)
    BY <1>3 DEF LeaveRow, TypeOK
  <2> QED
    BY <2>1, NextRowTypes
<1>4. ASSUME NEW h \in Handlers, DecideToApply(h)
      PROVE  TypeOK'
  BY <1>4 DEF DecideToApply, TypeOK, database, request
<1>5. ASSUME NEW h \in Handlers, ApplyRow(h)
      PROVE  TypeOK'
  BY <1>5, ApplyTypes
<1>6. ASSUME NEW h \in Handlers, Commit(h)
      PROVE  TypeOK'
  BY <1>6, CommitTypes
<1>7. ASSUME NEW h \in Handlers, Refuse(h) \/ BreakDeadlock(h) \/ RollBack(h)
      PROVE  TypeOK'
  <2>1. End(h) /\ UNCHANGED database /\ overtaken' = [overtaken EXCEPT ![h] = {}]
    BY <1>7 DEF Refuse, BreakDeadlock, RollBack, Aborted
  <2>2. overtaken' \in [Handlers -> SUBSET {"request", "application"}]
    BY <2>1 DEF TypeOK
  <2> QED
    BY <2>1, <2>2, EndTypes DEF TypeOK, database
<1>8. ASSUME NEW k \in Keys, AppWrites(k)
      PROVE  TypeOK'
  BY <1>8, AppTypes
<1>9. CASE UNCHANGED vars
  BY <1>9 DEF vars, TypeOK
<1> QED
  BY <1>1, <1>2, <1>3, <1>4, <1>5, <1>6, <1>7, <1>8, <1>9 DEF Next, Handle

\* The types of the variables, for any keys, requests and versions.
THEOREM TypeCorrect == Spec => []TypeOK
<1>1. Init => TypeOK
  <2> SUFFICES ASSUME Init PROVE TypeOK
    OBVIOUS
  <2>1. <<>> \in Seq(Changes)
    OBVIOUS
  <2>2. Nothing \in Pasts
    BY DEF Nothing, Pasts
  <2> QED
    BY <2>1, <2>2, AnyPolicyType, UnwrittenType, RequestAssumption
       DEF Init, TypeOK, RequestAssumption
<1>2. TypeOK /\ [Next]_vars => TypeOK'
  BY TypeStep, RequestAssumption
<1> QED
  BY <1>1, <1>2, PTL DEF Spec

-----------------------------------------------------------------------------
(* The ledger guards what was applied.                                     *)

\* The decision to apply the current row, taken on what the handler has read.
Decided(h) ==
    \/ found[h] = NoRow
    \/ Resolve(found[h], RowOf(Change(h).version), policy[h]) = "lakehouse"

\* The keys it has written keep entry and history together; and as long as
\* nobody has overtaken it the decision it has taken is still the right one.
Guarded(h) ==
    /\ \A k \in Written(h) : \/ mine[h][k].past.doubtful
                             \/ mine[h][k].entry = mine[h][k].past.highest
    /\ pc[h] = "writing" /\ "request" \notin overtaken[h]
          => ~ Duplicate(Change(h).version, Entry(h))
    /\ pc[h] \in {"deciding", "writing"} /\ overtaken[h] = {} => found[h] = Seen(h)
    /\ pc[h] = "writing" => Decided(h)

LedgerInv == LedgerIsHighest /\ \A h \in Handlers : Guarded(h)

\* What the decision to apply says.
LEMMA ApplyDecision ==
    ASSUME NEW row, NEW v, NEW p, NEW last, Decide(row, RowOf(v), p, last) = "apply"
    PROVE  /\ ~ Duplicate(v, last)
           /\ row = NoRow \/ Resolve(row, RowOf(v), p) = "lakehouse"
<1>1. RowOf(v).version = v
  BY DEF RowOf
<1> QED
  BY <1>1 DEF Decide

\* An entry with the highest version lets only later ones pass.
LEMMA LaterThanHighest ==
    ASSUME NEW v \in LakeVersions, NEW last \in LakeVersions,
           v # NoVersion, ~ Duplicate(v, last)
    PROVE  v > last
<1>1. v \in Nat /\ last \in Nat
  BY VersionNumbers
<1>2. CASE last = NoVersion
  BY <1>1, <1>2 DEF NoVersion
<1>3. CASE last # NoVersion
  BY <1>1, <1>3 DEF Duplicate
<1> QED
  BY <1>2, <1>3

\* Under last_write_wins the row that wins is not the older one.
LEMMA WinnerIsNewer ==
    ASSUME NEW row \in PgRows, NEW v \in LakeVersions, NEW p \in Policies,
           p.kind = "last_write_wins",
           Resolve(row, RowOf(v), p) = "lakehouse"
    PROVE  row.version # NoVersion /\ v >= row.version
<1>1. v \in Nat /\ row.version \in Nat /\ RowOf(v).version = v
  BY VersionNumbers, RowTypes DEF RowOf
<1>2. row.version # NoVersion
  BY <1>1 DEF Resolve
<1>3. ~ (row.version > v)
  BY <1>1 DEF Resolve
<1> QED
  BY <1>1, <1>2, <1>3

SameHandler(h) ==
    /\ pc'[h] = pc[h] /\ todo'[h] = todo[h] /\ policy'[h] = policy[h]
    /\ named'[h] = named[h] /\ found'[h] = found[h] /\ mine'[h] = mine[h]

\* What another process commits is the handler's key only if it is overtaken.
LEMMA OtherGuarded ==
    ASSUME TypeOK, NEW h \in Handlers, Guarded(h), SameHandler(h),
           overtaken[h] \subseteq overtaken'[h],
           todo[h] # <<>> /\ "request" \notin overtaken'[h]
              => ledger'[Key(h)] = ledger[Key(h)],
           todo[h] # <<>> /\ overtaken'[h] = {} => pg'[Key(h)] = pg[Key(h)]
    PROVE  Guarded(h)'
<1>1. /\ Written(h)' = Written(h) /\ Change(h)' = Change(h) /\ Key(h)' = Key(h)
      /\ Decided(h)' = Decided(h)
  BY DEF SameHandler, Written, Change, Key, Decided
<1>2. pc[h] \in {"deciding", "writing"} => todo[h] # <<>>
  BY DEF TypeOK
<1>3. \A k \in Written(h)' : \/ mine'[h][k].past.doubtful
                             \/ mine'[h][k].entry = mine'[h][k].past.highest
  BY <1>1 DEF Guarded, SameHandler
<1>4. ASSUME pc'[h] = "writing", "request" \notin overtaken'[h]
      PROVE  ~ Duplicate(Change(h).version, Entry(h))'
  <2>1. pc[h] = "writing" /\ "request" \notin overtaken[h] /\ todo[h] # <<>>
    BY <1>2, <1>4 DEF SameHandler
  <2>2. Entry(h)' = Entry(h)
    BY <1>1, <1>4, <2>1 DEF Entry, SameHandler
  <2> QED
    BY <1>1, <2>1, <2>2 DEF Guarded, Duplicate
<1>5. ASSUME pc'[h] \in {"deciding", "writing"}, overtaken'[h] = {}
      PROVE  found'[h] = Seen(h)'
  <2>1. overtaken[h] = {} /\ pc[h] \in {"deciding", "writing"} /\ todo[h] # <<>>
    BY <1>2, <1>5 DEF SameHandler
  <2>2. Row(h)' = Row(h)
    BY <1>1, <1>5, <2>1 DEF Row, SameHandler
  <2>3. Seen(h)' = Seen(h)
    BY <2>2 DEF Seen, SameHandler
  <2> QED
    BY <2>1, <2>3 DEF Guarded, SameHandler
<1>6. pc'[h] = "writing" => Decided(h)'
  BY <1>1 DEF Guarded, SameHandler
<1> QED
  BY <1>3, <1>4, <1>5, <1>6 DEF Guarded

LEMMA OpenGuarded ==
    ASSUME TypeOK, NEW h \in Handlers, NEW body \in Bodies, Open(h, body), Guarded(h)
    PROVE  Guarded(h)'
<1>1. pc'[h] = "reading" /\ mine' = mine
  BY DEF Open, TypeOK
<1>2. Written(h)' = Written(h)
  BY <1>1 DEF Written
<1> QED
  BY <1>1, <1>2 DEF Guarded

LEMMA ReadGuarded ==
    ASSUME TypeOK, NEW h \in Handlers, ReadRow(h), Guarded(h)
    PROVE  Guarded(h)'
<1>1. /\ pc'[h] = "deciding" /\ found'[h] = Seen(h)
      /\ UNCHANGED <<pg, ledger, todo, named, mine>>
  BY DEF ReadRow, TypeOK, database, request
<1>2. Written(h)' = Written(h) /\ Seen(h)' = Seen(h)
  BY <1>1 DEF Written, Seen, Row, Key, Change
<1> QED
  BY <1>1, <1>2 DEF Guarded

LEMMA DecideGuarded ==
    ASSUME TypeOK, NEW h \in Handlers, DecideToApply(h), Guarded(h)
    PROVE  Guarded(h)'
<1>1. /\ pc[h] = "deciding" /\ pc'[h] = "writing" /\ Decision(h) = "apply"
      /\ UNCHANGED <<pg, ledger, todo, policy, named, found, mine, overtaken>>
  BY DEF DecideToApply, TypeOK, database, request
<1>2. ~ Duplicate(Change(h).version, Entry(h)) /\ Decided(h)
  BY <1>1, ApplyDecision DEF Decision, Decided
<1>3. /\ Written(h)' = Written(h) /\ Seen(h)' = Seen(h) /\ Entry(h)' = Entry(h)
      /\ Change(h)' = Change(h) /\ Decided(h)' = Decided(h)
  BY <1>1 DEF Written, Seen, Row, Entry, Key, Change, Decided
<1> QED
  BY <1>1, <1>2, <1>3 DEF Guarded, Duplicate

LEMMA LeaveGuarded ==
    ASSUME TypeOK, NEW h \in Handlers, LeaveRow(h), Guarded(h)
    PROVE  Guarded(h)'
<1>1. pc'[h] \in {"committing", "reading"} /\ mine' = mine
  BY DEF LeaveRow, NextRow, TypeOK
<1>2. Written(h)' = Written(h)
  BY <1>1 DEF Written
<1> QED
  BY <1>1, <1>2 DEF Guarded

\* What the transaction sees of a key has its entry at the highest version,
\* unless the key is doubtful.
LEMMA SeenHighest ==
    ASSUME LedgerInv, NEW h \in Handlers, Key(h) \in Keys
    PROVE  Past(h).doubtful \/ Entry(h) = Past(h).highest
  BY DEF LedgerInv, LedgerIsHighest, Guarded, Past, Entry

\* A change applied with a version, by a handler that nobody has overtaken, is
\* later than all that were applied.
LEMMA AppliesLater ==
    ASSUME TypeOK, LedgerInv, NEW h \in Handlers, ApplyRow(h),
           ~ Past(h).doubtful, Change(h).version # NoVersion,
           "request" \notin overtaken[h]
    PROVE  /\ Past(h).highest \in LakeVersions /\ Change(h).version \in LakeVersions
           /\ Change(h).version > Past(h).highest
<1>1. Key(h) \in Keys /\ Change(h).version \in LakeVersions /\ pc[h] = "writing"
  BY CurrentType DEF ApplyRow
<1>2. Entry(h) = Past(h).highest /\ Entry(h) \in LakeVersions
  BY <1>1, SeenHighest, SeenTypes
<1>3. ~ Duplicate(Change(h).version, Entry(h))
  BY <1>1 DEF LedgerInv, Guarded
<1> QED
  BY <1>1, <1>2, <1>3, LaterThanHighest

LEMMA ApplyGuarded ==
    ASSUME TypeOK, LedgerInv, NEW h \in Handlers, ApplyRow(h)
    PROVE  Guarded(h)'
<1> DEFINE new == [written |-> TRUE, row |-> Upserted(h), entry |-> Recorded(h),
                   past |-> Remembered(h)]
<1>1. pc'[h] \in {"committing", "reading"} /\ Key(h) \in Keys
  BY CurrentType DEF ApplyRow, NextRow, TypeOK
<1>2. mine' = [mine EXCEPT ![h][Key(h)] = new]
  BY DEF ApplyRow
<1>3. \A k \in Keys : mine'[h][k] = IF k = Key(h) THEN new ELSE mine[h][k]
  BY <1>1, <1>2 DEF TypeOK
<1>4. new.past.doubtful \/ new.entry = new.past.highest
  <2>1. CASE Past(h).doubtful \/ Change(h).version = NoVersion \/ "request" \in overtaken[h]
    BY <2>1 DEF Remembered
  <2>2. CASE ~ (Past(h).doubtful \/ Change(h).version = NoVersion
                 \/ "request" \in overtaken[h])
    <3>1. Change(h).version > Past(h).highest
      BY <2>2, AppliesLater
    <3> QED
      BY <3>1 DEF Remembered, Recorded
  <2> QED
    BY <2>1, <2>2
<1> HIDE DEF new
<1>5. ASSUME NEW k \in Written(h)'
      PROVE  mine'[h][k].past.doubtful \/ mine'[h][k].entry = mine'[h][k].past.highest
  <2>1. k \in Keys /\ mine'[h][k].written
    BY DEF Written
  <2>2. CASE k = Key(h)
    BY <1>3, <1>4, <2>1, <2>2
  <2>3. CASE k # Key(h)
    <3>1. mine'[h][k] = mine[h][k] /\ k \in Written(h)
      BY <1>3, <2>1, <2>3 DEF Written
    <3> QED
      BY <3>1 DEF LedgerInv, Guarded
  <2> QED
    BY <2>2, <2>3
<1> QED
  BY <1>1, <1>5 DEF Guarded

LEMMA EndGuarded ==
    ASSUME TypeOK, NEW h \in Handlers, End(h)
    PROVE  Guarded(h)'
<1>1. pc'[h] = "idle" /\ mine'[h] = [k \in Keys |-> Unwritten]
  BY DEF End, TypeOK
<1>2. Written(h)' = {}
  BY <1>1 DEF Written, Unwritten
<1> QED
  BY <1>1, <1>2 DEF Guarded

\* A commit writes the entry and the history of the same keys.
LEMMA CommitHighest ==
    ASSUME LedgerInv, NEW h \in Handlers, Commit(h)
    PROVE  LedgerIsHighest'
<1> SUFFICES ASSUME NEW k \in Keys
             PROVE  past'[k].doubtful \/ ledger'[k] = past'[k].highest
  BY DEF LedgerIsHighest
<1>1. CASE k \in Written(h)
  <2>1. ledger'[k] = mine[h][k].entry /\ past'[k] = mine[h][k].past
    BY <1>1 DEF Commit
  <2> QED
    BY <1>1, <2>1 DEF LedgerInv, Guarded
<1>2. CASE k \notin Written(h)
  <2>1. ledger'[k] = ledger[k] /\ past'[k] = past[k]
    BY <1>2 DEF Commit
  <2> QED
    BY <2>1 DEF LedgerInv, LedgerIsHighest
<1> QED
  BY <1>1, <1>2

\* A commit leaves the other handlers' variables alone, and overtakes those
\* that are at a key it has written.
LEMMA CommitOthers ==
    ASSUME TypeOK, NEW h \in Handlers, NEW g \in Handlers, g # h, Commit(h), Guarded(g)
    PROVE  Guarded(g)'
<1>1. SameHandler(g) /\ overtaken[g] \subseteq overtaken'[g]
  BY DEF Commit, End, Overtake, TypeOK, SameHandler
<1>2. CASE todo[g] # <<>> /\ Key(g) \in Written(h)
  <2>1. "request" \in overtaken'[g]
    BY <1>2 DEF Commit, Overtake
  <2> QED
    BY <1>1, <2>1, OtherGuarded
<1>3. CASE todo[g] # <<>> /\ Key(g) \notin Written(h)
  <2>1. Key(g) \in Keys
    BY <1>3, CurrentType DEF TypeOK
  <2>2. ledger'[Key(g)] = ledger[Key(g)] /\ pg'[Key(g)] = pg[Key(g)]
    BY <1>3, <2>1 DEF Commit
  <2> QED
    BY <1>1, <2>2, OtherGuarded
<1>4. CASE todo[g] = <<>>
  BY <1>1, <1>4, OtherGuarded
<1> QED
  BY <1>2, <1>3, <1>4

LEMMA AppOthers ==
    ASSUME TypeOK, NEW k \in Keys, NEW g \in Handlers, AppWrites(k), Guarded(g)
    PROVE  Guarded(g)'
<1>1. /\ SameHandler(g) /\ overtaken[g] \subseteq overtaken'[g] /\ ledger' = ledger
  BY DEF AppWrites, Overtake, TypeOK, SameHandler, request
<1>2. ASSUME todo[g] # <<>>, overtaken'[g] = {}
      PROVE  pg'[Key(g)] = pg[Key(g)]
  <2>1. Key(g) # k
    BY <1>2 DEF AppWrites, Overtake
  <2>2. Key(g) \in Keys
    BY <1>2, CurrentType DEF TypeOK
  <2> QED
    BY <2>1, <2>2 DEF AppWrites, TypeOK
<1> QED
  BY <1>1, <1>2, OtherGuarded

\* The other steps of a handler commit nothing and touch its variables only.
LEMMA NotMine ==
    ASSUME TypeOK, NEW h \in Handlers, NEW g \in Handlers, g # h,
           \/ \E body \in Bodies : Open(h, body)
           \/ ReadRow(h) \/ LeaveRow(h) \/ DecideToApply(h) \/ ApplyRow(h)
           \/ Refuse(h) \/ BreakDeadlock(h) \/ RollBack(h)
    PROVE  SameHandler(g) /\ overtaken'[g] = overtaken[g]
<1>1. CASE \E body \in Bodies : Open(h, body)
  BY <1>1 DEF Open, TypeOK, SameHandler
<1>2. CASE ReadRow(h)
  BY <1>2 DEF ReadRow, TypeOK, SameHandler, request
<1>3. CASE LeaveRow(h)
  BY <1>3 DEF LeaveRow, NextRow, TypeOK, SameHandler, request
<1>4. CASE DecideToApply(h)
  BY <1>4 DEF DecideToApply, TypeOK, SameHandler, request
<1>5. CASE ApplyRow(h)
  BY <1>5 DEF ApplyRow, NextRow, TypeOK, SameHandler, request
<1>6. CASE Refuse(h) \/ BreakDeadlock(h) \/ RollBack(h)
  BY <1>6 DEF Refuse, BreakDeadlock, RollBack, Aborted, End, TypeOK, SameHandler
<1> QED
  BY <1>1, <1>2, <1>3, <1>4, <1>5, <1>6

LEMMA NothingCommitted ==
    ASSUME NEW h \in Handlers,
           \/ \E body \in Bodies : Open(h, body)
           \/ ReadRow(h) \/ LeaveRow(h) \/ DecideToApply(h) \/ ApplyRow(h)
           \/ Refuse(h) \/ BreakDeadlock(h) \/ RollBack(h)
    PROVE  UNCHANGED <<pg, ledger, past>>
  BY DEF Open, ReadRow, LeaveRow, NextRow, DecideToApply, ApplyRow, Refuse,
         BreakDeadlock, RollBack, Aborted, database

LEMMA LedgerStep ==
    ASSUME TypeOK, LedgerInv, [Next]_vars
    PROVE  LedgerInv'
<1>1. ASSUME NEW h \in Handlers,
             \/ \E body \in Bodies : Open(h, body)
             \/ ReadRow(h) \/ LeaveRow(h) \/ DecideToApply(h) \/ ApplyRow(h)
             \/ Refuse(h) \/ BreakDeadlock(h) \/ RollBack(h)
      PROVE  LedgerInv'
  <2>1. UNCHANGED <<pg, ledger, past>>
    BY <1>1, NothingCommitted
  <2>2. LedgerIsHighest'
    BY <2>1 DEF LedgerInv, LedgerIsHighest
  <2>3. Guarded(h)'
    <3>1. CASE \E body \in Bodies : Open(h, body)
      BY <3>1, OpenGuarded DEF LedgerInv
    <3>2. CASE ReadRow(h)
      BY <3>2, ReadGuarded DEF LedgerInv
    <3>3. CASE LeaveRow(h)
      BY <3>3, LeaveGuarded DEF LedgerInv
    <3>4. CASE DecideToApply(h)
      BY <3>4, DecideGuarded DEF LedgerInv
    <3>5. CASE ApplyRow(h)
      BY <3>5, ApplyGuarded
    <3>6. CASE Refuse(h) \/ BreakDeadlock(h) \/ RollBack(h)
      BY <3>6, EndGuarded DEF Refuse, BreakDeadlock, RollBack, Aborted
    <3> QED
      BY <1>1, <3>1, <3>2, <3>3, <3>4, <3>5, <3>6
  <2>4. ASSUME NEW g \in Handlers, g # h
        PROVE  Guarded(g)'
    <3>1. SameHandler(g) /\ overtaken'[g] = overtaken[g] /\ Guarded(g)
      BY <1>1, <2>4, NotMine DEF LedgerInv
    <3> QED
      BY <2>1, <3>1, OtherGuarded
  <2> QED
    BY <2>2, <2>3, <2>4 DEF LedgerInv
<1>2. ASSUME NEW h \in Handlers, Commit(h)
      PROVE  LedgerInv'
  <2>1. LedgerIsHighest'
    BY <1>2, CommitHighest
  <2>2. Guarded(h)'
    BY <1>2, EndGuarded DEF Commit
  <2>3. \A g \in Handlers : g # h => Guarded(g)'
    BY <1>2, CommitOthers DEF LedgerInv
  <2> QED
    BY <2>1, <2>2, <2>3 DEF LedgerInv
<1>3. ASSUME NEW k \in Keys, AppWrites(k)
      PROVE  LedgerInv'
  <2>1. ledger' = ledger /\ past' = past
    BY <1>3 DEF AppWrites
  <2>2. LedgerIsHighest'
    BY <2>1 DEF LedgerInv, LedgerIsHighest
  <2>3. \A g \in Handlers : Guarded(g)'
    BY <1>3, AppOthers DEF LedgerInv
  <2> QED
    BY <2>2, <2>3 DEF LedgerInv
<1>4. CASE UNCHANGED vars
  <2>1. /\ \A g \in Handlers : SameHandler(g) /\ overtaken'[g] = overtaken[g]
        /\ UNCHANGED <<pg, ledger, past>>
    BY <1>4 DEF vars, SameHandler
  <2>2. \A g \in Handlers : Guarded(g)'
    BY <2>1, OtherGuarded DEF LedgerInv
  <2> QED
    BY <2>1, <2>2 DEF LedgerInv, LedgerIsHighest
<1> QED
  BY <1>1, <1>2, <1>3, <1>4 DEF Next, Handle

LEMMA LedgerInvInvariant == Spec => []LedgerInv
<1>1. Init => LedgerInv
  BY DEF Init, LedgerInv, LedgerIsHighest, Guarded, Written, Unwritten, Nothing
<1>2. TypeOK /\ LedgerInv /\ [Next]_vars => LedgerInv'
  BY LedgerStep
<1> QED
  BY <1>1, <1>2, TypeCorrect, PTL DEF Spec

\* For any requests, handlers and keys: unless a change of the key came without
\* a version, or was overtaken by another request, the ledger has the highest
\* version applied (reconciler.py:195-207, 264-273).
THEOREM LedgerAlwaysHighest == Spec => []LedgerIsHighest
<1>1. LedgerInv => LedgerIsHighest
  BY DEF LedgerInv
<1> QED
  BY <1>1, LedgerInvInvariant, PTL

\* A handler that nobody has overtaken overwrites nothing newer.
LEMMA NothingNewer ==
    ASSUME TypeOK, LedgerInv, NEW h \in Handlers, ApplyRow(h), overtaken[h] = {}
    PROVE  ~ OverwritesNewer(h)
<1> SUFFICES ASSUME policy[h].kind = "last_write_wins"
             PROVE  ~ (Change(h).version < Row(h).version)
  BY DEF OverwritesNewer
<1>1. pc[h] = "writing" /\ Key(h) \in Keys /\ Change(h).version \in LakeVersions
  BY CurrentType DEF ApplyRow
<1>2. found[h] = Seen(h) /\ Decided(h) /\ policy[h] \in Policies
  BY <1>1 DEF LedgerInv, Guarded, TypeOK
<1>3. Row(h) \in PgRows /\ Seen(h) \in PgRows /\ Row(h).version \in LakeVersions
  BY <1>1, SeenTypes, RowTypes
<1>4. Change(h).version \in Nat /\ Row(h).version \in Nat
  BY <1>1, <1>3, VersionNumbers
<1>5. CASE Row(h).exists /\ ~named[h]
  <2>1. Seen(h).exists /\ Seen(h).version = NoVersion
    BY <1>5 DEF Seen, RowOf
  <2>2. found[h] # NoRow
    BY <1>2, <2>1 DEF NoRow
  <2>3. Resolve(Seen(h), RowOf(Change(h).version), policy[h]) = "lakehouse"
    BY <1>2, <2>2 DEF Decided
  <2> QED
    BY <1>1, <1>2, <1>3, <2>1, <2>3, WinnerIsNewer
<1>6. CASE ~ (Row(h).exists /\ ~named[h])
  <2>1. found[h] = Row(h)
    BY <1>2, <1>6 DEF Seen
  <2>2. CASE found[h] = NoRow
    BY <1>4, <2>1, <2>2 DEF NoRow, NoVersion
  <2>3. CASE Resolve(found[h], RowOf(Change(h).version), policy[h]) = "lakehouse"
    <3>1. Change(h).version >= Row(h).version
      BY <1>1, <1>2, <1>3, <2>1, <2>3, WinnerIsNewer
    <3> QED
      BY <1>4, <3>1
  <2> QED
    BY <1>2, <2>2, <2>3 DEF Decided
<1> QED
  BY <1>5, <1>6

\* For any requests, handlers and keys: a change applied already, or older than
\* one, is applied only where the ledger had been emptied or overtaken before,
\* or by a request that another overtakes; and last_write_wins overwrites a
\* newer row only if it was committed behind the read (state_machine.py:72-80,
\* reconciler.py:195-205).
THEOREM NeverBackHolds == Spec => NeverBack
<1>1. TypeOK /\ LedgerInv /\ [Next]_vars
        => [\A h \in Handlers : ApplyRow(h) =>
              /\ AppliedBefore(h) => Past(h).doubtful \/ "request" \in overtaken[h]
              /\ OverwritesNewer(h) => overtaken[h] # {}]_vars
  <2> SUFFICES ASSUME TypeOK, LedgerInv, NEW h \in Handlers, ApplyRow(h)
               PROVE  /\ AppliedBefore(h) => Past(h).doubtful \/ "request" \in overtaken[h]
                      /\ OverwritesNewer(h) => overtaken[h] # {}
    OBVIOUS
  <2>1. ASSUME AppliedBefore(h), ~ Past(h).doubtful, "request" \notin overtaken[h]
        PROVE  FALSE
    <3>1. /\ Change(h).version # NoVersion
          /\ Change(h).version <= Past(h).highest
      BY <2>1 DEF AppliedBefore, Duplicate
    <3>2. /\ Past(h).highest \in LakeVersions /\ Change(h).version \in LakeVersions
          /\ Change(h).version > Past(h).highest
      BY <2>1, <3>1, AppliesLater
    <3> QED
      BY <3>1, <3>2, VersionNumbers
  <2>2. OverwritesNewer(h) => overtaken[h] # {}
    BY NothingNewer
  <2> QED
    BY <2>1, <2>2
<1> QED
  BY <1>1, TypeCorrect, LedgerInvInvariant, PTL DEF Spec, NeverBack
=============================================================================
