------------------------- MODULE SchemaReconcileProofs -------------------------
(***************************************************************************)
(* Proofs about SchemaReconcile: a registered table has no gap in the      *)
(* catalog, the answer "in sync" is true but for the named cases, and what *)
(* is registered can be read back, for any columns, types, calls, bounds.  *)
(***************************************************************************)
EXTENDS SchemaReconcile, TypeMappingProofs

\* Only a schema the type engine can map is about to be posted.
ReadyToPost ==
    \A x \in Calls : pc[x] \in {"drop", "post"} => AllMappable(pgCols[x])

SchemaInv == TypeOK /\ ReadyToPost /\ NoGapAtRest

USE SchemaAssumption

-----------------------------------------------------------------------------
(* The registration of a schema.                                           *)

LEMMA MappedSchema ==
    ASSUME NEW s \in PgSchemas, AllMappable(s)
    PROVE  Mapped(s) \in UcSchemas /\ (s # NoTable => Mapped(s) # NoTable)
<1>1. ASSUME NEW c \in Columns, s[c] # Absent
      PROVE  DeltaOf(s[c]) \in DeltaTypes
  <2>1. s[c] \in PgTypes /\ Mappable(s[c])
    BY <1>1 DEF PgSchemas, AllMappable
  <2> QED
    BY <2>1 DEF DeltaTypes
<1>2. Mapped(s) \in UcSchemas
  BY <1>1 DEF Mapped, UcSchemas
<1>3. ASSUME s # NoTable
      PROVE  Mapped(s) # NoTable
  <2>1. PICK c \in Columns : s[c] # Absent
    BY <1>3 DEF PgSchemas, NoTable
  <2>2. Mapped(s)[c] = DeltaOf(s[c]) /\ NoTable[c] = Absent
    BY <2>1 DEF Mapped, NoTable
  <2> QED
    BY <1>1, <2>1, <2>2
<1> QED
  BY <1>2, <1>3

LEMMA TellType ==
    ASSUME TypeOK, NEW x, NEW befalls \in SUBSET Encounters, Tell(x, befalls)
    PROVE  met' \in [Reconcilers -> SUBSET Encounters]
  BY DEF TypeOK, Tell, Encounters

\* A call that posts leaves the table registered.
LEMMA CreateRegisters ==
    ASSUME SchemaInv, NEW x \in Calls, pc[x] = "post", Create(x)
    PROVE  /\ uc' \in UcSchemas /\ uc' # NoTable /\ known' \in BOOLEAN
           /\ met' \in [Reconcilers -> SUBSET Encounters]
<1>1. pgCols[x] \in PgSchemas /\ pgCols[x] # NoTable /\ AllMappable(pgCols[x])
  BY DEF SchemaInv, TypeOK, ReadyToPost
<1>2. Mapped(pgCols[x]) \in UcSchemas /\ Mapped(pgCols[x]) # NoTable
  BY <1>1, MappedSchema
<1> QED
  BY <1>2, TellType DEF SchemaInv, TypeOK, Create

\* Types of the calls' variables when one of them ends or moves on.
Placed ==
    /\ pc \in [Calls -> {"idle", "introspect", "compare", "drop", "post"}]
    /\ \A x \in Calls : pc[x] \in {"compare", "drop"} => x \in Reconcilers
    /\ pgCols \in [Calls -> PgSchemas]
    /\ \A x \in Calls : pc[x] \in {"idle", "introspect"} <=> pgCols[x] = NoTable

LEMMA NoTableIsSchema == NoTable \in PgSchemas /\ NoTable \in UcSchemas
  BY DEF NoTable, PgSchemas, UcSchemas

LEMMA EndPlaced ==
    ASSUME SchemaInv, NEW x \in Calls, End(x)
    PROVE  Placed' /\ ReadyToPost'
  BY NoTableIsSchema DEF SchemaInv, TypeOK, ReadyToPost, End, Placed, AllMappable

\* A step that leaves the catalog as it is and takes no call from "post" opens
\* no gap.
LEMMA GapKept ==
    ASSUME SchemaInv, UNCHANGED <<uc, known>>,
           \A r \in Reconcilers : pc[r] = "post" => pc'[r] = "post"
    PROVE  NoGapAtRest'
  BY DEF SchemaInv, NoGapAtRest, NoTable

-----------------------------------------------------------------------------
(* Every step keeps the invariant.                                         *)

LEMMA InitInv == Init => SchemaInv
<1> SUFFICES ASSUME Init PROVE SchemaInv
  OBVIOUS
<1>1. TypeOK
  <2>1. pg \in PgSchemas /\ uc \in UcSchemas
    BY NoTableIsSchema DEF Init
  <2>2. Placed
    BY NoTableIsSchema DEF Init, Placed
  <2>3. met \in [Reconcilers -> SUBSET Encounters] /\ known \in BOOLEAN
    BY DEF Init
  <2>4. alters \in 0..MaxAlters /\ errors \in 0..MaxErrors
    BY DEF Init
  <2> QED
    BY <2>1, <2>2, <2>3, <2>4 DEF TypeOK, Placed
<1> QED
  BY <1>1 DEF Init, SchemaInv, ReadyToPost, NoGapAtRest

LEMMA AlterKeeps ==
    ASSUME SchemaInv, NEW c \in Columns, NEW type \in PgTypes \cup {Absent},
           AlterColumn(c, type)
    PROVE  SchemaInv'
<1>1. TypeOK'
  <2>1. met' \in [Reconcilers -> SUBSET Encounters]
    BY DEF SchemaInv, TypeOK, AlterColumn, Encounters
  <2> QED
    BY <2>1 DEF SchemaInv, TypeOK, AlterColumn, PgSchemas
<1>2. NoGapAtRest'
  BY GapKept DEF AlterColumn
<1> QED
  BY <1>1, <1>2 DEF SchemaInv, ReadyToPost, AllMappable, AlterColumn

LEMMA CallKeeps ==
    ASSUME SchemaInv, NEW x \in Calls, Call(x)
    PROVE  SchemaInv'
<1>1. TypeOK'
  <2>1. met' \in [Reconcilers -> SUBSET Encounters]
    BY DEF SchemaInv, TypeOK, Call
  <2> QED
    BY <2>1 DEF SchemaInv, TypeOK, Call, Goto
<1>2. NoGapAtRest'
  BY GapKept DEF SchemaInv, TypeOK, Call, Goto, Calls
<1> QED
  BY <1>1, <1>2 DEF SchemaInv, TypeOK, ReadyToPost, AllMappable, Call, Goto

LEMMA IntrospectKeeps ==
    ASSUME SchemaInv, NEW x \in Calls, NEW next \in {"compare", "post"},
           Introspect(x, next), next = "compare" <=> x \in Reconcilers
    PROVE  SchemaInv'
<1>1. Placed' /\ ReadyToPost'
  <2>1. CASE End(x)
    BY <2>1, EndPlaced
  <2>2. CASE ~ (pg = NoTable \/ (x \in Registrars /\ ~AllMappable(pg)))
    <3>1. /\ pgCols' = [pgCols EXCEPT ![x] = pg] /\ pc' = [pc EXCEPT ![x] = next]
          /\ pg \in PgSchemas /\ pg # NoTable
      BY <2>2 DEF Introspect, SchemaInv, TypeOK
    <3>2. Placed'
      BY <3>1 DEF SchemaInv, TypeOK, Placed
    <3>3. ReadyToPost'
      BY <2>2, <3>1 DEF SchemaInv, TypeOK, ReadyToPost, AllMappable, Calls
    <3> QED
      BY <3>2, <3>3
  <2> QED
    BY <2>1, <2>2 DEF Introspect
<1>2. TypeOK'
  BY <1>1 DEF SchemaInv, TypeOK, Placed, Introspect
<1>3. NoGapAtRest'
  BY GapKept DEF SchemaInv, TypeOK, Introspect, End, Calls
<1> QED
  BY <1>1, <1>2, <1>3 DEF SchemaInv

LEMMA PostKeeps ==
    ASSUME SchemaInv, NEW x \in Calls, pc[x] = "post", Create(x), End(x),
           UNCHANGED <<pg, alters, errors>>
    PROVE  SchemaInv'
<1>1. Placed' /\ ReadyToPost'
  BY EndPlaced
<1>2. /\ uc' \in UcSchemas /\ uc' # NoTable /\ known' \in BOOLEAN
      /\ met' \in [Reconcilers -> SUBSET Encounters]
  BY CreateRegisters
<1>3. TypeOK'
  BY <1>1, <1>2 DEF SchemaInv, TypeOK, Placed
<1>4. NoGapAtRest'
  BY <1>2 DEF NoGapAtRest, NoTable
<1> QED
  BY <1>1, <1>3, <1>4 DEF SchemaInv

LEMMA CompareKeeps ==
    ASSUME SchemaInv, NEW r \in Reconcilers, Compare(r)
    PROVE  SchemaInv'
<1>1. Placed' /\ ReadyToPost'
  <2>1. CASE End(r)
    BY <2>1, EndPlaced DEF Calls
  <2>2. CASE AllMappable(pgCols[r]) /\ pc' = [pc EXCEPT ![r] = "drop"] /\ UNCHANGED pgCols
    BY <2>2 DEF SchemaInv, TypeOK, Compare, Placed, ReadyToPost, AllMappable, Calls
  <2> QED
    BY <2>1, <2>2 DEF Compare
<1>2. TypeOK'
  BY <1>1 DEF SchemaInv, TypeOK, Placed, Compare
<1>3. NoGapAtRest'
  BY GapKept DEF SchemaInv, TypeOK, Compare, End, Calls
<1> QED
  BY <1>1, <1>2, <1>3 DEF SchemaInv

LEMMA DropKeeps ==
    ASSUME SchemaInv, NEW r \in Reconcilers, Drop(r)
    PROVE  SchemaInv'
<1>1. Placed' /\ ReadyToPost'
  BY DEF SchemaInv, TypeOK, Drop, Goto, Placed, ReadyToPost, AllMappable, Calls
<1>2. TypeOK'
  <2>1. uc' \in UcSchemas /\ met' \in [Reconcilers -> SUBSET Encounters]
    BY NoTableIsSchema, TellType DEF SchemaInv, TypeOK, Drop, Encounters
  <2>2. errors' \in 0..MaxErrors
    BY DEF SchemaInv, TypeOK, Drop, Error
  <2> QED
    BY <1>1, <2>1, <2>2 DEF SchemaInv, TypeOK, Placed, Drop
<1>3. pc'[r] = "post"
  BY DEF SchemaInv, TypeOK, Drop, Goto, Calls
<1> QED
  BY <1>1, <1>2, <1>3 DEF SchemaInv, NoGapAtRest

LEMMA FailsKeeps ==
    ASSUME SchemaInv, NEW x \in Calls, Fails(x)
    PROVE  SchemaInv'
<1>1. Placed' /\ ReadyToPost'
  BY EndPlaced DEF Fails
<1>2. /\ uc' \in UcSchemas
      /\ uc' = NoTable => uc = NoTable \/ pc[x] = "drop"
  <2>1. CASE UNCHANGED uc
    BY <2>1 DEF SchemaInv, TypeOK
  <2>2. CASE pc[x] = "drop" /\ uc' = NoTable
    BY <2>2, NoTableIsSchema
  <2>3. CASE pc[x] = "post" /\ uc = NoTable /\ uc' = Mapped(pgCols[x])
    BY <2>3, MappedSchema DEF SchemaInv, TypeOK, ReadyToPost
  <2> QED
    BY <2>1, <2>2, <2>3 DEF Fails
<1>3. TypeOK'
  <2>1. met' \in [Reconcilers -> SUBSET Encounters]
    BY TellType DEF SchemaInv, Fails, Encounters
  <2>2. known' \in BOOLEAN
    BY DEF SchemaInv, TypeOK, Fails
  <2>3. errors' \in 0..MaxErrors
    BY DEF SchemaInv, TypeOK, Fails, Error
  <2> QED
    BY <1>1, <1>2, <2>1, <2>2, <2>3 DEF SchemaInv, TypeOK, Placed, Fails
<1>4. NoGapAtRest'
  <2> SUFFICES ASSUME known', uc' = NoTable
               PROVE  \E r \in Reconcilers : pc'[r] = "post"
    BY DEF NoGapAtRest, NoTable
  <2>1. ~ (x \in Reconcilers /\ pc[x] \in {"drop", "post"}) /\ known
    BY DEF Fails
  <2>2. uc = NoTable
    BY <1>2, <2>1 DEF SchemaInv, TypeOK
  <2>3. PICK r \in Reconcilers : pc[r] = "post"
    BY <2>1, <2>2 DEF SchemaInv, NoGapAtRest
  <2> QED
    BY <2>1, <2>3 DEF SchemaInv, TypeOK, Fails, End, Calls
<1> QED
  BY <1>1, <1>3, <1>4 DEF SchemaInv

LEMMA StepInv == SchemaInv /\ [Next]_vars => SchemaInv'
<1> SUFFICES ASSUME SchemaInv, [Next]_vars PROVE SchemaInv'
  OBVIOUS
<1>1. ASSUME NEW r \in Reconcilers, Call(r) \/ Reconcile(r)
      PROVE  SchemaInv'
  BY <1>1, CallKeeps, IntrospectKeeps, CompareKeeps, DropKeeps, PostKeeps
     DEF Reconcile, Post, Calls
<1>2. ASSUME NEW g \in Registrars, Call(g) \/ RegisterTable(g)
      PROVE  SchemaInv'
  BY <1>2, CallKeeps, IntrospectKeeps, PostKeeps DEF RegisterTable, Register, Calls
<1>3. CASE \E x \in Calls : Fails(x)
  BY <1>3, FailsKeeps
<1>4. CASE \E c \in Columns, type \in PgTypes \cup {Absent} : AlterColumn(c, type)
  BY <1>4, AlterKeeps
<1>5. CASE UNCHANGED vars
  BY <1>5 DEF vars, SchemaInv, TypeOK, ReadyToPost, NoGapAtRest, AllMappable, NoTable
<1> QED
  BY <1>1, <1>2, <1>3, <1>4, <1>5 DEF Next

-----------------------------------------------------------------------------
(* What a call of reconcile-schema knows.                                  *)

\* The columns it has read are those of the table, unless that was altered; and
\* when it is about to post there is no registration, unless its DELETE had no
\* effect or somebody else has registered the table.
Knows(r) ==
    /\ pc[r] \in {"compare", "drop", "post"} => pgCols[r] = pg \/ "altered" \in met[r]
    /\ pc[r] = "post" => uc = NoTable \/ {"registered", "stayed"} \cap met[r] # {}

Informed == \A r \in Reconcilers : Knows(r)

\* A registration without a difference is the one the table would be given.
LEMMA InSyncIsMapped ==
    ASSUME NEW s \in PgSchemas, NEW t \in UcSchemas, InSync(s, t)
    PROVE  t = Mapped(s)
<1> SUFFICES ASSUME NEW c \in Columns
             PROVE  t[c] = IF s[c] = Absent THEN Absent ELSE DeltaOf(s[c])
  BY DEF UcSchemas, Mapped
<1>1. c \notin Added(s, t) /\ c \notin Removed(s, t) /\ c \notin TypeChanged(s, t)
  BY DEF InSync
<1> QED
  BY <1>1 DEF Added, Removed, TypeChanged

\* What others do to the registration a call about to post is told of.
LEMMA ToldOthers ==
    ASSUME TypeOK, NEW r \in Reconcilers, Knows(r), NEW x \in Calls, x # r,
           NEW befalls, Tell(x, befalls), UNCHANGED pg,
           pc'[r] = pc[r], pgCols'[r] = pgCols[r]
    PROVE  Knows(r)'
<1>1. met[r] \subseteq met'[r]
  BY DEF Tell
<1>2. pc[r] = "post" /\ uc' # uc => "registered" \in met'[r]
  BY DEF Tell
<1> QED
  BY <1>1, <1>2 DEF Knows, NoTable

\* So is one that nobody does anything to.
LEMMA KnowsKept ==
    ASSUME NEW r \in Reconcilers, Knows(r), UNCHANGED <<pg, uc, met>>,
           pc'[r] = pc[r], pgCols'[r] = pgCols[r]
    PROVE  Knows(r)'
  BY DEF Knows, NoTable

\* A call that is not past its read needs to know nothing.
LEMMA KnowsNothing ==
    ASSUME NEW r \in Reconcilers, pc'[r] \in {"idle", "introspect"}
    PROVE  Knows(r)'
  BY DEF Knows

\* A call that ends or posts, of either kind.
LEMMA EndInformed ==
    ASSUME TypeOK, Informed, NEW x \in Calls, End(x), UNCHANGED pg,
           \/ \E befalls : Tell(x, befalls)
           \/ UNCHANGED <<uc, met>>
    PROVE  Informed'
<1> SUFFICES ASSUME NEW r \in Reconcilers PROVE Knows(r)'
  BY DEF Informed
<1>1. CASE r = x
  BY <1>1, KnowsNothing DEF TypeOK, End
<1>2. CASE r # x
  <2>1. pc'[r] = pc[r] /\ pgCols'[r] = pgCols[r] /\ Knows(r)
    BY <1>2 DEF TypeOK, End, Informed, Calls
  <2>2. CASE UNCHANGED <<uc, met>>
    BY <2>1, <2>2, KnowsKept
  <2>3. CASE \E befalls : Tell(x, befalls)
    BY <1>2, <2>1, <2>3, ToldOthers
  <2> QED
    BY <2>2, <2>3
<1> QED
  BY <1>1, <1>2

LEMMA IntrospectInformed ==
    ASSUME TypeOK, Informed, NEW x \in Calls, NEW next \in {"compare", "post"},
           Introspect(x, next), next = "compare" <=> x \in Reconcilers
    PROVE  Informed'
<1>1. CASE End(x)
  BY <1>1, EndInformed DEF Introspect
<1>2. CASE pgCols' = [pgCols EXCEPT ![x] = pg] /\ pc' = [pc EXCEPT ![x] = next]
  <2> SUFFICES ASSUME NEW r \in Reconcilers PROVE Knows(r)'
    BY DEF Informed
  <2>1. UNCHANGED <<pg, uc, met>>
    BY DEF Introspect
  <2>2. CASE r = x
    <3>1. pc'[r] = "compare" /\ pgCols'[r] = pg
      BY <1>2, <2>2 DEF TypeOK
    <3> QED
      BY <2>1, <3>1 DEF Knows
  <2>3. CASE r # x
    <3>1. pc'[r] = pc[r] /\ pgCols'[r] = pgCols[r] /\ Knows(r)
      BY <1>2, <2>3 DEF TypeOK, Informed, Calls
    <3> QED
      BY <2>1, <3>1, KnowsKept
  <2> QED
    BY <2>2, <2>3
<1> QED
  BY <1>1, <1>2 DEF Introspect

LEMMA CompareInformed ==
    ASSUME TypeOK, Informed, NEW x \in Reconcilers, Compare(x)
    PROVE  Informed'
<1>0. x \in Calls
  BY DEF Calls
<1>1. CASE End(x)
  BY <1>0, <1>1, EndInformed DEF Compare
<1>2. CASE pc' = [pc EXCEPT ![x] = "drop"] /\ UNCHANGED pgCols
  <2> SUFFICES ASSUME NEW r \in Reconcilers PROVE Knows(r)'
    BY DEF Informed
  <2>1. UNCHANGED <<pg, uc, met>> /\ pc[x] = "compare" /\ Knows(r)
    BY DEF Compare, Informed
  <2>2. CASE r = x
    <3>1. pc'[r] = "drop"
      BY <1>0, <1>2, <2>2 DEF TypeOK
    <3> QED
      BY <1>2, <2>1, <2>2, <3>1 DEF Knows
  <2>3. CASE r # x
    <3>1. pc'[r] = pc[r] /\ pgCols'[r] = pgCols[r]
      BY <1>2, <2>3 DEF TypeOK, Calls
    <3> QED
      BY <2>1, <3>1, KnowsKept
  <2> QED
    BY <2>2, <2>3
<1> QED
  BY <1>1, <1>2 DEF Compare

LEMMA DropInformed ==
    ASSUME TypeOK, Informed, NEW x \in Reconcilers, Drop(x)
    PROVE  Informed'
<1> SUFFICES ASSUME NEW r \in Reconcilers PROVE Knows(r)'
  BY DEF Informed
<1>1. /\ x \in Calls /\ pc[x] = "drop" /\ pc' = [pc EXCEPT ![x] = "post"]
      /\ UNCHANGED <<pg, pgCols>> /\ Knows(r)
  BY DEF Drop, Goto, Informed, Calls
<1>2. CASE r = x
  <2>1. met[x] \subseteq met'[x] /\ (uc' = NoTable \/ "stayed" \in met'[x])
    BY DEF Drop, Tell
  <2> QED
    BY <1>1, <1>2, <2>1 DEF Knows, NoTable
<1>3. CASE r # x
  <2>1. pc'[r] = pc[r]
    BY <1>1, <1>3 DEF TypeOK, Calls
  <2>2. PICK befalls \in {{}, {"stayed"}} : Tell(x, befalls)
    BY DEF Drop
  <2> QED
    BY <1>1, <1>3, <2>1, <2>2, ToldOthers
<1> QED
  BY <1>2, <1>3

LEMMA CallInformed ==
    ASSUME TypeOK, Informed, NEW x \in Calls, Call(x)
    PROVE  Informed'
<1> SUFFICES ASSUME NEW r \in Reconcilers PROVE Knows(r)'
  BY DEF Informed
<1>1. CASE r = x
  BY <1>1, KnowsNothing DEF TypeOK, Call, Goto
<1>2. CASE r # x
  <2>1. pc'[r] = pc[r] /\ met'[r] = met[r] /\ UNCHANGED <<pg, uc, pgCols>>
    BY <1>2 DEF TypeOK, Call, Goto, Calls
  <2> QED
    BY <2>1 DEF Informed, Knows, NoTable
<1> QED
  BY <1>1, <1>2

LEMMA AlterInformed ==
    ASSUME TypeOK, Informed, NEW c \in Columns, NEW type, AlterColumn(c, type)
    PROVE  Informed'
<1> SUFFICES ASSUME NEW r \in Reconcilers PROVE Knows(r)'
  BY DEF Informed
<1>1. UNCHANGED <<uc, pc, pgCols>> /\ met[r] \subseteq met'[r] /\ Knows(r)
  BY DEF AlterColumn, Informed
<1>2. pc[r] \in {"compare", "drop", "post"} => "altered" \in met'[r]
  BY DEF AlterColumn
<1> QED
  BY <1>1, <1>2 DEF Knows, NoTable

LEMMA StepInformed == TypeOK /\ Informed /\ [Next]_vars => Informed'
<1> SUFFICES ASSUME TypeOK, Informed, [Next]_vars PROVE Informed'
  OBVIOUS
<1>1. ASSUME NEW x \in Calls, Post(x) \/ Register(x)
      PROVE  Informed'
  BY <1>1, EndInformed DEF Post, Register, Create
<1>2. ASSUME NEW r \in Reconcilers, Call(r) \/ Reconcile(r)
      PROVE  Informed'
  BY <1>1, <1>2, CallInformed, IntrospectInformed, CompareInformed, DropInformed
     DEF Reconcile, Calls
<1>3. ASSUME NEW g \in Registrars, Call(g) \/ RegisterTable(g)
      PROVE  Informed'
  BY <1>1, <1>3, CallInformed, IntrospectInformed DEF RegisterTable, Calls
<1>4. ASSUME NEW x \in Calls, Fails(x)
      PROVE  Informed'
  BY <1>4, EndInformed DEF Fails
<1>5. CASE \E c \in Columns, type \in PgTypes \cup {Absent} : AlterColumn(c, type)
  BY <1>5, AlterInformed
<1>6. CASE UNCHANGED vars
  BY <1>6, KnowsKept DEF vars, Informed
<1> QED
  BY <1>2, <1>3, <1>4, <1>5, <1>6 DEF Next

\* The answer is true of what was read, in the step that gives it.
LEMMA AnswerIsTrue ==
    ASSUME TypeOK, Informed, NEW r \in Reconcilers, AnswersInSync(r)
    PROVE  /\ \/ uc' = Mapped(pgCols[r])
              \/ {"registered", "stayed"} \cap met[r] # {}
           /\ pgCols[r] = pg \/ "altered" \in met[r]
<1>1. CASE Compare(r) /\ AllMappable(pgCols[r]) /\ pc'[r] = "idle"
  <2>1. UNCHANGED uc /\ pc[r] = "compare"
    BY <1>1 DEF Compare
  <2>2. InSync(pgCols[r], uc)
    BY <1>1 DEF Compare, TypeOK, Calls
  <2>3. uc' = Mapped(pgCols[r])
    BY <2>1, <2>2, InSyncIsMapped DEF TypeOK, Calls
  <2> QED
    BY <2>1, <2>3 DEF Informed, Knows
<1>2. CASE Post(r)
  <2>1. pc[r] = "post"
    BY <1>2 DEF Post
  <2>2. uc = NoTable => uc' = Mapped(pgCols[r])
    BY <1>2 DEF Post, Create
  <2> QED
    BY <2>1, <2>2 DEF Informed, Knows
<1> QED
  BY <1>1, <1>2 DEF AnswersInSync

-----------------------------------------------------------------------------
(* The theorems.                                                           *)

LEMMA AlwaysInv == Spec => []SchemaInv
  BY InitInv, StepInv, PTL DEF Spec

\* The types of the variables: in particular only types the engine gives are
\* ever registered.
THEOREM SchemaTypesCorrect == Spec => []TypeOK
<1>1. SchemaInv => TypeOK
  BY DEF SchemaInv
<1> QED
  BY <1>1, AlwaysInv, PTL

\* However register-table and reconcile-schema calls meet, a registered table
\* is missing from the catalog only while a call is about to post it again,
\* unless such a call has failed (reconciler.py:66-86).
THEOREM NoGapHolds == Spec => []NoGapAtRest
<1>1. SchemaInv => NoGapAtRest
  BY DEF SchemaInv
<1> QED
  BY <1>1, AlwaysInv, PTL

\* Whatever is registered Unity Catalog can be told, and it reads back as the
\* same type (uc.py:67-92, mapping.py:242-283).
THEOREM ReadBackHolds == Spec => []ReadBack
<1>1. TypeOK => ReadBack
  <2> SUFFICES ASSUME TypeOK, NEW c \in Columns, uc[c] # Absent
               PROVE  Registrable(uc[c]) /\ ReverseStable(uc[c])
    BY DEF ReadBack
  <2>1. PICK t \in PgTypes : Mappable(t) /\ uc[c] = DeltaOf(t)
    BY DEF TypeOK, UcSchemas, DeltaTypes
  <2>2. t \in Types /\ WellScaled(t)
    OBVIOUS
  <2> QED
    BY <2>1, <2>2, MappedIsRegistrable, MappedIsReverseStable
<1> QED
  BY <1>1, SchemaTypesCorrect, PTL

\* When reconcile-schema answers "in sync", the registration is that of the
\* columns it has read, unless its DELETE had no effect or another call has
\* registered the table before its POST; and the columns are the table's unless
\* that was altered (reconciler.py:50-112).
THEOREM TrueAnswerHolds == Spec => TrueAnswer
<1>1. Init => Informed
  BY DEF Init, Informed, Knows, Calls
<1>2. TypeOK /\ Informed /\ [Next]_vars
        => [\A r \in Reconcilers : AnswersInSync(r) =>
              /\ \/ uc' = Mapped(pgCols[r])
                 \/ {"registered", "stayed"} \cap met[r] # {}
              /\ pgCols[r] = pg \/ "altered" \in met[r]]_vars
  BY AnswerIsTrue
<1> QED
  BY <1>1, <1>2, StepInformed, SchemaTypesCorrect, PTL DEF Spec, TrueAnswer
=============================================================================
