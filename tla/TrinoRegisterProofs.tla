-------------------------- MODULE TrinoRegisterProofs --------------------------
(***************************************************************************)
(* Proofs about TrinoRegister: what is registered lies where its name      *)
(* says, and a cycle that nobody disturbs leaves a catalog that matches    *)
(* the bucket, whatever the places, their names and the bounds.            *)
(***************************************************************************)
EXTENDS TrinoRegister, WellFoundedInduction, TLAPS

USE RegisterAssumption

-----------------------------------------------------------------------------
(* Names and places.                                                       *)

LEMMA FlattenOne ==
    ASSUME NEW t
    PROVE  FlattenSeq(<<t>>) = t
<1> DEFINE flat(f) ==
             [i \in 1..Len(<<t>>) |-> IF i = 1 THEN <<t>>[i] ELSE f[i - 1] \o <<t>>[i]]
<1>1. Len(<<t>>) = 1
  OBVIOUS
<1>2. FlattenSeq(<<t>>) = (CHOOSE f : f = flat(f))[1]
  BY <1>1 DEF FlattenSeq
<1>3. \E f : f = flat(f)
  <2>1. [i \in 1..1 |-> t] = flat([i \in 1..1 |-> t])
    BY <1>1
  <2> QED
    BY <2>1
<1>4. (CHOOSE f : f = flat(f)) = flat(CHOOSE f : f = flat(f))
  <2> DEFINE P(f) == f = flat(f)
  <2>1. \E f : P(f)
    BY <1>3
  <2> HIDE DEF P
  <2>2. P(CHOOSE f : P(f))
    BY <2>1
  <2> QED
    BY <2>2 DEF P
<1> QED
  BY <1>1, <1>2, <1>4

\* The place looked at for a name would be registered under that name.
LEMMA NameOfPlaceOf ==
    ASSUME NEW name \in Names
    PROVE  NameOf(PlaceOf(name)) = name
<1>1. PICK place \in Places : name = [project |-> place.project, table |-> Table(place)]
  BY DEF Names, NameOf
<1>2. /\ PlaceOf(name).project = name.project
      /\ PlaceOf(name).path = <<name.table>> /\ PlaceOf(name).path # <<>>
  BY DEF PlaceOf
<1>3. Table(PlaceOf(name)) = name.table
  BY <1>2, FlattenOne DEF Table
<1> QED
  BY <1>1, <1>2, <1>3 DEF NameOf

LEMMA NameTypes ==
    ASSUME NEW place \in Places
    PROVE  /\ NameOf(place) \in Names /\ NameOf(place).project = place.project
           /\ place.project \in Projects
BY DEF Names, NameOf, Projects

LEMMA NameProject == \A name \in Names : name.project \in Projects
<1> SUFFICES ASSUME NEW place \in Places PROVE NameOf(place).project \in Projects
  BY DEF Names
<1> QED
  BY NameTypes

\* The next place to register is one of those still to register.
LEMMA FirstIsNext ==
    ASSUME todo \subseteq Places, todo # {}
    PROVE  First \in todo
<1> DEFINE S == {i \in DOMAIN Order : Order[i] \in todo}
           Less == OpToRel(<, Nat)
<1>1. S \subseteq Nat /\ S # {}
  <2>1. DOMAIN Order \subseteq Nat
    OBVIOUS
  <2>2. PICK place \in todo : TRUE
    OBVIOUS
  <2>3. \E i \in DOMAIN Order : Order[i] = place
    BY <2>2 DEF Places, Range
  <2> QED
    BY <2>1, <2>3
<1>2. PICK m \in S : \A i \in S : ~ (<<i, m>> \in Less)
  <2> HIDE DEF S
  <2>1. IsWellFoundedOn(Less, Nat)
    BY NatLessThanWellFounded
  <2> HIDE DEF Less
  <2> QED
    BY <1>1, <2>1, WFMin
<1>3. \A i \in S : m <= i
  <2> SUFFICES ASSUME NEW i \in S PROVE m <= i
    OBVIOUS
  <2> HIDE DEF S
  <2>1. i \in Nat /\ m \in Nat
    BY <1>1
  <2>2. ~ (i < m)
    BY <1>2, <2>1 DEF OpToRel
  <2> QED
    BY <2>1, <2>2
<1>4. Min(S) \in S
  <2> HIDE DEF S
  <2> QED
    BY <1>3 DEF Min
<1> QED
  BY <1>4 DEF First

-----------------------------------------------------------------------------
(* Types.                                                                  *)

LEMMA SleepType ==
    ASSUME TypeOK, Sleep, UNCHANGED <<truth, ensured, calm, changes>>,
           faults' \in 0..MaxFaults
    PROVE  TypeOK'
BY DEF TypeOK, Sleep, truth

LEMMA ChangeType ==
    ASSUME TypeOK, Change, delta' \subseteq Places, schemas' \subseteq Projects,
           catalog' \in [Names -> Places \cup {Missing}],
           \A name \in Names : catalog'[name] # Missing =>
              NameOf(catalog'[name]) = name /\ name.project \in schemas'
    PROVE  TypeOK'
<1>1. changes' \in 0..MaxChanges
  BY DEF TypeOK, Change
<1> QED
  BY <1>1 DEF TypeOK, Change, worker

LEMMA TypeStep == TypeOK /\ [Next]_vars => TypeOK'
<1> SUFFICES ASSUME TypeOK, [Next]_vars PROVE TypeOK'
  OBVIOUS
<1>1. ASSUME NEW place \in Places, TableAppears(place) \/ TableVanishes(place)
      PROVE  TypeOK'
  BY <1>1, ChangeType DEF TypeOK, TableAppears, TableVanishes
<1>2. ASSUME NEW place \in Places, CreateInTrino(place)
      PROVE  TypeOK'
  <2>1. NameOf(place) \in Names /\ NameOf(place).project = place.project
        /\ place.project \in Projects /\ place # Missing
    BY NameTypes
  <2>2. \A name \in Names :
           catalog'[name] = IF name = NameOf(place) THEN place ELSE catalog[name]
    BY <1>2 DEF CreateInTrino, TypeOK
  <2> QED
    BY <1>2, <2>1, <2>2, ChangeType DEF TypeOK, CreateInTrino
<1>3. ASSUME NEW name \in Names, DropInTrino(name)
      PROVE  TypeOK'
  <2>1. delta' \subseteq delta
    BY <1>3 DEF DropInTrino
  <2> QED
    BY <1>3, <2>1, ChangeType DEF TypeOK, DropInTrino
<1>4. CASE TrinoForgets \/ \E project \in Projects : CreateSchemaInTrino(project)
  BY <1>4, ChangeType DEF TypeOK, TrinoForgets, CreateSchemaInTrino
<1>5. CASE List
  BY <1>5 DEF List, TypeOK, truth, NoneEnsured
<1>6. CASE EnsureSchema
  <2>1. First \in Places
    BY <1>6, FirstIsNext DEF EnsureSchema, TypeOK
  <2>2. First.project \in Projects
    BY <2>1, NameTypes
  <2> QED
    BY <1>6, <2>2 DEF EnsureSchema, TypeOK
<1>7. CASE Register
  <2>1. First \in Places
    BY <1>7, FirstIsNext DEF Register, TypeOK
  <2>2. /\ NameOf(First) \in Names /\ NameOf(First).project = First.project
        /\ First # Missing
    BY <2>1, NameTypes
  <2>3. CASE Registrable(First)
    <3>1. \A name \in Names :
             catalog'[name] = IF name = NameOf(First) THEN First ELSE catalog[name]
      BY <1>7, <2>3 DEF Register, TypeOK
    <3>2. \A name \in Names : catalog'[name] # Missing =>
             NameOf(catalog'[name]) = name /\ name.project \in schemas
      BY <2>2, <2>3, <3>1 DEF TypeOK, Registrable
    <3>3. catalog' \in [Names -> Places \cup {Missing}]
      BY <1>7, <2>1, <2>3 DEF Register, TypeOK
    <3> QED
      BY <1>7, <3>2, <3>3 DEF Register, TypeOK
  <2>4. CASE ~ Registrable(First)
    BY <1>7, <2>4 DEF Register, TypeOK
  <2> QED
    BY <2>3, <2>4
<1>8. CASE ShowSchemas
  BY <1>8 DEF ShowSchemas, ToReconcile, TypeOK, truth
<1>9. CASE ShowTables
  BY <1>9 DEF ShowTables, RegisteredIn, TypeOK, truth
<1>10. ASSUME NEW name \in Names, Unregister(name)
      PROVE  TypeOK'
  <2>1. \A other \in Names : catalog'[other] # Missing => catalog'[other] = catalog[other]
    BY <1>10 DEF Unregister, TypeOK
  <2>2. catalog' \in [Names -> Places \cup {Missing}]
    BY <1>10 DEF Unregister, TypeOK
  <2> QED
    BY <1>10, <2>1, <2>2 DEF Unregister, TypeOK
<1>11. CASE ShowTablesAgain
  BY <1>11 DEF ShowTablesAgain, NextSchema, TypeOK, truth
<1>12. CASE DropSchema
  <2>1. \A name \in Names : catalog[name] # Missing => name.project \in schemas'
    BY <1>12 DEF DropSchema, RegisteredIn, TypeOK
  <2> QED
    BY <1>12, <2>1 DEF DropSchema, NextSchema, TypeOK
<1>13. CASE SchemaRefused \/ SchemaGone \/ EndCycle
  BY <1>13, SleepType DEF SchemaRefused, SchemaGone, EndCycle, TypeOK
<1>14. CASE CutShort
  BY <1>14, SleepType DEF CutShort, TypeOK
<1>15. CASE UNCHANGED vars
  BY <1>15 DEF vars, TypeOK
<1> QED
  BY <1>1, <1>2, <1>3, <1>4, <1>5, <1>6, <1>7, <1>8, <1>9, <1>10, <1>11, <1>12,
     <1>13, <1>14, <1>15 DEF Next, Work

\* What is registered lies where its name says, in a schema that there is: the
\* worker drops no schema with a registration in it (register.py:124-131), and
\* Trino's catalog is only ever written under the name of a place.
THEOREM TypeCorrect == Spec => []TypeOK
<1>1. Init => TypeOK
  <2> SUFFICES ASSUME Init PROVE TypeOK
    OBVIOUS
  <2>1. \A name \in Names : catalog[name] = Missing
    BY DEF Init
  <2>2. catalog \in [Names -> Places \cup {Missing}]
    BY DEF Init
  <2>3. 0 \in 0 .. MaxChanges /\ 0 \in 0 .. MaxFaults
    BY RegisterAssumption
  <2> HIDE DEF Names, Places
  <2> QED
    BY <2>1, <2>2, <2>3 DEF Init, TypeOK
<1> QED
  BY <1>1, TypeStep, PTL DEF Spec

-----------------------------------------------------------------------------
(* A cycle that nobody disturbs.                                           *)

\* Nothing is left to do for the project: a table is registered in its schema,
\* and the data of all that are is where reconcile() looks for it.
Clean(project) ==
    /\ RegisteredIn(project) # {}
    /\ \A name \in RegisteredIn(project) : PlaceOf(name) \in listing

\* While it registers, every listed place is still to come or its name taken.
Registering ==
    /\ ensured \subseteq schemas
    /\ \A place \in listing : place \in todo \/ catalog[NameOf(place)] # Missing

\* While it reconciles, no listed table has been unregistered, and the schemas
\* that are done are clean.
Reconciling ==
    /\ left \subseteq schemas
    /\ \A place \in listing \cap Direct : catalog[NameOf(place)] # Missing
    /\ \A project \in schemas \ left : Clean(project)

\* While it drops the current one, there is nothing in it.
Dropping == left # {} /\ RegisteredIn(Current) = {}

\* While it looks at one of them, so are the tables it has looked at.
Unregistering ==
    /\ left # {}
    /\ \A name \in tables : name.project = Current
    /\ \A name \in RegisteredIn(Current) \ tables : PlaceOf(name) \in listing

CycleInv ==
    calm /\ pc # "sleeping" =>
        /\ listing = delta
        /\ pc = "registering" => Registering
        /\ pc \in {"reconciling", "unregistering", "dropping"} => Reconciling
        /\ pc = "unregistering" => Unregistering
        /\ pc = "dropping" => Dropping

LEMMA RegisterCycle ==
    ASSUME TypeOK, CycleInv, Register
    PROVE  CycleInv'
<1> SUFFICES ASSUME calm PROVE CycleInv'
  BY DEF CycleInv, Register
<1>1. /\ listing = delta /\ Registering /\ First \in todo /\ First \in Places
      /\ pc' = "registering"
  BY FirstIsNext DEF Register, CycleInv, TypeOK
<1>2. NameOf(First) \in Names
  BY <1>1, NameTypes
<1>3. catalog'[NameOf(First)] # Missing
  <2>1. First \in delta /\ First.project \in schemas
    BY <1>1 DEF TypeOK, Register, Registering
  <2> QED
    BY <1>1, <1>2, <2>1 DEF Register, Registrable, TypeOK
<1>4. \A name \in Names : catalog[name] # Missing => catalog'[name] # Missing
  BY <1>1, <1>2, <1>3 DEF Register, TypeOK
<1>5. Registering'
  <2> SUFFICES ASSUME NEW place \in listing
               PROVE  place \in todo' \/ catalog'[NameOf(place)] # Missing
    BY <1>1 DEF Registering, Register
  <2>1. NameOf(place) \in Names
    BY NameTypes DEF TypeOK
  <2> QED
    BY <1>1, <1>3, <1>4, <2>1 DEF Register, Registering
<1> QED
  BY <1>1, <1>5 DEF CycleInv, Register

LEMMA UnregisterCycle ==
    ASSUME TypeOK, CycleInv, NEW name \in Names, Unregister(name)
    PROVE  CycleInv'
<1> SUFFICES ASSUME calm PROVE CycleInv'
  BY DEF CycleInv, Unregister
<1>1. listing = delta /\ Reconciling /\ Unregistering /\ pc' = "unregistering"
  BY DEF Unregister, CycleInv
<1>2. \A other \in Names :
         catalog'[other] = IF other = name /\ Stale(name) THEN Missing ELSE catalog[other]
  BY DEF Unregister, TypeOK
<1>3. name.project = Current
  BY <1>1 DEF Unregistering, Unregister
<1>4. Current' = Current
  BY DEF Current, Unregister
<1>5. \A project : project # Current => RegisteredIn(project)' = RegisteredIn(project)
  BY <1>2, <1>3 DEF RegisteredIn
<1>6. RegisteredIn(Current)' \subseteq RegisteredIn(Current)
  BY <1>2, <1>4 DEF RegisteredIn
<1>7. Reconciling'
  <2>1. \A place \in listing \cap Direct : catalog'[NameOf(place)] # Missing
    <3> SUFFICES ASSUME NEW place \in listing \cap Direct
                 PROVE  catalog'[NameOf(place)] # Missing
      OBVIOUS
    <3>1. NameOf(place) \in Names /\ catalog[NameOf(place)] # Missing
      BY <1>1, NameTypes DEF Reconciling, TypeOK
    <3>2. PlaceOf(NameOf(place)) \in listing
      BY DEF Direct
    <3> QED
      BY <1>2, <3>1, <3>2 DEF Stale
  <2>2. ASSUME NEW project \in schemas \ left
        PROVE  Clean(project)'
    <3>1. project # Current
      BY <1>1, <2>2 DEF Unregistering, Current
    <3>2. Clean(project)
      BY <1>1, <2>2 DEF Reconciling
    <3> QED
      BY <1>5, <3>1, <3>2 DEF Clean, Unregister
  <2> QED
    BY <1>1, <2>1, <2>2 DEF Reconciling, Unregister
<1>8. Unregistering'
  <2> SUFFICES ASSUME NEW other \in RegisteredIn(Current)', other \notin tables'
               PROVE  PlaceOf(other) \in listing
    BY <1>1, <1>4 DEF Unregistering, Unregister
  <2>1. other \in Names /\ catalog'[other] # Missing
    BY DEF RegisteredIn
  <2>2. CASE other = name
    BY <1>2, <2>1, <2>2 DEF Stale
  <2>3. CASE other # name
    BY <1>1, <1>6, <2>3 DEF Unregistering, Unregister
  <2> QED
    BY <2>2, <2>3
<1> QED
  BY <1>1, <1>7, <1>8 DEF CycleInv, Unregister

LEMMA ShowAgainCycle ==
    ASSUME TypeOK, CycleInv, ShowTablesAgain
    PROVE  CycleInv'
<1> SUFFICES ASSUME calm PROVE CycleInv'
  BY DEF CycleInv, ShowTablesAgain
<1>1. listing = delta /\ Reconciling /\ Unregistering /\ tables = {}
  BY DEF ShowTablesAgain, CycleInv
<1>2. \A project : RegisteredIn(project)' = RegisteredIn(project)
  BY DEF RegisteredIn, ShowTablesAgain, truth
<1>3. \A project : Clean(project)' = Clean(project)
  BY <1>2 DEF Clean, ShowTablesAgain
<1>4. UNCHANGED <<delta, schemas, catalog, listing>>
  BY DEF ShowTablesAgain, truth
<1>5. CASE RegisteredIn(Current) = {}
  <2>1. pc' = "dropping" /\ left' = left /\ Current' = Current
    BY <1>5 DEF ShowTablesAgain, Current
  <2>2. Dropping'
    BY <1>1, <1>2, <1>5, <2>1 DEF Unregistering, Dropping
  <2>3. Reconciling'
    BY <1>1, <1>3, <1>4, <2>1 DEF Reconciling
  <2> QED
    BY <1>1, <1>4, <2>1, <2>2, <2>3 DEF CycleInv
<1>6. CASE RegisteredIn(Current) # {}
  <2>1. pc' = "reconciling" /\ left' = left \ {Current}
    BY <1>6 DEF ShowTablesAgain, NextSchema
  <2>2. Clean(Current)
    BY <1>1, <1>6 DEF Unregistering, Clean
  <2>3. \A project \in schemas \ left' : Clean(project)
    BY <1>1, <2>1, <2>2 DEF Reconciling
  <2>4. Reconciling'
    BY <1>1, <1>3, <1>4, <2>1, <2>3 DEF Reconciling
  <2> QED
    BY <1>1, <1>4, <2>1, <2>4 DEF CycleInv
<1> QED
  BY <1>5, <1>6

LEMMA DropCycle ==
    ASSUME TypeOK, CycleInv, DropSchema
    PROVE  CycleInv'
<1> SUFFICES ASSUME calm PROVE CycleInv'
  BY DEF CycleInv, DropSchema
<1>1. listing = delta /\ Reconciling /\ Dropping /\ pc' = "reconciling"
      /\ schemas' = schemas \ {Current} /\ left' = left \ {Current}
  BY DEF DropSchema, NextSchema, CycleInv, Dropping
<1>2. \A project : RegisteredIn(project)' = RegisteredIn(project)
  BY DEF RegisteredIn, DropSchema
<1>3. \A project : Clean(project)' = Clean(project)
  BY <1>2 DEF Clean, DropSchema
<1>4. Reconciling'
  BY <1>1, <1>3 DEF Reconciling, DropSchema
<1> QED
  BY <1>1, <1>4 DEF CycleInv, DropSchema

LEMMA StepCycle == TypeOK /\ CycleInv /\ [Next]_vars => CycleInv'
<1> SUFFICES ASSUME TypeOK, CycleInv, [Next]_vars PROVE CycleInv'
  OBVIOUS
<1>1. CASE List
  BY <1>1 DEF List, CycleInv, Registering, NoneEnsured, truth
<1>2. CASE EnsureSchema
  BY <1>2 DEF EnsureSchema, CycleInv, Registering
<1>3. CASE Register
  BY <1>3, RegisterCycle
<1>4. CASE ShowSchemas
  BY <1>4 DEF ShowSchemas, CycleInv, Registering, Reconciling, ToReconcile, truth
<1>5. CASE ShowTables
  <2>1. /\ Current' = Current /\ RegisteredIn(Current)' = RegisteredIn(Current)
        /\ \A project : Clean(project)' = Clean(project)
    BY <1>5 DEF ShowTables, Current, RegisteredIn, Clean, truth
  <2> QED
    BY <1>5, <2>1 DEF ShowTables, CycleInv, Reconciling, Unregistering, RegisteredIn, truth
<1>6. ASSUME NEW name \in Names, Unregister(name)
      PROVE  CycleInv'
  BY <1>6, UnregisterCycle
<1>7. CASE ShowTablesAgain \/ DropSchema
  BY <1>7, ShowAgainCycle, DropCycle
<1>8. CASE SchemaRefused \/ SchemaGone \/ EndCycle \/ CutShort
  BY <1>8 DEF SchemaRefused, SchemaGone, EndCycle, CutShort, Sleep, CycleInv
<1>9. CASE Change
  BY <1>9 DEF Change, CycleInv
<1>10. CASE UNCHANGED vars
  <2>1. /\ Current' = Current /\ \A project : RegisteredIn(project)' = RegisteredIn(project)
        /\ \A project : Clean(project)' = Clean(project)
    BY <1>10 DEF vars, Current, RegisteredIn, Clean
  <2> QED
    BY <1>10, <2>1 DEF vars, CycleInv, Registering, Reconciling, Unregistering, Dropping
<1> QED
  BY <1>1, <1>2, <1>3, <1>4, <1>5, <1>6, <1>7, <1>8, <1>9, <1>10
     DEF Next, Work, TableAppears, TableVanishes, CreateSchemaInTrino,
         CreateInTrino, DropInTrino, TrinoForgets

\* At the end of such a cycle the catalog matches the bucket.
LEMMA EndInSync ==
    ASSUME TypeOK, CycleInv, EndCycle, calm
    PROVE  InSync'
<1>1. listing = delta /\ Reconciling /\ left = {}
  BY DEF EndCycle, CycleInv
<1>2. /\ UNCHANGED <<delta, schemas, catalog>>
  BY DEF EndCycle, truth
<1>3. ASSUME NEW name \in Names, catalog[name] # Missing
      PROVE  \E place \in delta \cap Direct :
                NameOf(place) = name /\ place.project = name.project
  <2>1. name.project \in schemas /\ name \in RegisteredIn(name.project)
    BY <1>3 DEF TypeOK, RegisteredIn
  <2>2. PlaceOf(name) \in delta
    BY <1>1, <2>1 DEF Reconciling, Clean
  <2>3. NameOf(PlaceOf(name)) = name
    BY NameOfPlaceOf
  <2>4. PlaceOf(name) \in Direct
    BY <2>2, <2>3 DEF Direct, TypeOK
  <2>5. PlaceOf(name).project = name.project
    BY DEF PlaceOf
  <2> QED
    BY <2>2, <2>3, <2>4, <2>5
<1>4. ASSUME NEW place \in delta \cap Direct
      PROVE  /\ NameOf(place) \in Names /\ catalog[NameOf(place)] # Missing
             /\ place.project \in schemas
  <2>1. NameOf(place) \in Names /\ NameOf(place).project = place.project
    BY NameTypes DEF TypeOK
  <2>2. catalog[NameOf(place)] # Missing
    BY <1>1 DEF Reconciling
  <2> QED
    BY <2>1, <2>2 DEF TypeOK
<1>5. {name \in Names : catalog[name] # Missing}
        = {NameOf(place) : place \in delta \cap Direct}
  BY <1>3, <1>4
<1>6. schemas = {place.project : place \in delta \cap Direct}
  <2>1. ASSUME NEW project \in schemas
        PROVE  \E place \in delta \cap Direct : place.project = project
    <3>1. PICK name \in RegisteredIn(project) : TRUE
      BY <1>1 DEF Reconciling, Clean
    <3>2. name \in Names /\ catalog[name] # Missing /\ name.project = project
      BY DEF RegisteredIn
    <3> QED
      BY <1>3, <3>2
  <2> QED
    BY <1>4, <2>1
<1>7. ASSUME NEW place \in delta \cap Direct
      PROVE  catalog[NameOf(place)] = place \/ Ambiguous(NameOf(place))
  <2>1. /\ place \in Places /\ NameOf(place) \in Names
        /\ catalog[NameOf(place)] # Missing
    BY <1>4, <1>7 DEF Direct
  <2>2. /\ catalog[NameOf(place)] \in Places
        /\ NameOf(catalog[NameOf(place)]) = NameOf(place)
    BY <2>1 DEF TypeOK
  <2> QED
    BY <2>1, <2>2 DEF Ambiguous
<1> QED
  BY <1>2, <1>5, <1>6, <1>7 DEF InSync

\* A cycle that runs to its end while nobody changes anything leaves a catalog
\* with exactly the names of the tables directly below their projects, each at
\* its table's place unless another place has the same name, and the schemas of
\* these, whatever it looked like before (register.py:101-132).
THEOREM CycleSyncsHolds == Spec => CycleSyncs
<1>1. Init => CycleInv
  BY DEF Init, CycleInv
<1>2. TypeOK /\ CycleInv => [EndCycle /\ calm => InSync']_vars
  BY EndInSync
<1> QED
  BY <1>1, <1>2, StepCycle, TypeCorrect, PTL DEF Spec, CycleSyncs
=============================================================================
