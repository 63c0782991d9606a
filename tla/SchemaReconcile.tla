---------------------------- MODULE SchemaReconcile ----------------------------
(***************************************************************************)
(* The catalog's picture of one Postgres table.  The control plane         *)
(* registers the table in Unity Catalog (register_table), the sync         *)
(* service's reconcile-schema endpoint compares the registration with the  *)
(* table and replaces it when they differ.  Catalog tables cannot be       *)
(* altered, so it is deleted and posted anew.                              *)
(*                                                                         *)
(* Every call is a request of its own and nothing serialises them.  Each   *)
(* action is one query or one HTTP call; the table may be altered between  *)
(* any two of them.                                                        *)
(***************************************************************************)
EXTENDS Naturals, FiniteSets, TypeMapping

CONSTANTS
    Columns,      \* names of columns
    PgTypes,      \* Postgres types
    Reconcilers,  \* reconcile-schema calls that can be in progress at a time
    Registrars,   \* register_table calls that can be in progress at a time
    Absent,       \* the table, or the registration, has no such column
    MaxAlters,    \* bound: ALTER, CREATE and DROP TABLE
    MaxErrors     \* bound: failed calls

Calls == Reconcilers \cup Registrars

DeltaTypes == {DeltaOf(t) : t \in {u \in PgTypes : Mappable(u)}}

ASSUME SchemaAssumption ==
    /\ Reconcilers \cap Registrars = {}
    /\ PgTypes \subseteq Types /\ \A t \in PgTypes : WellScaled(t)
    /\ Absent \notin PgTypes \cup DeltaTypes
    /\ MaxAlters \in Nat /\ MaxErrors \in Nat

VARIABLES
    pg,       \* the type of each column of the Postgres table
    uc,       \* the type of each column of the registration
    pc,       \* where each call is
    pgCols,   \* per call: the columns it has read from Postgres
    met,      \* history, per reconcile-schema call: what it has met (below)
    known,    \* history: registered, and not lost to a call that failed
    alters,   \* changes of the table so far
    errors    \* failed calls so far

vars == <<pg, uc, pc, pgCols, met, known, alters, errors>>

\* The table was altered behind its read; another call changed the registration
\* between its DELETE and its POST; the DELETE left the registration where it
\* was; a call of its own failed and ended it.
Encounters == {"altered", "registered", "stayed", "failed"}

PgSchemas == [Columns -> PgTypes \cup {Absent}]

UcSchemas == [Columns -> DeltaTypes \cup {Absent}]

\* No table: _introspect_table() and _pg_columns() find no column.
NoTable == [c \in Columns |-> Absent]

\* Does the type engine know a Delta type for every column?
AllMappable(schema) == \A c \in Columns : schema[c] # Absent => Mappable(schema[c])

\* The schema as a registration has it: uc_column() for every column.
Mapped(schema) ==
    [c \in Columns |-> IF schema[c] = Absent THEN Absent ELSE DeltaOf(schema[c])]

Init ==
    /\ pg \in PgSchemas
    /\ uc = NoTable
    /\ pc = [x \in Calls |-> "idle"]
    /\ pgCols = [x \in Calls |-> NoTable]
    /\ met = [r \in Reconcilers |-> {}]
    /\ known = FALSE
    /\ alters = 0
    /\ errors = 0

Error == errors < MaxErrors /\ errors' = errors + 1

Goto(x, from, to) == pc[x] = from /\ pc' = [pc EXCEPT ![x] = to]

\* Mutant of End: the columns read are kept for the next call.
EndKeeps(x) ==
    /\ pc' = [pc EXCEPT ![x] = "idle"]
    /\ UNCHANGED pgCols

\* The call ends, its variables are gone.
End(x) ==
    /\ pc' = [pc EXCEPT ![x] = "idle"]
    /\ pgCols' = [pgCols EXCEPT ![x] = NoTable]

\* A step of x: what befalls x itself, and the reconcile-schema calls that are
\* about to post when it changes the registration.
Tell(x, befalls) ==
    met' = [r \in Reconcilers |->
               met[r] \cup (IF r = x THEN befalls
                            ELSE IF uc' # uc /\ pc[r] = "post" THEN {"registered"}
                            ELSE {})]

-----------------------------------------------------------------------------
(* Surroundings                                                            *)

\* CREATE TABLE, or a column is added, dropped, or gets another type.
AlterColumn(c, type) ==
    /\ alters < MaxAlters
    /\ pg[c] # type
    /\ pg' = [pg EXCEPT ![c] = type]
    /\ alters' = alters + 1
    /\ met' = [r \in Reconcilers |->
                  IF pc[r] \in {"compare", "drop", "post"}
                    THEN met[r] \cup {"altered"} ELSE met[r]]
    /\ UNCHANGED <<uc, pc, pgCols, known, errors>>

Call(x) ==
    /\ Goto(x, "idle", "introspect")
    /\ met' = [r \in Reconcilers |-> IF r = x THEN {} ELSE met[r]]
    /\ UNCHANGED <<pg, uc, pgCols, known, alters, errors>>

-----------------------------------------------------------------------------
(* Both calls                                                              *)

\* The columns are read; a call for a table that is not there is refused, and
\* the registration of one with a column of a type without a mapping.
Introspect(x, next) ==
    /\ pc[x] = "introspect"
    /\ IF pg = NoTable \/ (x \in Registrars /\ ~AllMappable(pg))
         THEN End(x)
         ELSE /\ pgCols' = [pgCols EXCEPT ![x] = pg]
              /\ pc' = [pc EXCEPT ![x] = next]
    /\ UNCHANGED <<pg, uc, met, known, alters, errors>>

\* POST .../tables: 200, or 409 when the table is registered, which changes
\* nothing and is as good as 200 to both services.
Create(x) ==
    /\ IF uc = NoTable
         THEN uc' = Mapped(pgCols[x]) /\ known' = TRUE
         ELSE UNCHANGED <<uc, known>>
    /\ Tell(x, {})

\* A call to the catalog or the database fails, with or without an effect on
\* the catalog, and the request ends with an error.
Fails(x) ==
    /\ pc[x] # "idle"
    /\ Error
    /\ \/ UNCHANGED uc
       \/ pc[x] = "drop" /\ uc' = NoTable
       \/ pc[x] = "post" /\ uc = NoTable /\ uc' = Mapped(pgCols[x])
    /\ known' = IF x \in Reconcilers /\ pc[x] \in {"drop", "post"}
                  THEN uc' # NoTable
                  ELSE known \/ uc' # NoTable
    /\ Tell(x, {"failed"})
    /\ End(x)
    /\ UNCHANGED <<pg, alters>>

-----------------------------------------------------------------------------
(* register_table()                                                        *)

Register(g) ==
    /\ pc[g] = "post"
    /\ Create(g)
    /\ End(g)
    /\ UNCHANGED <<pg, alters, errors>>

-----------------------------------------------------------------------------
(* reconcile_schema()                                                      *)

\* Mutant of Added: a table that is not registered lacks nothing.
AddedToRegistered(schema, target) ==
    {c \in Columns : target # NoTable /\ schema[c] # Absent /\ target[c] = Absent}

\* diff_schema(): what the registration lacks, has too much, or has with
\* another type than the type engine gives.  Without a registration
\* _uc_columns() is empty, and every column is lacking.
Added(schema, target) ==
    {c \in Columns : schema[c] # Absent /\ target[c] = Absent}

Removed(schema, target) ==
    {c \in Columns : schema[c] = Absent /\ target[c] # Absent}

TypeChanged(schema, target) ==
    {c \in Columns : /\ schema[c] # Absent /\ target[c] # Absent
                     /\ DeltaOf(schema[c]) # target[c]}

\* Mutant of InSync: dropped columns are not looked for.
InSyncKept(schema, target) ==
    Added(schema, target) \cup TypeChanged(schema, target) = {}

InSync(schema, target) ==
    Added(schema, target) \cup Removed(schema, target)
      \cup TypeChanged(schema, target) = {}

\* The registration is read and compared.  In sync: that is the answer.  A
\* column without a mapping is an error, before anything is dropped.
Compare(r) ==
    /\ pc[r] = "compare"
    /\ IF ~AllMappable(pgCols[r]) \/ InSync(pgCols[r], uc)
         THEN End(r)
         ELSE /\ pc' = [pc EXCEPT ![r] = "drop"]
              /\ UNCHANGED pgCols
    /\ UNCHANGED <<pg, uc, met, known, alters, errors>>

\* DELETE .../tables/...; its status is not looked at: the registration may
\* have stayed, and the call goes on.
Drop(r) ==
    /\ Goto(r, "drop", "post")
    /\ \/ uc' = NoTable /\ Tell(r, {}) /\ UNCHANGED errors
       \/ uc # NoTable /\ Error /\ UNCHANGED uc /\ Tell(r, {"stayed"})
    /\ UNCHANGED <<pg, pgCols, known, alters>>

\* Mutant of Post: the new registration is not posted.
PostNothing(r) ==
    /\ pc[r] = "post"
    /\ End(r)
    /\ UNCHANGED <<pg, uc, known, met, alters, errors>>

\* The new registration is posted, and the table reported in sync.
Post(r) ==
    /\ pc[r] = "post"
    /\ Create(r)
    /\ End(r)
    /\ UNCHANGED <<pg, alters, errors>>

-----------------------------------------------------------------------------

Reconcile(r) == Introspect(r, "compare") \/ Compare(r) \/ Drop(r) \/ Post(r)

RegisterTable(g) == Introspect(g, "post") \/ Register(g)

Next ==
    \/ \E r \in Reconcilers : Call(r) \/ Reconcile(r)
    \/ \E g \in Registrars : Call(g) \/ RegisterTable(g)
    \/ \E x \in Calls : Fails(x)
    \/ \E c \in Columns, type \in PgTypes \cup {Absent} : AlterColumn(c, type)

Spec == Init /\ [][Next]_vars

\* A call of reconcile-schema gets on once it is made.  (Nothing in the platform
\* makes one by itself, and nothing here assumes that one is made.)
FairSpec == Spec /\ \A r \in Reconcilers : WF_vars(Reconcile(r))

-----------------------------------------------------------------------------
(* Properties.                                                             *)

TypeOK ==
    /\ pg \in PgSchemas
    /\ uc \in UcSchemas
    /\ pc \in [Calls -> {"idle", "introspect", "compare", "drop", "post"}]
    /\ \A x \in Calls : pc[x] \in {"compare", "drop"} => x \in Reconcilers
    /\ pgCols \in [Calls -> PgSchemas]
    /\ \A x \in Calls : pc[x] \in {"idle", "introspect"} <=> pgCols[x] = NoTable
    /\ met \in [Reconcilers -> SUBSET Encounters]
    /\ known \in BOOLEAN
    /\ alters \in 0..MaxAlters
    /\ errors \in 0..MaxErrors

\* A registered table is missing from the catalog only while a call that will
\* post it again is under way, unless such a call has failed.
NoGapAtRest ==
    known /\ uc = NoTable => \E r \in Reconcilers : pc[r] = "post"

\* The answer "in sync".
AnswersInSync(r) ==
    \/ Compare(r) /\ AllMappable(pgCols[r]) /\ pc'[r] = "idle"
    \/ Post(r)

\* The answer is true of the columns the call has read, and these are the
\* table's unless it was altered since.  (In two cases the code says "in sync"
\* of a registration it has not compared.  Its own DELETE fails, which nobody
\* looks at (reconciler.py:83), so the POST is answered 409, which counts as
\* success (85): the old registration stays and the state is IN_SYNC (105).  Or
\* another call has registered the table in between, from columns of its own.)
TrueAnswer ==
    [][\A r \in Reconcilers : AnswersInSync(r) =>
          /\ \/ uc' = Mapped(pgCols[r])
             \/ {"registered", "stayed"} \cap met[r] # {}
          /\ pgCols[r] = pg \/ "altered" \in met[r]]_vars

\* One call mends whatever failed and overlapping calls have left behind, no
\* registration or a wrong one: it ends with the registration of the table,
\* unless there is no table or no mapping for a column, or it meets one of the
\* encounters itself.
OneCallMends ==
    \A r \in Reconcilers :
        pc[r] = "introspect" ~>
            /\ pc[r] = "idle"
            /\ pg = NoTable \/ ~AllMappable(pg) \/ uc = Mapped(pg) \/ met[r] # {}

\* Every registered column has a type that Unity Catalog can be told, and that
\* gives the same type again when a Postgres column is rebuilt from it.
ReadBack ==
    \A c \in Columns : uc[c] # Absent => Registrable(uc[c]) /\ ReverseStable(uc[c])
=============================================================================
