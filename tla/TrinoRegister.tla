----------------------------- MODULE TrinoRegister -----------------------------
(***************************************************************************)
(* trino-init (src/services/trino-init): one worker that, every 30         *)
(* seconds, lists the Delta tables of the bucket, registers each in        *)
(* Trino's catalog and unregisters the ones whose data has gone.           *)
(*                                                                         *)
(* The catalog is read and written statement by statement from a listing   *)
(* made once, while sinks, users and Trino itself go on.  A table may lie  *)
(* in the project's directory itself or deeper than directly below it: it  *)
(* is registered under the joined names of its directories, but looked for *)
(* below the project when stale registrations are removed.                 *)
(***************************************************************************)
EXTENDS Naturals, Sequences, FiniteSets, SequencesExt

CONSTANTS
    Order,       \* all places for Delta tables, in the order of their keys
    OddProjects, \* projects whose names are no identifiers of SQL
    Missing,     \* no registration
    MaxChanges,  \* bound: changes of the lakehouse and the catalog by others
    MaxFaults    \* bound: cycles that are cut short by a failing system

\* A place is a project and a path of directory names; a name is a sequence
\* of words, joined by "_", so that a/b and a_b have the same table name.
Places == Range(Order)

\* _split()
Table(place) ==
    IF place.path = <<>> THEN <<place.project>> ELSE FlattenSeq(place.path)

NameOf(place) == [project |-> place.project, table |-> Table(place)]

\* The one place where reconcile() looks for the data of a registration.
PlaceOf(name) == [project |-> name.project, path |-> <<name.table>>]

Names == {NameOf(place) : place \in Places}

Projects == {place.project : place \in Places}

ASSUME RegisterAssumption ==
    /\ Order \in Seq(Places) /\ IsInjective(Order)
    /\ Missing \notin Places
    /\ OddProjects \subseteq Projects
    /\ MaxChanges \in Nat /\ MaxFaults \in Nat

VARIABLES
    delta,     \* the places that hold a Delta table
    schemas,   \* the projects that have a schema in Trino's catalog
    catalog,   \* the place each name is registered for
    pc,        \* where the worker is in cycle()
    listing,   \* the places it has listed
    todo,      \* the listed places still to register
    ensured,   \* the projects whose schemas it has ensured: schemas_done
    left,      \* the schemas still to reconcile
    tables,    \* the names of the current one still to look at
    calm,      \* history: since the listing nobody changed anything
    changes,   \* changes by others so far
    faults     \* failures so far

worker == <<pc, listing, todo, ensured, left, tables>>
truth  == <<delta, schemas, catalog>>
vars   == <<delta, schemas, catalog, pc, listing, todo, ensured, left, tables,
            calm, changes, faults>>

RegisteredIn(project) ==
    {name \in Names : name.project = project /\ catalog[name] # Missing}

Init ==
    /\ delta = {} /\ schemas = {}
    /\ catalog = [name \in Names |-> Missing]
    /\ pc = "sleeping"
    /\ listing = {} /\ todo = {} /\ ensured = {} /\ left = {} /\ tables = {}
    /\ calm = FALSE
    /\ changes = 0 /\ faults = 0

-----------------------------------------------------------------------------
(* Surroundings: sinks and users, and Trino                                *)

Change ==
    /\ changes < MaxChanges
    /\ changes' = changes + 1
    /\ calm' = FALSE
    /\ UNCHANGED <<worker, faults>>

\* The first commit of a table by a sink or another engine.
TableAppears(place) ==
    /\ Change
    /\ place \notin delta
    /\ delta' = delta \cup {place}
    /\ UNCHANGED <<schemas, catalog>>

\* A table's objects are removed from the bucket.
TableVanishes(place) ==
    /\ Change
    /\ place \in delta
    /\ delta' = delta \ {place}
    /\ UNCHANGED <<schemas, catalog>>

\* scripts/make_inbox.sh, and users: CREATE SCHEMA
CreateSchemaInTrino(project) ==
    /\ Change
    /\ project \notin OddProjects
    /\ schemas' = schemas \cup {project}
    /\ UNCHANGED <<delta, catalog>>

\* DROP TABLE: the data of a table with a location of its own goes or stays.
DropInTrino(name) ==
    /\ Change
    /\ catalog[name] # Missing
    /\ catalog' = [catalog EXCEPT ![name] = Missing]
    /\ delta' \in {delta, delta \ {catalog[name]}}
    /\ UNCHANGED schemas

\* CREATE TABLE: registration and data, where there is neither.
CreateInTrino(place) ==
    /\ Change
    /\ place = PlaceOf(NameOf(place)) /\ place.project \in schemas
    /\ place \notin delta /\ catalog[NameOf(place)] = Missing
    /\ delta' = delta \cup {place}
    /\ catalog' = [catalog EXCEPT ![NameOf(place)] = place]
    /\ UNCHANGED schemas

\* Trino comes back without its metastore.
TrinoForgets ==
    /\ Change
    /\ schemas' = {}
    /\ catalog' = [name \in Names |-> Missing]
    /\ UNCHANGED delta

-----------------------------------------------------------------------------
(* cycle()                                                                 *)

\* Mutant of Sleep: the places still to register are kept.
SleepWithTodo ==
    /\ pc' = "sleeping"
    /\ listing' = {} /\ left' = {} /\ tables' = {} /\ UNCHANGED todo

\* The cycle is over; what it has listed is forgotten.
Sleep ==
    /\ pc' = "sleeping"
    /\ listing' = {} /\ todo' = {} /\ left' = {} /\ tables' = {}

\* Mutant of NoneEnsured: schemas_done outlives the cycle.
StillEnsured == ensured

NoneEnsured == {}

\* discover_tables()
List ==
    /\ pc = "sleeping"
    /\ pc' = "registering"
    /\ listing' = delta
    /\ todo' = delta
    /\ ensured' = NoneEnsured
    /\ calm' = TRUE
    /\ UNCHANGED <<truth, left, tables, changes, faults>>

\* The places are gone through in the order of their keys.
First == Order[Min({i \in DOMAIN Order : Order[i] \in todo})]

EnsureSchema ==
    /\ pc = "registering" /\ todo # {}
    /\ LET project == First.project
       IN  /\ project \notin ensured \cup OddProjects
           /\ schemas' = schemas \cup {project}
           /\ ensured' = ensured \cup {project}
    /\ UNCHANGED <<delta, catalog, pc, listing, todo, left, tables, calm,
                   changes, faults>>

\* CREATE SCHEMA is a syntax error, which nothing catches before main().
SchemaRefused ==
    /\ pc = "registering" /\ todo # {}
    /\ First.project \in OddProjects
    /\ Sleep
    /\ UNCHANGED <<truth, ensured, calm, changes, faults>>

\* register_table() refuses a name that is taken and a place without data.
Registrable(place) ==
    /\ catalog[NameOf(place)] = Missing
    /\ place.project \in schemas
    /\ place \in delta

Register ==
    /\ pc = "registering" /\ todo # {}
    /\ First.project \in ensured
    /\ LET place == First
       IN  catalog' = IF Registrable(place)
                        THEN [catalog EXCEPT ![NameOf(place)] = place]
                        ELSE catalog
    /\ todo' = todo \ {First}
    /\ UNCHANGED <<delta, schemas, pc, listing, ensured, left, tables, calm,
                   changes, faults>>

\* Mutant of ToReconcile: only the schemas of listed tables.
ToReconcileListed == {place.project : place \in listing} \cap schemas

ToReconcile == schemas

\* reconcile(): SHOW SCHEMAS
ShowSchemas ==
    /\ pc = "registering" /\ todo = {}
    /\ pc' = "reconciling"
    /\ left' = ToReconcile
    /\ UNCHANGED <<truth, listing, todo, ensured, tables, calm, changes, faults>>

Current == CHOOSE project \in left : TRUE

ShowTables ==
    /\ pc = "reconciling" /\ left # {} /\ Current \in schemas
    /\ pc' = "unregistering"
    /\ tables' = RegisteredIn(Current)
    /\ UNCHANGED <<truth, listing, todo, ensured, left, calm, changes, faults>>

\* SHOW TABLES of a schema that has gone raises, before or after the
\* unregistering; nothing catches it before main().
SchemaGone ==
    /\ \/ pc = "reconciling" /\ left # {}
       \/ pc = "unregistering" /\ tables = {}
    /\ Current \notin schemas
    /\ Sleep
    /\ UNCHANGED <<truth, ensured, calm, changes, faults>>

\* Mutant of Stale: proj_<project>/<table> is looked for, where nothing lies.
StaleWithPrefix(name) == TRUE

Stale(name) == PlaceOf(name) \notin listing

Unregister(name) ==
    /\ pc = "unregistering" /\ name \in tables
    /\ catalog' = [catalog EXCEPT ![name] = IF Stale(name) THEN Missing ELSE @]
    /\ tables' = tables \ {name}
    /\ UNCHANGED <<delta, schemas, pc, listing, todo, ensured, left, calm,
                   changes, faults>>

NextSchema ==
    /\ pc' = "reconciling"
    /\ left' = left \ {Current}

\* Are there still tables in the schema?
ShowTablesAgain ==
    /\ pc = "unregistering" /\ tables = {} /\ Current \in schemas
    /\ IF RegisteredIn(Current) = {}
         THEN pc' = "dropping" /\ UNCHANGED left
         ELSE NextSchema
    /\ UNCHANGED <<truth, listing, todo, ensured, tables, calm, changes, faults>>

\* DROP SCHEMA: refused when a table has come, or the schema gone, meanwhile.
DropSchema ==
    /\ pc = "dropping"
    /\ schemas' = IF RegisteredIn(Current) = {} THEN schemas \ {Current} ELSE schemas
    /\ NextSchema
    /\ UNCHANGED <<delta, catalog, listing, todo, ensured, tables, calm, changes,
                   faults>>

EndCycle ==
    /\ pc = "reconciling" /\ left = {}
    /\ Sleep
    /\ UNCHANGED <<truth, ensured, calm, changes, faults>>

\* The bucket or Trino is out of reach, or the worker is restarted.
CutShort ==
    /\ pc # "sleeping"
    /\ faults < MaxFaults
    /\ faults' = faults + 1
    /\ Sleep
    /\ UNCHANGED <<truth, ensured, calm, changes>>

Work ==
    \/ List \/ EnsureSchema \/ SchemaRefused \/ Register
    \/ ShowSchemas \/ ShowTables \/ SchemaGone
    \/ \E name \in Names : Unregister(name)
    \/ ShowTablesAgain \/ DropSchema \/ EndCycle

Next ==
    \/ Work
    \/ CutShort
    \/ \E place \in Places :
          TableAppears(place) \/ TableVanishes(place) \/ CreateInTrino(place)
    \/ \E project \in Projects : CreateSchemaInTrino(project)
    \/ \E name \in Names : DropInTrino(name)
    \/ TrinoForgets

Spec == Init /\ [][Next]_vars

\* The worker runs one cycle after the other, for ever.
FairSpec == Spec /\ WF_vars(Work)

-----------------------------------------------------------------------------
(* Properties.                                                             *)

\* What is registered lies where its name says, in a schema there is.
TypeOK ==
    /\ delta \subseteq Places /\ listing \subseteq Places
    /\ schemas \subseteq Projects /\ ensured \subseteq Projects
    /\ left \subseteq Projects
    /\ catalog \in [Names -> Places \cup {Missing}]
    /\ \A name \in Names : catalog[name] # Missing =>
          NameOf(catalog[name]) = name /\ name.project \in schemas
    /\ pc \in {"sleeping", "registering", "reconciling", "unregistering", "dropping"}
    /\ todo \subseteq listing
    /\ tables \subseteq Names
    /\ calm \in BOOLEAN
    /\ changes \in 0..MaxChanges /\ faults \in 0..MaxFaults

\* The places a registration is kept for: <project>/<table>.
Direct == {place \in Places : PlaceOf(NameOf(place)) = place}

\* Two places have the name, as lake/a/b and lake/a_b have proj_lake.a_b.
Ambiguous(name) ==
    \E place, other \in Places :
        place # other /\ NameOf(place) = name /\ NameOf(other) = name

\* What the code makes of "Trino's view always matches ground truth"
\* (register.py:101-103): exactly the tables directly below their projects are
\* registered, at their own places unless the name is ambiguous.
InSync ==
    /\ {name \in Names : catalog[name] # Missing} = {NameOf(p) : p \in delta \cap Direct}
    /\ schemas = {p.project : p \in delta \cap Direct}
    /\ \A p \in delta \cap Direct : catalog[NameOf(p)] = p \/ Ambiguous(NameOf(p))

\* A cycle that runs to its end while nobody changes anything leaves a
\* catalog that matches the bucket as InSync says, whatever it looked like
\* before.  What InSync does not say the code does not keep.  An ambiguous name
\* may stay with the deeper table, although that has gone: the table directly
\* below the project "already exists" for register() (:95), and its place is
\* where reconcile() looks (:113) - against :11-12 and :101-103.  And a deeper
\* table is unregistered in the cycle that has registered it, against "registers
\* any it finds" (:5-7).
CycleSyncs == [][EndCycle /\ calm => InSync']_vars

\* A project with an odd name that comes first in the listing keeps the
\* worker from registering a table.
Blocked(place) ==
    \E i, j \in DOMAIN Order :
        /\ i < j /\ Order[j] = place
        /\ Order[i].project \in OddProjects /\ Order[i] \in delta

\* Every table directly below its project stays visible from some time on,
\* whatever stale listings have done to it and whenever Trino has forgotten
\* it, unless a project with an odd name is listed before it.  When its name is
\* ambiguous only the name stays, and may show the other table.
EventuallyVisible ==
    \A place \in Direct :
        LET name == NameOf(place)
        IN  place.project \notin OddProjects =>
               <>[](place \in delta /\ ~Blocked(place) =>
                       IF Ambiguous(name) THEN catalog[name] # Missing
                                          ELSE catalog[name] = place)

\* Every registration without data disappears, unless a project with an odd
\* name keeps the worker from coming to it, or the name is ambiguous and the
\* place looked at has data, though not the data registered.  The registration
\* of a deeper table comes back in each cycle, to disappear again.
EventuallyGone ==
    \A name \in Names :
        []<>(\/ \E place \in delta : place.project \in OddProjects
             \/ catalog[name] = Missing
             \/ PlaceOf(name) \in delta /\ (catalog[name] \in delta \/ Ambiguous(name)))
=============================================================================
