--------------------------- MODULE ProjectLifecycle ---------------------------
(***************************************************************************)
(* The control plane's create() and delete() of one project: a Postgres    *)
(* schema, a publication and a replication slot, a Unity Catalog catalog   *)
(* with its "cdc" schema, a Debezium connector, a row in the registry.     *)
(* None of them spans a transaction: each step is one call to one of the   *)
(* systems, and requests run in threads that nothing serialises.           *)
(*                                                                         *)
(* A request is the name of its next step and what it has come across.     *)
(* Effect says what each step does to the project's parts, Then and        *)
(* Otherwise where the request goes on when the step returns or raises.    *)
(***************************************************************************)
EXTENDS Naturals, FiniteSets

CONSTANTS
    Calls,      \* requests that can be in progress at a time
    MaxBegun,   \* bound: requests
    MaxTrouble, \* bound: steps that fail for no reason of the project's, and
                \* restarts of the control plane
    MaxKicks    \* attempts at an active slot, 10 in the code

ASSUME LifecycleAssumption ==
    /\ MaxBegun \in Nat /\ MaxTrouble \in Nat
    /\ MaxKicks \in Nat \ {0}

CreateSteps == {"ensure_registry", "create_schema", "create_catalog",
                "create_cdc", "find_publication", "create_publication",
                "create_connector", "persist"}

DeleteSteps == {"drop_connector", "drop_publication", "look_at_slot",
                "drop_slot", "drop_catalog", "drop_schema", "drop_row",
                "drop_ledger"}

Steps == CreateSteps \cup DeleteSteps

\* What a request came across: other requests; a create, a publication that
\* lost its schema; a delete, a slot that was active at every attempt, and one
\* that Debezium made anew when it was done with slots.
Encounters == {"create", "delete", "leftover", "exhausted", "late"}

VARIABLES
    parts,    \* the parts of the project that exist
    task,     \* a Debezium task of the project's connector is running
    call,     \* the requests
    begun,    \* requests so far
    faults,   \* injected failures so far
    crashes   \* restarts so far

vars == <<parts, task, call, begun, faults, crashes>>

Parts == [registry : BOOLEAN,    \* the table ztap_control.projects
          schema : BOOLEAN,      \* proj_<name>
          catalog : BOOLEAN,     \* ztap_<name>
          cdc : BOOLEAN,         \* its "cdc" schema
          pub : {"none", "covers", "empty"},  \* and whether it has the schema
          connector : BOOLEAN,
          slot : {"none", "inactive", "active"},
          row : BOOLEAN,         \* the project's row in the registry
          ledger : BOOLEAN]      \* its rows in ztap_control.sync_applied

Idle == [at |-> "idle", kicks |-> 0, met |-> {}, failed |-> {}]

Init ==
    /\ parts = [registry |-> FALSE, schema |-> FALSE, catalog |-> FALSE,
                cdc |-> FALSE, pub |-> "none", connector |-> FALSE,
                slot |-> "none", row |-> FALSE, ledger |-> FALSE]
    /\ task = FALSE
    /\ call = [c \in Calls |-> Idle]
    /\ begun = 0 /\ faults = 0 /\ crashes = 0

Running == {c \in Calls : call[c].at \in Steps}

-----------------------------------------------------------------------------
(* What the steps do                                                       *)

EnsureRegistry    == [parts EXCEPT !.registry = TRUE]
CreateSchema      == [parts EXCEPT !.schema = TRUE]
CreateCatalog     == [parts EXCEPT !.catalog = TRUE]
CreateCdc         == [parts EXCEPT !.cdc = TRUE]
\* Mutant of CreatePublication: for the tables there are, not the schema.
CreatePublicationFiltered == [parts EXCEPT !.pub = "empty"]
CreatePublication == [parts EXCEPT !.pub = "covers"]
CreateConnector   == [parts EXCEPT !.connector = TRUE]
Persist           == [parts EXCEPT !.row = TRUE]
DropConnector     == [parts EXCEPT !.connector = FALSE]
DropPublication   == [parts EXCEPT !.pub = "none"]
KickWalsender     == [parts EXCEPT !.slot = IF @ = "active" THEN "inactive" ELSE @]
DropSlot          == [parts EXCEPT !.slot = "none"]
DropCatalog       == [parts EXCEPT !.catalog = FALSE, !.cdc = FALSE]
\* A publication FOR TABLES IN SCHEMA outlives the schema, with nothing in it.
DropSchema        == [parts EXCEPT !.schema = FALSE,
                                   !.pub = IF @ = "covers" THEN "empty" ELSE @]
DropRow           == [parts EXCEPT !.row = FALSE]
DropLedger        == [parts EXCEPT !.ledger = FALSE]

Effect ==
    [ensure_registry    |-> EnsureRegistry,
     create_schema      |-> CreateSchema,
     create_catalog     |-> CreateCatalog,
     create_cdc         |-> CreateCdc,
     find_publication   |-> parts,
     create_publication |-> CreatePublication,
     create_connector   |-> CreateConnector,
     persist            |-> Persist,
     drop_connector     |-> DropConnector,
     drop_publication   |-> DropPublication,
     look_at_slot       |-> KickWalsender,
     drop_slot          |-> DropSlot,
     drop_catalog       |-> DropCatalog,
     drop_schema        |-> DropSchema,
     drop_row           |-> DropRow,
     drop_ledger        |-> DropLedger]

\* The steps the project's own state makes fail.
Refused ==
    {s \in Steps :
        \/ s = "create_cdc" /\ ~parts.catalog
        \/ s = "create_publication" /\ (~parts.schema \/ parts.pub # "none")
        \/ s = "drop_slot" /\ parts.slot # "inactive"
        \/ s \in {"persist", "drop_row"} /\ ~parts.registry}

-----------------------------------------------------------------------------
(* Where a request goes on                                                 *)

\* Mutant of CountKick: the attempts are not counted.
CountNoKick(k) == k.kicks

CountKick(k) == k.kicks + 1

\* Mutant of KickAgain: one attempt more.
KickOnceMore(k) == parts.slot = "active" /\ CountKick(k) <= MaxKicks

\* Mutant of KickAgain: no attempt after the walsender's end.
KickNoMore(k) == FALSE

\* Is there another attempt at the slot to make?
KickAgain(k) == parts.slot = "active" /\ CountKick(k) < MaxKicks

\* Mutant of UnlessPublished: create() does not look for a publication.
UnlessPublishedNever == "create_publication"

UnlessPublished ==
    IF parts.pub = "none" THEN "create_publication" ELSE "create_connector"

AfterSlot(k) ==
    IF parts.slot = "inactive" THEN "drop_slot"
    ELSE IF KickAgain(k) THEN "look_at_slot" ELSE "drop_catalog"

Then(k) ==
    [ensure_registry    |-> "create_schema",
     create_schema      |-> "create_catalog",
     create_catalog     |-> "create_cdc",
     create_cdc         |-> "find_publication",
     find_publication   |-> UnlessPublished,
     create_publication |-> "create_connector",
     create_connector   |-> "persist",
     persist            |-> "idle",
     drop_connector     |-> "drop_publication",
     drop_publication   |-> "look_at_slot",
     look_at_slot       |-> AfterSlot(k),
     drop_slot          |-> "drop_catalog",
     drop_catalog       |-> "drop_schema",
     drop_schema        |-> "drop_row",
     drop_row           |-> "drop_ledger",
     drop_ledger        |-> "idle"][k.at]

\* create() raises.  delete() notes the error and goes on behind the "try".
Otherwise(k) ==
    CASE k.at = "drop_connector" -> "drop_publication"
      [] k.at \in {"drop_publication", "look_at_slot", "drop_slot"} -> "drop_catalog"
      [] k.at = "drop_catalog" -> "drop_schema"
      [] k.at = "drop_schema" -> "drop_row"
      [] OTHER -> "idle"

\* An answered request is forgotten.
Goto(k, to) == IF to = "idle" THEN Idle ELSE [k EXCEPT !.at = to, !.kicks = 0]

Meets(k, who) == [k EXCEPT !.met = @ \cup {who}]

\* The slot is active, and was at each of the attempts before.
LastKick(k) ==
    k.at = "look_at_slot" /\ parts.slot = "active" /\ k.kicks + 1 = MaxKicks

GoesOn(k) ==
    IF k.at = "look_at_slot" /\ Then(k) = k.at
      THEN [k EXCEPT !.kicks = CountKick(k)]
      ELSE Goto(IF LastKick(k) THEN Meets(k, "exhausted") ELSE k, Then(k))

Fails(k) == Goto([k EXCEPT !.failed = @ \cup {k.at}], Otherwise(k))

Overlooks(k) == [GoesOn(k) EXCEPT !.failed = @ \cup {k.at}]

-----------------------------------------------------------------------------
(* The requests                                                            *)

KindOf(k) == IF k.at \in CreateSteps THEN "create" ELSE "delete"

FirstMet(kind) ==
    {KindOf(call[d]) : d \in Running}
      \cup (IF kind = "create" /\ parts.pub = "empty" THEN {"leftover"} ELSE {})

\* Which of the free threads serves the request makes no difference.
Begin(c, kind) ==
    /\ c \notin Running
    /\ c = CHOOSE d \in Calls : d \notin Running
    /\ begun < MaxBegun
    /\ begun' = begun + 1
    /\ call' = [d \in Calls |->
           IF d = c
             THEN [Idle EXCEPT !.at = IF kind = "create" THEN "ensure_registry"
                                                         ELSE "drop_connector",
                               !.met = FirstMet(kind)]
             ELSE IF d \in Running THEN Meets(call[d], kind) ELSE Idle]
    /\ UNCHANGED <<parts, task, faults, crashes>>

Step(c) ==
    /\ c \in Running
    /\ IF call[c].at \in Refused
         THEN /\ call' = [call EXCEPT ![c] = Fails(@)]
              /\ UNCHANGED parts
         ELSE /\ call' = [call EXCEPT ![c] = GoesOn(@)]
              /\ parts' = Effect[call[c].at]
    /\ UNCHANGED <<task, begun, faults, crashes>>

Trouble == faults + crashes < MaxTrouble

Fault == Trouble /\ faults' = faults + 1

\* The step raises: it was not done, or it was and the answer got lost.
StepFails(c) ==
    /\ c \in Running
    /\ Fault
    /\ call' = [call EXCEPT ![c] = Fails(@)]
    /\ parts' \in {parts} \cup
          (IF call[c].at \in Refused THEN {} ELSE {Effect[call[c].at]})
    /\ UNCHANGED <<task, begun, crashes>>

\* Steps whose failure the code does not see: the status of a DELETE is not
\* looked at, and Kafka Connect also answers 409 while it rebalances.
Unseen == {"create_connector", "drop_connector", "drop_catalog"}

StepFailsUnseen(c) ==
    /\ c \in Running
    /\ call[c].at \in Unseen
    /\ Fault
    /\ call' = [call EXCEPT ![c] = Overlooks(@)]
    /\ UNCHANGED <<parts, task, begun, crashes>>

\* The control plane is restarted; its requests are gone.
Crash ==
    /\ Trouble
    /\ Running # {}
    /\ crashes' = crashes + 1
    /\ call' = [c \in Calls |-> Idle]
    /\ UNCHANGED <<parts, task, begun, faults>>

\* GET /projects, /projects/{name} and /api/overview create the registry.
List ==
    /\ parts' = EnsureRegistry
    /\ UNCHANGED <<task, call, begun, faults, crashes>>

-----------------------------------------------------------------------------
(* Surroundings: Debezium, and the sync service                            *)

TaskStarts ==
    /\ parts.connector /\ ~task
    /\ task' = TRUE
    /\ UNCHANGED <<parts, call, begun, faults, crashes>>

BehindSlot == {"drop_catalog", "drop_schema", "drop_row", "drop_ledger"}

\* The task opens its replication stream, creating the slot where needed.
TaskStreams ==
    /\ task
    /\ parts' = [parts EXCEPT !.slot = "active"]
    /\ call' = [c \in Calls |-> IF parts.slot = "none" /\ call[c].at \in BehindSlot
                                   THEN Meets(call[c], "late") ELSE call[c]]
    /\ UNCHANGED <<task, begun, faults, crashes>>

TaskStops ==
    /\ task
    /\ task' = FALSE
    /\ parts' = KickWalsender
    /\ UNCHANGED <<call, begun, faults, crashes>>

\* A reverse-sync request writes a row of the project, and its ledger.
ReverseSync ==
    /\ parts.schema
    /\ parts' = [parts EXCEPT !.ledger = TRUE]
    /\ UNCHANGED <<task, call, begun, faults, crashes>>

-----------------------------------------------------------------------------

Next ==
    \/ \E c \in Calls :
          \/ \E kind \in {"create", "delete"} : Begin(c, kind)
          \/ Step(c)
          \/ StepFails(c)
          \/ StepFailsUnseen(c)
    \/ Crash
    \/ List
    \/ TaskStarts \/ TaskStreams \/ TaskStops
    \/ ReverseSync

Spec == Init /\ [][Next]_vars

\* Every request has a thread of its own, and every call it makes returns.
FairSpec == Spec /\ \A c \in Calls : WF_vars(Step(c))

-----------------------------------------------------------------------------
(* Properties.                                                             *)

CallRecords == [at : Steps \cup {"idle"}, kicks : 0..(MaxKicks - 1),
                met : SUBSET Encounters, failed : SUBSET Steps]

\* The parts are parts, and a request is at one of its steps.
TypeOK ==
    /\ parts \in Parts
    /\ task \in BOOLEAN
    /\ call \in [Calls -> CallRecords]
    /\ begun \in 0..MaxBegun
    /\ faults \in Nat /\ crashes \in Nat /\ faults + crashes <= MaxTrouble

\* A step: the request is answered; the step it makes fails.
Returns(c) == c \in Running /\ call'[c] = Idle /\ crashes' = crashes

FailsNow(c) == faults' # faults \/ call[c].at \in Refused

Ready(c) == Returns(c) /\ call[c].at = "persist" /\ ~FailsNow(c)

\* What a delete leaves: only what its failing steps were to remove, and a
\* slot that was active at all its attempts or that Debezium made later.
OnlyFailuresLeft(left, failures, met) ==
    LET failed(steps) == failures \cap steps # {}
    IN  /\ left.connector => failed({"drop_connector"})
        /\ left.pub # "none" => failed({"drop_publication"})
        /\ left.slot # "none" =>
              \/ failed({"drop_publication", "look_at_slot", "drop_slot"})
              \/ met \cap {"exhausted", "late"} # {}
        /\ left.catalog \/ left.cdc => failed({"drop_catalog"})
        /\ left.schema => failed({"drop_schema"})
        /\ left.row => failed({"drop_row"})
        /\ left.ledger => failed({"drop_row", "drop_ledger"})

\* Whatever mess earlier requests, failures and restarts have left, and with
\* Debezium streaming at its will, a delete that meets no create removes all of
\* it but what its own failing steps were to remove ("a half-created project
\* can always be cleaned up").  The slot alone is left without a failure, in
\* two cases: Debezium took it again before each of the ten attempts, behind
\* which _drop_replication_objects returns and delete() reports no error
\* (provisioner.py:238-250), or a task that was still to stop made it again
\* when the delete was behind its attempts - against "teardown must remove it"
\* (228-229) and "no orphan replication slot" (edge_tests.sh:86).
TornDown ==
    [][\A c \in Calls :
          /\ Returns(c) /\ call[c].at \in DeleteSteps
          /\ "create" \notin call[c].met
          => OnlyFailuresLeft(parts', call[c].failed \cup
                                        {s \in {call[c].at} : FailsNow(c)},
                              call[c].met)]_vars

\* A create that says "ready" and met no delete has everything in place; only
\* the connector may be missing, if Kafka Connect answered 409 for another
\* reason, and the publication may have been there, without the schema.
CreateWires ==
    [][\A c \in Calls :
          Ready(c) /\ "delete" \notin call[c].met =>
             /\ parts'.schema /\ parts'.catalog /\ parts'.cdc /\ parts'.row
             /\ parts'.connector \/ "create_connector" \in call[c].failed
             /\ parts'.pub = "covers" \/ "leftover" \in call[c].met]_vars

\* After any failures a create can be repeated: it raises only if a system
\* fails anew or another request is in its way.
RetryWorks ==
    [][\A c \in Calls :
          Returns(c) /\ call[c].at \in CreateSteps =>
             \/ Ready(c)
             \/ faults' # faults
             \/ call[c].met \cap {"create", "delete"} # {}]_vars

\* A project that create() reports as ready is captured: its publication has
\* the project's schema ("captures every table in the project schema").
Captured ==
    [][\A c \in Calls :
          Ready(c) /\ "delete" \notin call[c].met => parts'.pub = "covers"]_vars

\* Every request is answered, or the control plane restarted; the slot that
\* Debezium takes again and again does not keep a delete for ever.
Answered == \A c \in Calls : c \in Running ~> c \notin Running
=============================================================================
