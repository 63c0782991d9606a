# ZTAP in TLA+

A specification of the moving parts of ZTAP: Postgres projects whose changes
are captured into Delta tables, whose lakehouse edits are carried back, whose
tables are published in Unity Catalog and Trino, and whose compute scales to
zero. The modules are translated from the code under `src/`; TLC checks them on
small instances, and TLAPS proves every safety property of theirs, the action
properties and the two refinements among them, for every value of the
constants.

## The system

| Part | State it keeps | Operations | Hard part |
|---|---|---|---|
| **Delta sink** `services/sink` | a batch per table, largest offset per partition, consumer position; outside: Kafka's group offsets, Delta tables with markers | poll, batch, flush, commit, resume on assignment | crashes between the Delta and the Kafka commit; failed or unacknowledged writes; rebalances |
| **Proxy** `services/proxy` | session count, reported state, idle timer, wake mutex | hold a connection through a cold start, splice it, suspend on idle or on request, report the state | goroutines between critical sections and Docker calls |
| **Reverse watcher** `services/reverse-watcher` | last Delta version per inbox, in Postgres | read the change feed, collapse it, send it, record the version | lost answers, refused rows, timeouts with the request still running, restarts |
| **Sync service** `services/sync` | the ledger of applied versions, in Postgres | reverse-apply, reverse-sync, reconcile-schema | concurrent transactions; delete-then-post against a catalog |
| **Type engine** `packages/type-engine` | none | conflict policy, type mapping in both directions | case analysis; clamped and refused types |
| **Control plane** `services/control-plane` | the project registry | create, delete, list, register a table | many systems, no transaction over them; half-made projects |
| **Trino registration** `services/trino-init` | none (Trino's catalog) | discover, register, unregister | one listing used over many statements |

They meet in shared state rather than in calls: Debezium's topics feed the
sink; the watcher calls the sync service's `reverse-apply`; the control plane
and the sync service both write Unity Catalog; Trino is told of what the sinks
write; all but the proxy share one Postgres. The proxy starts and stops a
compute of its own (`ztap-compute`), for the clients that connect through it.
What makes each part correct:

- sink: every row of a topic is in its table once, whatever is redelivered or
  retried, and offsets and markers never run ahead of the tables;
- proxy: one cold start per suspend, no client left hanging, no armed idle
  timer that the next session cannot stop;
- watcher: no inbox commit skipped, none applied over a newer one, Postgres
  ends up with the inbox's rows;
- reverse-sync: the ledger has the highest version applied; nothing old is
  applied again, by the same request or another; every request ends;
- schema: a reconcile's "in sync" is true; a registered table stays in the
  catalog, with types that read back; one call mends what earlier ones left;
- type engine: what it maps a type to can be registered, and rebuilds to a
  type that is mapped to the same;
- lifecycle: what is reported as ready is wired up; a half-made project can be
  made again, or removed;
- Trino: an undisturbed cycle leaves the catalog in sync, tables at their own
  places; what a stale listing did is put right in the end.

Where the code keeps less than this, the properties say so; what the repository
promises there is listed under "Disagreements".

## Modules

| Module | What it is |
|---|---|
| `ChangeFeed` | what a sink promises: records of a partition are published, in order, each once, a table's partitions in one step |
| `Sink` | the sink process, Kafka's offsets, the tables and their markers; `FeedSpec` is `ChangeFeed` under the mapping `published = marker + 1` |
| `MCSink` | partition-to-table assignments and fault sets for model checking |
| `Proxy` | the proxy's goroutines, the compute container, the two HTTP requests |
| `Mirror` | what the watcher and reverse-apply promise together: Postgres has the rows of one version of the inbox, and only moves on to later ones |
| `ReverseInbox` | one inbox: watcher, reverse-apply, the Postgres table; `MirrorSpec` is `Mirror` under the mapping `shown = the newest version carried` |
| `ReverseDecision` | `resolve()` and `decide_reverse_apply()` as operators |
| `ReverseSync`, `MCReverseSync` | concurrent reverse-sync transactions over row locks, ledger, applications |
| `TypeMapping` | `map_pg_to_delta()`, `map_delta_to_pg()` and what `uc_column()` can express |
| `SchemaReconcile`, `MCSchemaReconcile` | register_table and reconcile-schema against ALTER TABLE, with the types of `TypeMapping` |
| `ProjectLifecycle` | create and delete of a project, Debezium's task, the systems' parts |
| `TrinoRegister`, `MCTrinoRegister` | the registration loop against tables that come and go |
| `SinkProofs`, `ProxyProofs`, `ReverseInboxProofs`, `ReverseSyncProofs`, `TypeMappingProofs`, `SchemaReconcileProofs`, `ProjectLifecycleProofs`, `TrinoRegisterProofs` | the theorems about them |

### Sink

A record is its offset; `copies[p][o]` says how often its row is in the table.
`pc` is where the process can stop: `down`, `assigning` (on_assign), `poll`,
`flush` (with `todo`, the tables not yet written), `commit`. Volatile state
(`batch`, `offsets`, `count`, `pos`, `stored`) dies with the process (`Exit`).
`Raise` is the `finally` block: an exception in the loop flushes once more, one
in that flush ends the process. `stored` is what librdkafka would commit: the
position behind the last delivered record. The kinds of fault that can happen
are chosen per run (`Faults`) and bounded together (`MaxFaults`). Whether Delta
refuses a commit with a stale marker, as the docstring of `DeltaWriter.append`
says, is the constant `RejectsStale`. `misread` is a history of the rows whose
batch was dropped because an unrelated error passed for such a refusal.

### Proxy

Each connection, idle timer and request is a goroutine with its own `pc`; each
action is one critical section of `m.mu` or one call to Docker or the network.
`real` tells real from simulated suspend. A stop cuts the sessions the compute
has (`cut`). A timer that has fired can no longer be stopped: it may decide to
stop the compute while a session is on its way, and the stop itself comes after
the decision, over sessions that opened meanwhile. So what is promised of a
timer is a promise about its decision (`DecidesWhenIdle`), not about the stop.

### ReverseInbox

A commit of the inbox changes one key, or none, or moves a row to another key
(`left` is the key it had). The watcher drops the old half of an update, so the
key that was left is touched by nothing. The feed read may contain commits
behind the version looked up (`load_cdf` has no end version), and only the
version looked up is recorded. Rows with a value in `Refused` break a
constraint: the request that holds one is rolled back as a whole, at each poll
again. `PostFails` has the transaction rolled back, or committed with the
answer lost; `Abandon` is the 30-second timeout (or a restart of the watcher)
with the transaction still to come. Nobody else writes the table: the model is
about what the inbox carries over.

`Mirror` knows no polls, feeds, requests or recorded versions. Its table moves
to a version that is not older than the one it shows, in one step, until the
promise is called off (`CallOff`): by an abandoned request, which may land
after a newer one, or by an update that changes a key. `Calm` says that neither
has happened, and is what the mapping gives for `kept`.

### ReverseSync

A request is a read-committed transaction: read the row, read the ledger,
decide, write both, row after row, commit. Uncommitted writes lock their rows;
Postgres aborts one of a deadlock. The row and the ledger entry of a key are
written under the same lock, so one action writes both.

A row is whether it exists and what its version column has. A change has the
version that is compared and recorded, which is the request's `version_col`,
and what it holds for the table's version column; without that column
(`Kept`) the upsert leaves it alone and the row keeps its version, while the
ledger gets NULL. A request may also name no version column, or one that only
the lakehouse has: then the rows read have no version. `merge`, which the
endpoint has no function for, and a `source_of_truth` that is neither side are
refused. Applications write newer versions, or delete.

Two histories are kept. `past` is the highest version applied to a key, and
whether the ledger could have guarded all that was applied; `overtaken` says
who has committed the current key since the request read it.

### TypeMapping

A type is a name with arguments and a number of array dimensions; the recursion
over brackets changes only the element. Notes and encodings, which nothing
depends on, are left out; so are the Delta types that only foreign tables have
(BYTE, MAP, STRUCT). The laws at the end of the module are what the services
rely on; `TypeMappingProofs` proves them. Types are `WellScaled`: not more
digits behind the point than there are digits. Postgres 15 has also
`numeric(3,5)`, whose scale the engine hands on as it is.

### SchemaReconcile

A schema is a type, or none, per column. A registration has the type
`TypeMapping` gives; a table with a column the engine does not map makes both
calls raise before anything is dropped. Deletes whose status is ignored and
that leave the registration where it was, posts answered 409, and calls that
fail with or without effect are all there. `met` is what a call has come
across: the table was altered behind its read, another call registered it
before its post, its own delete left the registration, it failed.

### ProjectLifecycle

A request is a record: the step it makes next, the attempts at the slot, the
kinds of request it has met, and the steps that failed; also whether it found
a publication left over (`leftover`), the slot active at its last attempt
(`exhausted`), or had the slot made again behind its back (`late`).
`Effect` is what each step does to the project's parts, `Refused` which steps
the parts make fail, `Then` and `Otherwise` where the request goes on when a
step returns or raises: create() is left by its first exception, delete() has
a `try` per step and goes on. So the sixteen steps share three actions (`Step`,
`StepFails`, `StepFailsUnseen`) instead of sixteen times three. The last is for
the calls whose status is not looked at: DELETEs, and a 409 from Kafka Connect
that means "rebalancing", not "exists". A publication that outlived its schema
is `empty`: it exists and covers nothing. Debezium's task takes the slot
whenever it likes, also again between two attempts to drop it.

### TrinoRegister

One cycle, statement by statement, from one listing in the order of the keys
(`Order`; `todo` is what is left of it, `First` the next): ensure a schema, register
a table, list what is registered, unregister what the listing does not have,
list again, drop a schema that is empty. Meanwhile sinks make tables, objects
are removed, users and `make_inbox.sh` create schemas, create and drop tables
in Trino (each a statement of its own; a drop takes the data with it or not),
and Trino comes back empty. Places and names differ: a table deeper than
`<project>/<table>` is registered under joined names, which may be those of
another table (`Ambiguous`), but looked for below its project; and a project
whose name is no SQL identifier ends the cycle where it comes up.

## Runs

| Run | Expect | What it shows |
|---|---|---|
| `sink_exactly_once` | pass | one table fed by two partitions: exactly-once, the inductive invariant (nothing lost with it), refinement of `ChangeFeed`, eventual delivery, under every tolerated fault |
| `sink_at_least_once` | pass | two tables, every fault: nothing lost but the rows of a misread batch, all others delivered |
| `sink_rebalance` | violation of `ExactlyOnce` | a rebalance redelivers rows that are still in the batch |
| `sink_misread` | violation of `CommittedIsWritten` | an error text with "version" in it passes for a duplicate, and offsets are committed over rows nobody wrote |
| `proxy_cold_start` | pass | cold starts, timers, hanging clients, service in calm |
| `inbox_mirror` | pass | nothing skipped, always a version of the inbox, refinement of `Mirror`, mirrored in the end, refused rows included once mended |
| `inbox_moved_key` | violation of `OrderKept` | an update of a key leaves the old row in Postgres |
| `ledger_concurrent` | pass | the ledger has the highest version applied, nothing is applied twice or after a newer one, all requests end; where versions are missing or requests overlap, what is left of that |
| `schema_reconcile` | pass | gaps in the catalog, types that read back, truth of the answer, one call mends what failed calls have left |
| `project_lifecycle` | pass | teardown after any mess, the slot included; wiring of what is "ready", repeatability, every request answered |
| `lifecycle_stale_publication` | violation of `Captured` | a create takes an emptied publication for its own and reports a project that captures nothing |
| `trino_register` | pass | an undisturbed cycle syncs, names and places; tables become visible and stale registrations go, for good or again and again |

The four violations are disagreements between the code and what its README,
comments or tests say; `PROJECT.json` quotes both sides under `findings`.

### Bounds, and why they are enough

- Sink: two partitions, 3 records each, batches of 2, 2 or 3 faults. Two
  partitions are what it takes for one batch to mix partitions of a table, or a
  flush to be half done; three records give a batch before, at and behind a
  marker; three faults let a failed commit meet a crash and a group reset.
- Proxy: two connections, two timers, one request, one failed call. The races
  are between a timer or a request, a session that ends and one that comes; the
  second timer lets one that has fired meet one that is armed.
- ReverseInbox: two keys, a value Postgres takes and one it refuses, 3 commits,
  2 failures, one abandoned request: an old, a lost and a new version of a key,
  a refused row and its mending.
- ReverseSync: two handlers, two keys, two versions, 3 requests (so one can be
  replayed after two that raced), one application write. The bodies hold two
  rows in both orders (deadlock), a key twice, a missing version, a version in
  a column of the lakehouse only, and two policies that cannot be followed, one
  of them on a second row.
- SchemaReconcile: two columns; a type that maps to text with and one without
  loss, an array of a numeric whose digits and scale are both clamped
  (`numeric(45,40)`), a type that is not mapped; any
  initial table, one alteration, one failure, two reconciles and a registration
  at a time.
- ProjectLifecycle: two requests at a time, three in all, one trouble (a
  failing step or a restart), two attempts at the slot (10 in the code: two are
  enough for "again" and "no more"). Three requests are a failed one, one that
  meets it and one that finds what is left.
- TrinoRegister: six places: a project's directory itself, a table deeper down
  and one directly below the project with the same name (`lake/a/b`,
  `lake/a_b`), one directly below with a name of its own, a project with an odd
  name and one listed behind it; four changes by others, two cycles cut short.
  Four are a collision (two tables), one of the two gone, and another change.

`CHECK_DEADLOCK FALSE` where it appears means that the model may come to rest:
producers, clients, alterations, requests and faults are bounded.

### Fairness

- Sink: `WF(Progress)`. The process has one thread; the container restarts
  (`restart: unless-stopped`); faults are bounded, producers unforced.
- Proxy: weak fairness per goroutine (the Go scheduler), and of the started
  compute getting ready. Clients come and leave when they like.
- ReverseInbox: the watcher's own steps (it polls for ever) and the sync
  service finishing transactions it began. The lakehouse is not forced to write.
- ReverseSync: some handler that can go on does (threads of the web server),
  deadlock detection included.
- SchemaReconcile: a reconcile-schema call gets on once made. Nothing in the
  platform makes one by itself, and nothing here assumes that one is made.
- ProjectLifecycle: `WF(Step(c))` per request: each has a thread, and the calls
  it makes return, the HTTP ones by their timeouts. Nobody is forced to make a request, and Debezium is
  forced to nothing.
- TrinoRegister: `WF(Work)`: one process that runs one cycle after another, and
  catches what ends a cycle early.

## Proofs

The theorems hold for any constants that satisfy the module's assumption, so
for any number of clients, tables, keys, requests and faults. Each is proved
from an invariant that TLC agreed with first.

`SinkProofs`, for any partitions, assignment to tables, bounds and faults:

- `TypeCorrect`: `Spec => []TypeOK`, without further assumptions;
- `ExactlyOnceHolds`, `NothingLostHolds`: `Spec => []ExactlyOnce` and
  `Spec => []NothingLost`, under `Harmless`: Delta refuses stale markers and
  the faults are the `Tolerated` ones (no rebalance, no unreadable marker, no
  misread error: the runs `sink_rebalance` and `sink_misread` show two of the
  three to be needed);
- `SinkImplementsFeed`: `Spec => FeedSpec`, under the same assumption.

Neither safety property is inductive. The invariant `SinkInv` (checked as such
by `sink_exactly_once`, `SinkInvHolds`) adds what ties the four places together
that know how far the sink is: per partition the marker splits the log into
rows in the table, once, and rows not in it; Kafka's offset is behind rows that
are written; the batch holds exactly the rows between marker and position, or,
when its table was written already but the flush has to be repeated, rows at or
below the marker, which Delta refuses as a whole; a batch is never partly
stale; and memory is empty when the process starts. Each action preserves each
part, and the refinement follows: an append that lands moves the markers of one
table, any other step leaves them.

- `NothingLostWhateverFails`: `Spec => []NothingLost` with every fault there
  is, rebalances, unreadable markers and misread errors included, under
  `NoneRefusedWithOthers`: each table has one partition, or Delta refuses no
  commit. The invariant follows each row the consumer has passed: it is in the
  table, or misread, or in the batch, and the batch is only dropped once it is
  written. The hypothesis is needed. With two partitions in one table and stale
  commits refused, TLC finds the loss: an append lands, the sink dies before
  the Kafka commit, the markers cannot be read on the next assignment
  (`consumer.py:71`), and the stale marker of the one partition makes Delta
  refuse the rows of the other with it; the sink takes that for a duplicate and
  commits over them.

`ProxyProofs`, for any clients, timers and requests, in both modes:
`ProxyTypesCorrect`, `OneColdStartHolds`, `TimersInReachHolds`,
`DecidesWhenIdleHolds`. The invariant says who holds `wakeMu` (the connection
between its `Lock` and `Unlock`, nobody else), that `activeConns` is the number
of open sessions, and keeps a debt: cold starts made, plus one under way, plus
one that the next connection will have to make, plus, in simulated mode, the
suspends that have yet to set the state, are at most the suspends and failures
so far. A suspend adds to both sides, a cold start moves along the left one;
that is all of `OneColdStart`. `TimersInReach` is inductive next to the types.

`ReverseInboxProofs`, for any keys, rows and bounds, abandoned requests and
refused rows included:

- `TypeCorrect`: `Spec => []TypeOK`;
- `NothingSkippedHolds`: `Spec => []NothingSkipped`. The invariant adds what
  the watcher holds in `process_inbox` (`InHand`): the request it sends starts
  right behind the recorded version and reaches at least the version it looked
  up, and when that version is about to be recorded, all up to it is carried.
  The branch that sends nothing rests on `NothingLeftOut`: a collapsed feed
  without a change comes only from versions that touched no key.
- `AlwaysAPrefixHolds`: `Spec => []AlwaysAPrefix`, with the invariant `InOrder`
  that some version `v`, not behind the recorded one, is what Postgres has, and
  a feed in hand begins at most at `v` and reaches it. Its core is
  `FeedApplied`: collapsing the feed and applying it to the rows of *any*
  version in its range gives what replaying the commits gives, so what is read
  or sent again lands where it landed first. That is an induction over the
  versions. The library's induction theorems take an operator and cannot be
  used, so it is done with sets: `SetInduction` (a set of naturals with 0 that
  is closed under successor is `Nat`) comes from the least element of a
  well-founded set, and also shows that the equation by which `LakeAt` is
  defined has a solution (`Replayed`).
- `WatcherImplementsMirror`: `Spec => MirrorSpec`. It says more than the
  invariant does: Postgres never goes back to a version it has left. `InFront`
  ties the history to the watcher: Postgres shows the newest version carried,
  and the request in hand goes beyond both that one and the recorded one.

`ReverseSyncProofs`, for any handlers, keys, requests and versions:

- `TypeCorrect`: `Spec => []TypeOK`;
- `LedgerAlwaysHighest`: `Spec => []LedgerIsHighest`;
- `NeverBackHolds`: `Spec => NeverBack`.

Both follow from `LedgerInv`, with no assumption beyond the module's. It says
of every handler (`Guarded`) that an entry it has written is the highest
version applied to its key, or the key is doubtful; that its decision to apply
still holds against the ledger unless another request has overtaken it, and
against the row unless anybody has; and that the row it has found is still the
one to be seen. So when it writes unguarded, the history says why: a change
without a version, or a request that overlapped.

`TypeMappingProofs`, for any digits and any number of array dimensions:
`MappedIsRegistrable`, `MappedIsReverseStable`, `SubstituteIsStable`,
`LosslessIsRebuilt`: what the engine maps a type to can be told to Unity
Catalog within its 38 digits; rebuilt in Postgres from the Delta type alone, or
by the engine's hint, it is mapped to the same Delta type again. What is said
to be lossless is rebuilt just as the hint says; that is not always the type
one started from: `varchar` and `char` are rebuilt as `text` and still said to
be lossless, although `mapping.py:37-39` says that then they are the same.

`SchemaReconcileProofs`, for any columns, types, calls and bounds:
`SchemaTypesCorrect`, `NoGapHolds`, `ReadBackHolds`, `TrueAnswerHolds`. The
invariant of the first three is the types (a call holds columns exactly between
reading and ending), that only a schema the engine can map is about to be
posted, and `NoGapAtRest` itself. `ReadBack` follows from the types and
`TypeMappingProofs`. For `TrueAnswer`, `Informed` adds that the columns a
call has read are the table's unless it was told of an alteration, and that a
call about to post has no registration in its way unless it was told of
another's or its own delete left one. So its answer is true, or it has met
what makes its post one of those answered 409 over other columns; a call that
is disturbed by nothing but its own delete is among these, not exempt from
being looked at.

`ProjectLifecycleProofs`, for any requests, failures and restarts:
`LifecycleTypesCorrect`, `TornDownHolds`, `CreateWiresHolds`,
`RetryWorksHolds`. The last three are action properties about the step that
answers a request; the invariant says what holds half-way. `Laid`: a create
that met no delete has in place all that the steps behind it make. `Gone`: a
delete that met no create has removed what the steps behind it remove, or
failed to. For the slot this holds whatever Debezium does: a slot that is there
behind the attempts is the work of a failing step, of a task that had it at
each attempt, or of one that made it later; the lemma `SlotLeft` says of the
last look at it which. `Meeting` says that requests in progress together know
of each other, without which neither would survive somebody else's step.

`TrinoRegisterProofs`, for any places, projects and names: `TypeCorrect`,
whose registrations lie where their names say, in schemas there are; and
`CycleSyncsHolds`: `Spec => CycleSyncs`. The invariant `CycleInv` is what an
undisturbed cycle has achieved at each statement: while it registers, each
listed place is still to come or its name is taken; while it reconciles, each
schema it has been through has only registrations that are to be kept, and is
gone if it has none; while it unregisters, each name of the current schema is
still to be looked at or to be kept; while it drops one, nothing is in it. That
an unambiguous name points to its own place then follows from the types: what
is registered lies where its name says. It says nothing of the catalog the cycle
found, so nothing is assumed of that.

Only model-checked is what the provers do not reach, liveness under fairness:
`EventuallyDelivered`, `EventuallyMirrored`, `OneCallMends`, `EventuallyVisible`,
`EventuallyGone`, `ServedWhenCalm` and `Answered` of `Proxy`, `ReverseSync` and
`ProjectLifecycle`.

## Not modelled

- Settings, dashboards, metrics, the test scripts, and the external systems
  beyond what the code relies on; offline mode, which skips the remote steps.
- The contents of a row: the column types the sink infers per batch, and the
  conversion of cells by the watcher. A record that is no JSON stops the sink
  for good, so `EventuallyDelivered` is about logs without one.
- Composite primary keys; and the `reverse_watch` row that outlives its
  project, from whose version the inbox of a recreated project is read.
- What a failed call to Kafka Connect or Unity Catalog does after the timeout,
  and the offsets Kafka Connect keeps for a connector name.
- Nullability and the order of columns, which `diff_schema` ignores, and the
  best-effort entry in the schema registry.
- Pagination of the bucket listing.

Two races are what the code does and are in the models without a run of their
own, since nothing in the repository promises otherwise: an idle stop over a
session that opened after the decision (`Proxy`), and an abandoned
reverse-apply that lands after a newer one (`ReverseInbox`). The properties
next to them say under which condition they cannot happen.

## Disagreements

Four have a run, and stand under `findings` in `PROJECT.json`. The others are
written into a property, which names the case and says what the code does in
it; without the case the property is violated by the same run.

| The repository says | The code does | Property |
|---|---|---|
| never "apply a lake change we've already applied (or an older one)"; the ledger has "the highest lake version already applied" (`state_machine.py:69-74`) | a change without a version puts NULL into the ledger (`reconciler.py:271`), and any older one passes then; of two requests for a key that both read the ledger first, the later write wins | `NeverBack`, `LedgerIsHighest` |
| reconcile-schema returns `IN_SYNC` (`reconciler.py:105`) | the DELETE's status is not looked at (`:83`) and 409 to the POST counts as success (`:85`), so a registration that was not deleted, or was another call's, is "in sync" without having been compared | `TrueAnswer`, `OneCallMends` |
| "no orphan replication slot" (`edge_tests.sh:86`); "teardown must remove it explicitly" (`provisioner.py:228-229`) | after ten attempts at an active slot `_drop_replication_objects` returns, and delete() reports no error (`provisioner.py:238-250`); a task that stops late can make the slot again | `TornDown` |
| "registers any it finds" (`register.py:5-7`) | a table deeper than `<project>/<table>` is unregistered again by the cycle that registered it, since `reconcile()` looks directly below the project (`:113`) | `CycleSyncs`, `EventuallyGone` |
| tables at their own locations, "Trino's view always matches ground truth" (`register.py:11-12`, `101-103`) | of two tables with one name the first listed keeps it (`:95`), and while the other is there the name is kept, even over data that has gone | `CycleSyncs`, `EventuallyVisible`, `EventuallyGone` |

## What is left to do

1. The `reverse_watch` row that outlives its project: `ProjectLifecycle`
   composed with `ReverseInbox`, for recreated projects.
2. An abstract specification of the compute's switch for `Proxy`: cold starts
   and suspends that alternate, without goroutines.
3. Composite keys in the watcher's requests, and what the sink does with a
   record that is no JSON.
