# A TLA+ verification project for ragzoom

ragzoom keeps a document as a forest of summaries: the text is cut into leaves,
pairs of neighbouring nodes are summarised by a language model into a parent,
and so on upwards, while the client goes on appending and truncating. A query
shows a window of the text as a mix of leaves and summaries that fits a token
budget. Around that core stand a daemon with a lease on its database, gRPC and
HTTP servers, a search agent, telemetry, and adapters that keep the transcript
of a coding assistant in a document.

This directory models these parts in TLA+, checks them with TLC on small
instances, and proves the safety properties of most of them with TLAPS for
instances of any size.

Paths below are relative to the repository's `src/`; `engine` is
`ragzoom/server/indexing_engine.py`, `repo` is
`ragzoom/backends/sqlite_repositories.py`, `runtime` is
`ragzoom/indexing/runtime.py`.

## 1. The system

| Part | State | Operations | Hard behaviour |
|---|---|---|---|
| Document store (`repo`, `document_store.py`, `repositories/`) | tables `documents` and `tree_nodes`: height, level_index, span, parent, children, neighbours, time | append leaves, insert a parent, delete from a span or a time, clear, query | links and indices must survive any order of the above; two backends must agree |
| Indexing runtime (`runtime`, `server/append_executor.py`) | none of its own; holds the document lock during a database section | append, batch append, clear, both truncations | tells the engine after (append) or before (truncation) it writes; a batch is several transactions |
| Document locks (`utils/locks.py`, both backends) | a lock file, or an advisory lock | take, refuse, wait, give back | the file outlives a crash, the advisory lock blocks the event loop |
| Indexing engine (`engine`) | active jobs, active and dirty documents, contexts, scheduler task, an asyncio lock, an event | trigger_work, cancel_document, wait_until_idle, finders, jobs | many tasks, two locked sections with a scan in between, long model calls |
| Indexing runs and telemetry (`server/run_manager.py`, `telemetry_*.py`) | runs in line, collectors, a journal per document | start, credit, complete, export | runs of one document overlap, the journal is written by a thread |
| Model calls (`services/`, summary and embedding) | the conversation of one job | ask, retry, keep the best reply | the reply that is stored is chosen pairwise |
| Coordinates (`tree_coordinate.py`) | none | parent, sibling, ancestors, highest ancestor in a window | computed, not looked up: a coordinate need not exist |
| Retrieval (`retrieve.py`, `retrieval/`) | per query | window, verbatim leaves, seeds, covering set, greedy roll-up | reads the store, awaits, reads it again |
| Vector indexes (`backends/vector_index_*.py`) | vectors with metadata | upsert, delete, search | not in the database's transaction; three of them with different deletions |
| Search agent (`search/`, `agent/`) | conversations, a registry of sessions | rounds of tool calls, continuation | overlapping continuations, expiring sessions |
| Indexer lease and daemon (`server/lease.py`, `daemon.py`, `server/app.py`) | one row: holder and expiry; pid and port files | acquire, steal, heartbeat, release; start, ensure, stop | suspended or crashed servers, late heartbeats |
| Transcript adapters (`integrations/`) | the transcript, a lock file, a state file | compare, truncate, append | rewinds, side branches, partial failure, lost state |
| Validation and repair (`validation/`, `validate.py`, `scripts/`) | none | check a stored document, prune roots, mend rows | must accept every intermediate store and notice damage |
| CLI, dashboards, telemetry reports, evaluation, configuration | | | I/O, or functions of data at rest |

How they interact: a client calls a gRPC handler, which awaits the end of the
document's jobs (truncations), takes the document's lock and works in the
runtime; an append commits its leaves and calls `trigger_work`; the engine's
finders scan the store, claim jobs and start tasks; a task reads its nodes,
awaits the model, commits one transaction, gives its slot back and asks for
another scan. A truncation deletes rows, then vectors. A query and a leaf's
context both run retrieval against the same store. All of this is one event
loop per server; servers meet at the lease, the lock files and the database.

`PROJECT.json` lists every part with its status, and under "hazards" each place
in the code where one of these could go wrong, with the properties that watch it.

## 2. The modules

The store of one document, from its rows to what a client sees:

| Module | Models |
|---|---|
| `ForestStore` | rows and transactions of the table (`repo`, `append_executor.py`, the end of `_summarize_pair`) |
| `ForestScan` | how the engine finds pairs: eligibility, height gate, completeness gate, closed forms |
| `DocumentForest` | the life of one document: appends, summary jobs, failures, restarts, truncations, clearing |
| `ForestInvariant`, `DocumentForestProofs` | its inductive invariant, the mappings to its two abstractions, what queries promise; the theorems |
| `CoordinateForest`, `SummaryForest`, `DocumentText` | abstract: a forest as a set of coordinates that grows, merges and is cut; the sequence of chunks the client sent and did not take back |
| `StoreQueries`, `NodeTable`, `PostgresTable`, `DocumentStore`, `DocumentStatus` | what is read: navigation, windows, the queries of both repositories over several documents (`NodeTable` is the table and what the SQLite repository asks of it), the documents table, the per-document wrappers, the status a client is shown |
| `PostgresStore`, `PostgresForest` | where the Postgres backend differs: no unique index, a cache of rows, a truncation that moves no row; `PostgresStore` states `BackendsAgree` and `ValidatorsAgree` |
| `ForestValidation`, `DocumentChecks`, `DocumentTools` | the validators, and the scripts that prune and repair |
| `QueryRequests` | how each entry point turns a request into a window |
| `MCDocumentForest` | upkeep and several documents in one table: the properties that compare the rest of these in every state |

The servers and clients:

| Module | Models |
|---|---|
| `IndexingEngine` (EXTENDS `CoordinateForest`), `IndexingEngineProofs`, `CoordinateForestProofs` | the asyncio engine for several documents |
| `IndexingRuns`, `TelemetryLog`, `RunProofs` | which run a job is credited to and when a run ends; collectors, journal, replay and export |
| `Retrieval` (EXTENDS `SummaryForest`) | one query on a changing document |
| `VectorIndexes`, `QuerySeeds` | what the three vector indexes keep and return, and which leaves a query starts from |
| `RetrievalProofs` | the theorems about queries and seeds |
| `ModelCalls`, `SearchSessions`, `ConversationProofs` | the conversation of one job with its model; questions to the search agent and their continuations |
| `IndexerLease`, `ServerLifecycle`, `ServerLifecycleProofs` | the lease; daemons, their files and the commands |
| `DocumentRequests`, `ClientProofs` | the handlers that change documents, and the locks |
| `AppendUnits` | what becomes of the units of a request |
| `Transcript`, `TranscriptSync`, `CountedSync`, `SyncAdapters`, `ClientProofs` | the transcript, the stateless adapter, the two that count |
| `MCEngine`, `MCServer`, `MCClients` | parts that share no state, checked side by side in one run |

The layers fit together by coordinates: `DocumentForest` is proved to implement
`SummaryForest` row by row (and `DocumentText`, the text of the client),
`IndexingEngine` is proved to implement it for each of its documents, and
`Retrieval` composes it with a query.

### The store

`db` is a function from ids to rows with the structural columns; `jobs` holds
what each summary job read of its pair before the model call (`ReadPair`) and
writes afterwards (`InsertParent`, one transaction, rolled back as a whole when
the unique index refuses it). The rightmost leaf of an append is *any* leaf with
the greatest `span_end`, because the query orders by nothing else. The deletions
clear `parent_id` and `following_neighbor_id` as the code does and move spans
after a time truncation. Truncations need `jobs = {}`: `cancel_document` waits;
whether the engine keeps that promise is the subject of `IndexingEngine`.
`Restart` loses the jobs and keeps the table. A document operation is atomic
because it holds `_lock_document` and awaits nothing inside it; the awaits that
telemetry adds are in `DocumentRequests`.

The modules of queries are operators over a table, evaluated in every state of
`DocumentForest` on tables of two documents made from it. A text, a path or a
model name is a number; a column that is NULL holds `NIL`.

### The engine

One action per stretch of code between two awaits. `lockQ` is the FIFO queue of
`asyncio.Lock`; a finder goes begin, scan, claim, sleep; a job goes new, model,
done or failed; a client goes trigger, or cancel, check, arm, asleep, woken, drop.
`FinderScans` is the first locked section of `_find_and_start_jobs` and the
synchronous scan after it; `FinderClaims` is the second one, including
`asyncio.sleep(0)` with the lock held (`FinderWakes`). `JobEnds` is the `finally`
block of `_run_job`. `JobFails` may leave the row's embedding without the vector,
as the order of the writes allows, `DropsRowsOnly` is a truncation whose vectors
could not be deleted, `GivesUp` a client that stops waiting; `Restarts` is a
process stop followed by the start-up triggers. Left out are progress counters,
the 100-iteration guard of a finder, exceptions inside a scan, and
`RAGZOOM_STRICT_ERRORS`. `Candidates` leaves out the gates that make a scan
postpone a pair (frontier, completeness, height): a finder may find it at once,
which allows more than the code does and is harmless for safety; the gates are in
`ForestScan`, where `Converges` shows that they hold nothing back for ever. The
deletion of vectors is that of Chroma; the other two indexes are in
`VectorIndexes`.

Three history variables, on which no step depends, say where the code is known not
to keep its promise, so that the properties can say that it keeps it everywhere
else. `exposed` has the documents that were truncated when the engine had no
context for them but work was left (`HasWorkLeft`): there is nothing to cancel
then, and the work goes on beside the deletion. `missed` has the documents with a
job that failed and ended while a finder with an empty scan was about to look for
jobs (`ClosingIn`), until they are triggered again. `orphans` has the vectors that
an index failed to delete.

`TakeTurns` says that clients have one operation at a time on a document. The code
does not enforce it before `cancel_document` is called (see section 5), so it is a
constant, and the theorems name it (`ClientsTakeTurns`).

### The others

`IndexingRuns` follows the runs of one document through start, credit, scan,
completion, detachment and truncation, with the log written while the engine
goes on. `TelemetryLog` adds the collectors in memory, the journal that two
document ids may share, lines torn by the end of a process, replay and export.

`Retrieval`: `Ask` fixes the window, its edge nodes and the verbatim leaves, then
the query awaits its embedding while `Grow`, `Merge` and `CutOff` of
`SummaryForest` go on. `Build` is `build_windowed_coverage` for any set of seeds (`Collected` the query it leaves),
stale ones included. What is around the seeds is filtered by the window, but the
seeds themselves are registered by their ids when their coordinates are not in the
metadata, or when the filter has dropped them, and may then lie beyond it
(`Strays`); how far depends on what the search was limited to and on what happened
meanwhile (`Reaches`): `limited` is a search with a filter on spans. `RollUp` is
one round of the greedy loop. From `Build` to `Answer` the code awaits nothing.
Scores are floating-point numbers; the order they give is replaced by any order.
`QuerySeeds` says which seeds there can be.

`IndexerLease` has no clock: every time is a timer that `Tick` counts down, the
age of a SELECT at its write included. `Delay` bounds how late a task is that is
not suspended; the servers of `MaybeSlow` may be later. `ForUpdate` says whether
the SELECT of an expired row locks it: on Postgres it does, SQLite has no such
clause. `ServerLifecycle` puts daemons, two files and commands around it.

`DocumentRequests`: a handler waits, is blocked, locked, works unit by unit, and
is done, refused, failed or busy, on servers that may die. The lock file is there
before its first line is written and before `__exit__` can be called, so
`TakeLock` may also fail and leave it (`Stuck`), and so may every way out, when
the file cannot be removed (`LetsGo`). `TranscriptSync` plans from
the document's end time alone; `CountedSync` from a state file.
`SearchSessions`: a conversation is a sequence of who wrote what, so that what
the model is shown can be compared with the turns of its session.

## 3. What is checked

| Run | Instance | Shows |
|---|---|---|
| `forest_core` | 6 leaves, appends of up to 3, two time stamps in order, gates open | `TypeOK`, `LeavesTile`, `ParentsMatchChildren`, `NeighborsMatchCoordinates`, `RootsTile`, `NoCoordinateClash`, `JobsNotStale`; `BackendsAgree`, `ValidatorsAgree`, `UpkeepIsSound`, `QueriesAgree`; `LeavesAreStable`; implements `SummaryForest` (`KeepsShape`) |
| `forest_live` | 7 leaves, both gates at their tightest | `Converges`: the forest is complete in the end |
| `forest_text` | 4 leaves of length 1 or 2, stamps in any order, windows of time with a clock of 4 | implements `DocumentText` (`ShowsClientText`); `TimeWindowsAreExact`; `DocumentsAreApart` |
| `engine_cuts` | one document, 2 leaves, 2 slots, 3 operations, 1 fault; and two documents sharing a journal, 2 runs, 2 upsets | `JobsAreRightlyClaimed`, `NothingDangles`, `IdleMeansIndexed`; `ExportShowsTheWork` |
| `engine_live` | 2 documents, 2 clients, 1 slot, 1 fault, under fairness | `EverythingIsIndexed`, `WaitsEnd` |
| `runs` | 2 appends with a run each and any without, 2 slots, 2 mishaps, under fairness | `CompletedRunsAreDone`, `RunsEnd` |
| `server` | 3 daemons and 2 users; a query over up to 8 leaves; seeds of up to 3 leaves; a model with 2 retries; 3 search calls | `OneIndexer`, `OnlyRivalsStarve`, `FilesTellTheTruth`; `TilingCoversWindow`, `AnswerIsSmallest`, `OnlyCutsFail`; `SeedsAreFound`, `IndexesAgree`; `BestReplyIsStored`; `TurnsAreRemembered`, `AnswersAreDelivered` |
| `clients` | 4 records with a rewind or a side branch, a compaction and a tie, 2 hooks; 3 requests to 2 servers on 2 documents | `ExactAfterSync`, `CountedOnce`; `BatchesAreApart`, `BusyHasAHolder` |
| `lock_waits`, `postgres_cache`, `runs_untracked`, `vectors_kept` | see section 5 | one documented statement each that the code does not keep |

Each property has a comment at its definition that says what it is about.
`BackendsAgree`, `QueriesAgree`, `ValidatorsAgree` and `DocumentsAreApart` are
conjunctions of named comparisons, each of two ways the code has of computing one
thing: SQLite and Postgres, links and coordinates, the fast and the full
validator, the queries of a document and a filter over all rows.

Bounds. Six leaves give trees of height 2 beside roots of heights 1 and 0, parents
inserted in every order, truncations inside a tree and re-growth over the cut;
they are also the fewest with which parents committed out of order leave a
coordinate free between two others of a level, the case in which the validators
differ. Eight leaves in the query give the tree of height 3, with windows that cut
it on both sides; seven are enough for liveness, where both gates are closed most
of the time. `Clock` has a time before, between and after the times of two leaves.
`DamageSize` bounds the rows of the stores that are damaged, one column at a time.
Two slots and two finders are what a double claim takes, one slot and two
documents what a lost wakeup takes, three operations an append, a truncation and
an append, or an append and two truncations, the second of which meets no context.
One fault is what each exception of the engine's properties takes; with two leaves
there is a pair to summarise. `engine_live` has one slot: with two, a failing job
can be missed, and what is then forgotten (section 5) is excepted from
`EverythingIsIndexed`; with one it never is. Two runs are what it takes for one to
be completed in place of the other; two mishaps for a truncation beside a failed
job. Three daemons are a holder, a thief and one that waits; three search calls
are a session, and two continuations that overlap. Four records are a branch, a
rewind and what comes after it. `MaxLeaves`, `MaxOps`, `MaxFaults`, `MaxCommands`,
`MaxRecords`, `MaxBranches`, `MaxTies`, `MaxFailures`, `MaxAppends`, `MaxMishaps`,
`MaxChecks`, `MaxRuns`, `MaxNodes`, `MaxUpsets`, `MaxGrowth`, `MaxIds`,
`MaxPlaces`, `MaxClock` and `MaxTries` only bound the runs. The runs `server`,
`clients` and `lock_waits` take states that differ by the naming of requests,
documents, users and processes as one, which is sound since they check invariants
only and no definition tells these names apart. The constraint `NoRace` of
`clients` cuts off states after two hooks have met, of which no property speaks.
`CHECK_DEADLOCK FALSE` stands where a system stops when the bounds are used up and
its work is done.

Fairness. `DocumentForest!FairSpec`: the scheduler keeps starting eligible pairs
(weak fairness on `Summarise`), and a call that is retried for ever succeeds at
some time (strong fairness on `Commit`: a failed job is found again by the next
scan). `IndexingEngine!FairSpec` and `IndexingRuns!FairSpec`: the event loop runs
every task that can run and every model call returns (weak fairness on each
client under way, finder, the scheduler and the jobs). There is none on failures,
giving up, restarts, or on clients starting operations.

Every property of a passing run has a mutant, a seeded fault in a definition that
models code (its name is that of the definition with a suffix, e.g.
`DeleteNodes_Unscoped`); TLC finds the property violated with the fault in place.

## 4. What is proved

Eight modules hold theorems; `tlapm` checks every proof to its last leaf. Each
theorem is about the same specification that the run checks and holds for all
values of the constants that the named assumptions (`ForestAssumption`,
`ScanAssumption`, `ClockAssumption`, `EngineAssumption`, `RetrievalAssumption`,
`SeedConstants`, `RunConstants`, `LogConstants`, `LeaseConstants`,
`LifecycleConstants`, `RequestConstants`, `TranscriptConstants`, `SyncConstants`,
`CountedConstants`, `UnitConstants`, `ModelConstants`, `SessionConstants`) allow:
these say that numbers are numbers, that absent values differ from present ones,
and that a clock has a first and a last time. What is assumed beyond them stands
in the theorems and in the tables below.

### One document (`DocumentForestProofs`)

For clients that are orderly (`OrderlyClients`: no empty chunk, time stamps in
order; an empty unit and disordered stamps do break the store, section 5).

| Theorem | States |
|---|---|
| `ForestStaysSound` | `ForestInv` always |
| `ForestIsTyped`, `TextHasNoGap`, `ParentsAndChildrenAgree`, `NeighborsAreLinked`, `RootsCoverTheText`, `NoTransactionIsRefused`, `JobsStayFresh` | `TypeOK`, `LeavesTile`, `ParentsMatchChildren`, `NeighborsMatchCoordinates`, `RootsTile`, `NoCoordinateClash`, `JobsNotStale` always |
| `LeavesKeepTheirPlace` | `LeavesAreStable`, for every step |
| `RowsImplementTheForest` | refinement: the rows implement `SummaryForest` (`KeepsShape`) |
| `RowsShowTheText` | refinement: the leaves implement `DocumentText` (`ShowsClientText`) |
| `BackendsDoTheSame` | `BackendsAgree`: SQLite and Postgres make the same of every row, with jobs of any age in flight |
| `EveryStoreIsAccepted` | `ValidatorsAgree`: no validator reports an error, but for one SQL check of Postgres, and that exactly while a level has a free coordinate |
| `QueriesAreExact` | `QueriesAgree`: relatives by coordinate and by link, windows of characters, drawn rows, the completion frontier, the list of ready pairs |
| `TimesAreAnsweredExactly` | `TimeWindowsAreExact`: windows of time |

None of the properties is inductive by itself. `ForestInv` adds to them, among
others: one row per coordinate; every row starts and ends where leaves do; the
index order of a level is its text order (`LevelsInOrder`); a row that shares text
with a higher one hangs below it (`OverlapMeansUnder`), which gives that two roots
never overlap and that a commit finds its coordinate free; later text is not
earlier in time (`TimesFollowSpans`), which makes a time truncation a suffix, so
that both deletions follow from one lemma (`DeletionKeepsForest`). `AppendRows`,
`CommitRows` and `TruncateFromTimeRows` say once what an action writes;
`StepKeepsForest` has one case per action. `RootsMeet` derives the covering by
roots, walking from a root's first leaf to the leaf before it and up to that
leaf's root.

The other theorems need nothing beyond `ForestInv`; each is one argument about a
sound forest. `RowsImplementTheForest` maps a row to its coordinate: a commit is a
merge because its pair has no parent yet, and both deletions remove the rows over
a suffix of the leaves, which is what `CutOff` does. `RowsShowTheText` reads the
leaves by index: an append adds chunks at the end, a deletion drops a suffix of
them, and a commit leaves them alone. `BackendsDoTheSame`: Postgres deletes what
the recursive query over `parent_id` reaches, SQLite every row that reaches
beyond the cut; in a sound forest the two are one set, and no row that is kept
has to be moved, nor is a coordinate taken at which Postgres would need its
missing index. `EveryStoreIsAccepted` goes through the checks of each validator;
the exception is exact in both directions. `QueriesAreExact` takes the search for
ancestors by its rounds: each round climbs one height, by coordinate where the
engine climbed by `parent_id`, and the rounds end before the rows do
(`RoundsClimb`, `RoundsEnd`); a window comes to the leaves at its two ends
(`WindowsAreWhole`), because positions and leaves belong together
(`PositionsAreInLeaves`). `TimesAreAnsweredExactly` reduces a window of time to
that: times tell the order of the leaves (`TimesTellOrder`), so the first leaf
that ends in time and the last that begins in time are the ends of the answer
(`WindowEnds`, `WindowFromTo`), and every entry point asks with those
(`TimesAreAsked`).

### The engine (`IndexingEngineProofs`, on `CoordinateForestProofs`)

For documents that have one operation at a time (`ClientsTakeTurns`), and any
number of documents, clients, slots, leaves, operations and faults.

| Theorem | States |
|---|---|
| `EngineStaysSound`, `EngineIsTyped` | the inductive invariant `EngineInv`; the types |
| `JobsStayRightlyClaimed` | `JobsAreRightlyClaimed`: never more jobs than slots, and, in documents that are not `exposed`, nothing embedded or summarised twice and no job for a node that is gone |
| `NothingEverDangles` | `NothingDangles`: in documents that are not `exposed` every summary stands over two nodes and every vector over a leaf, but for `orphans` |
| `IdleMeansIndexedUnlessMissed` | `IdleMeansIndexed`: an idle document is indexed unless it is `missed` or `exposed` |
| `EngineBuildsForests` | refinement: for each document that is never `exposed` the engine implements `SummaryForest` |

A finder looks at the free work in one locked section and claims it in another.
What it found stays right in between only because of the order of the lock's
queue: a job that ends, or a client that truncates, while a finder is about to
claim has joined the queue behind it. So `EngineInv` speaks of who stands before
whom (`Ahead`): what a finder is about to claim is still to be done, or is a job
that another finder claimed and that cannot leave `running` before this finder
has its turn (`Found`); a truncation that checks for jobs stands behind every
finder that may still claim some (`Cancelled`). `QueueJoined`, `QueueLeft` and
`QueueRejoined` say once what joining and leaving do to that order.

A truncation that finds no context has nothing to cancel. Either nobody is at work
on the document, and then nobody will be before it is triggered again (`Deserted`
is kept by every step), or the document is `exposed` from then on, and nothing is
claimed of it; each exception is entered in the step in which the code loses hold
of the document. `IdleMeansIndexedUnlessMissed` has an
invariant of its own on top of `EngineInv`: `Settled` says, of documents that are
neither missed nor exposed, that a finder that came back with nothing
has overlooked nothing but what will ask for another scan (a job or a trigger
that stands behind it in the queue), and that a document that is not listed as
active has no work and no jobs.

`EngineBuildsForests` maps the whole state of the engine to `forest[d]`. What
makes a commit a step of `SummaryForest` is `Claimed`: a pair whose summary is
being written is there and still without parent, since no truncation ran beside
the job. `CoordinateForestProofs` has the facts about coordinates: what appends,
merges and cuts leave supported, and that two ready pairs begin at different
leaves, so that the order in which a finder takes them is total. `Width` is a
recursive function on `Nat` whose equation is taken from its definition; what
the proofs use of it is that it is positive and doubles (`WidthDoubles`, by least
counterexample).

### Queries and seeds (`RetrievalProofs`)

| Theorem | States |
|---|---|
| `RetrievalIsSound` | the inductive invariant `RetrievalInv` |
| `AnswersTileTheWindow` | `TilingCoversWindow` |
| `AnswersAreSmallest` | `AnswerIsSmallest` |
| `FailuresAreCuts` | `OnlyCutsFail` |
| `SeedsAreSound` | the inductive invariant `SeedInv` of the three vector indexes |
| `SeedsAreFoundInChroma` | `SeedsAreFound`, with `Backend = "chroma"` |
| `IndexesHoldTheSame` | `IndexesAgree`, for every backend |

The first four are about `QuerySpec`, the specification that the run `server`
composes with others. They hold for documents, windows, seeds, token counts and
budgets of any size and for any appends, summaries and truncations during the
await. A seed from beyond the window is a leaf, and the covering set has nothing
above it and not its sibling: it is in the frontier as it is, no roll-up touches
it, and the tiling of the window does not feel it (`StraysStandAlone`,
`FirstFrontierWithStrays`); that such a leaf of a query for the whole document is
behind its window follows from the leaves being numbered without a gap
(`LeafBeyond`). The argument looks at one leaf at a time: at each height there is one
coordinate over it, and below a node of the forest all of these are taken. So
the nodes over a leaf are a column without holes. Enqueueing a node with its
sibling and its ancestors keeps the covering set such that it has both children
of a node or none; then the lowest node of the covering set over a leaf is in the
frontier, and is the only one there that is over it. A roll-up replaces the two
lowest nodes of some columns by their parent, so the frontier goes on tiling.
That the queue holds every pair that can be rolled up, though only the parent of
the last roll-up is queued again, is a part of the invariant; from it follows
that an answer over its budget could not be smaller.

`SeedInv`: each leaf has one place, Chroma has every embedded leaf at the place
where it is or was, the arrays of the python index hold the rows of the table
(the rank of a kept row is its new place), and what is left of other leaves is of
documents whose vectors could not be deleted. `SeedsAreFound` is proved for
Chroma only because it is false for the other two, which keep the vectors of
truncated leaves (run `vectors_kept`) and give them places in the result.

### Runs and their telemetry (`RunProofs`)

| Theorem | States |
|---|---|
| `RunsAreSound`, `CompletedRunsHoldTheirLeaves` | `RunsInv`; `CompletedRunsAreDone` |
| `JournalsAreTrue`, `ExportsShowTheWork` | `LogInv`; `ExportShowsTheWork` |

The engine ends a run by its own books: what it has assigned to the run and what
it has counted in flight. `RunsInv` says that the books are true of the leaves
(each leaf of a run in line is assigned to it, the job that embeds it is counted
for it unless it was claimed before the run was registered), so that empty
books mean that the work is done; the key step is `_maybe_complete_runs`, which
completes several runs at once. `LogInv` is about `LogSpec` (run `engine_cuts`):
what a collector holds is the work of its run (`Collected`), what is stored of a
run agrees with what was written (`Statuses`), and each line of a journal belongs
to one run, the last one of a run holding all that was collected (`Journals`). A
half line can swallow the line after it; that one is of a run that failed, or the
first of a run, and is made good by its last.

### Servers and their files (`ServerLifecycleProofs`)

| Theorem | States |
|---|---|
| `LeaseIsTyped` | the types of the lease |
| `OneServerIndexes` | `OneIndexer`, with `ForUpdate` and `LeaseOutlastsMisses` |
| `NobodyStarves` | `OnlyRivalsStarve`, with `WaitOutlastsLease` |
| `LifecycleKeepsTheLease` | refinement: every step of the daemons and commands is a step of the lease or leaves it alone |
| `FilesAreRight` | `FilesTellTheTruth` |

`LeaseOutlastsMisses` is `Ttl >= Delay + (MaxMisses + 1) * (Heartbeat + Delay)`,
`WaitOutlastsLease` is `AcquireTimeout >= Ttl + PollInterval + Delay + 1`; the
defaults of `LeaseConfig` (60, 15, 90 and 2 seconds) satisfy both with room for
two missed heartbeats and seconds of delay. The invariant is about time that is
left, not about who wrote what: a lease in use outlasts the heartbeats its
holder may still miss (`LeaseLasts`), and a server that waits has patience for
the rest of the lease in its way, a poll and a delay (`Unrivalled`).
`OneServerIndexes` is about databases with `SELECT ... FOR UPDATE`: SQLite
ignores the clause, and without it two thieves can both see the expired row.
`FilesInv` says that commands one at a time meet at most one living daemon.

### Requests, adapters, model calls, sessions

| Theorem | States |
|---|---|
| `ClientProofs`: `RequestsStayInOrder`, `BatchesStayApart`, `BusyMeansHeld` | `RequestsInv`; `BatchesAreApart`; `BusyHasAHolder`, for any number of servers, requests and documents, whichever die, for lock files and advisory locks |
| `ClientProofs`: `AdaptersAreTyped`, `SyncsAreExact` | `AdaptersTypeOK`; `ExactAfterSync`, for transcripts of any length with any number of rewinds, side branches, compactions, hook records, equal time stamps, failures and kills |
| `ClientProofs`: `UnitsAreSentOnce` | `CountedOnce`, for transcripts of any length and any number of syncs |
| `ConversationProofs`: `ConversationsAreOrderly`, `TheBestReplyIsStored` | `CallInv`; `BestReplyIsStored`, for texts, targets, thresholds and retries of any size |
| `ConversationProofs`: `SessionsStayInOrder`, `NoTurnIsForgotten`, `NoAnswerIsTurnedAway` | `SearchInv`; `TurnsAreRemembered`; `AnswersAreDelivered`, for any number of overlapping questions |

`RequestsInv` is mutual exclusion first (`Exclusion`: who works on a document
holds its lock, and who holds it works on it, has died at it or is stuck with it),
then places: the leaves above the base an appending request counted from are
exactly its own (`OwnTail`). A request that died keeps its lock file, and so does
one that could not write or remove it, which is why a document may be busy for
good; `BusyHasAHolder` admits that and nothing else.

A stateless sync has to find in the document alone how far the syncs before it
came. `SyncInv` says why it can. The document is at any time a branch of the
transcript cut off behind one of its steps (`DocIsABranch`), so its end time
names that step, but for steps with the same time stamp, and these are in the
document or in the hands of the sync (`TiesInHand`). The walk from the head
ends where the branch of the head meets what is indexed, and what is kept up to
there and what is appended make the branch of the head (`Makes`), in whatever
stage the sync is (`Stage`). That needs one sync at a time (`Alone`), no branch
that leaves between equal time stamps (`ForksApart`), and no record that goes on
from an older one whose past the steps in between do not share (`NoReturn`):
`spoiled` records when one of them is lost, and `ExactAfterSync` excepts it.
What the code reads through bridges over hooks and missing parents is shown to
be the branch the editor means. The transcript is read by recursive functions
along its links; lemmas about any such function (`RecursionWorks` and those after
it) give what it returns by well-founded induction on record numbers.

`CountInv` says of an adapter that counts that what it sent and what it still
sends join to the units it read (`Joins`), and that the state file lists what
was sent before this sync.

`is_better_summary` compares two replies. `CallInv` says that the one that is kept
beats or equals all that were heard (`BestOf`), and that a conversation only goes
on while every reply has to be retried; among such replies what beats the best
beats all of them (`BetterBeats`).

A continuation of a search starts from the messages its session has at that
moment. `TurnsAreRemembered` therefore rests on what a stored conversation holds
(`Conversed`): all turns of its session but those that ran beside another turn
that has ended. Whoever stores was shown every turn that he did not run beside,
so it survives every store.

### What stays with TLC, and why

* Liveness: `Converges`, `EverythingIsIndexed`, `WaitsEnd`, `RunsEnd`. It needs
  fairness and ENABLED, which the prover does not have.
* `UpkeepIsSound`: completion counts, pruning, repair, and the validators on
  damaged stores. It compares computations that fold over a table or mend it row
  by row; what they return for every table would need induction over data.
* `DocumentsAreApart`: tables that are built from two documents with `@@` and
  sorted for each query, neither of which the prover can expand.
* Clients that are not orderly: `forest_text` also has disordered time stamps, for
  which `ShowsClientText`, `TimeWindowsAreExact` and `DocumentsAreApart` are only
  model-checked.

## 5. Where code and documents disagree

Each of the four violation runs checks one sentence of a document or comment:

* `postgres_cache`: on Postgres a truncation clears the links to deleted rows in
  the table but not in the cache, and a later commit writes the cached link back
  ("This prevents dangling neighbor references.",
  `repositories/document_repository.py:237`).
* `vectors_kept`: the pgvector and the python index ignore a filter on
  `node_id`, so the vectors of truncated leaves stay
  (`specs/temporal-document-apis.md:222`, `runtime:691`).
* `lock_waits`: `pg_advisory_lock` blocks the event loop in which the holder of
  the lock would have to go on (`docs/api-reference.md:593`).
* `runs_untracked`: an append without telemetry while a run is in line has its
  leaf credited to that run, whose collector refuses it at each try
  (`telemetry_collection.py:471`).

Seen while modelling, without a run of their own (most are hazards in
`PROJECT.json`):

* Store. An empty unit makes two leaves share the greatest `span_end`, and the
  next append may be refused for good (`repo:515`). With stamps out of order a
  time truncation deletes a leaf and keeps the summary over it (`engine:1731`):
  `completion_pct` passes 100 %, and whole-document queries are refused, because
  the last span reaches beyond the leaves. `append_batch` commits a transaction
  per unit although docstrings promise one (`append_executor.py:440`). A document
  that was truncated to nothing, or whose first append failed, stays temporal.
  `TruncateFromTime` checks the document before it has the lock and not again.
  `SetMetadata` on a missing document makes a row without guidance. The cached
  ratio of characters to tokens is stale after a truncation until an append.
* Engine. A failed job can make a document idle early (`engine:746`); what is more,
  the scan its end asks for may then be turned away for want of a slot, and since
  only active documents are put up again (`engine:1361`) the document is not
  scanned before it is appended to or the server starts again. A leaf whose
  vector failed is not embedded again (`engine:1562`). `cancel_document` of a
  document without context marks nothing, and a finder left over starts jobs
  during the truncation (`engine:524`): two truncations after an append can bring
  this about, since the first one drops the context (`exposed`). A request
  refused as busy has already cancelled the document's jobs (`runtime:643`).
  `max_forest_height_differential` 0 stops all summarising.
* Locks. When the first line of the lock file cannot be written (`locks.py:30`) or
  the file cannot be removed (`locks.py:49`), the request fails, the file stays and
  the document is busy until somebody deletes it, although nobody died.
* Runs and telemetry. A pair claimed while a run's log is written leaves its
  parent to a finished run. A run that a truncation takes out of the engine stays
  in progress for ever. Two document ids may share a journal directory, and
  clearing one removes the other's; clearing removes the journal after the lock
  was given back; a line after a torn one is lost; failed tries leave nodes that
  do not exist in the telemetry.
* Retrieval. The tiling may show more than "exactly the minimal span"
  (`retrieve.py:211`): a seed that is registered by its id is not filtered by the
  window (`coverage_builder.py:229`), so a leaf appended while a query of the whole
  document waited, or any leaf after a truncation or as a lexical hit, can stand
  beside it, with a warning of the gap. An empty time window between two leaves
  raises ValueError; an empty window 0..0 is the whole document through gRPC and the
  first leaf through `QueryService`; `search_continue` drops time bounds;
  "unlimited" on the command line becomes the server's budget; times are compared as
  strings; lexical seeds may lie beyond the horizon. A roll-up may take a longer
  parent (`tokens_saved` negative).
* Agent. The OpenAI backend does not store the final answer; overlapping
  continuations overwrite each other's turns; recalls that return nothing do not
  count as rounds, parallel calls exceed the limit.
* Validators. The fast one misses what the full one reports. The last SQL check of
  Postgres (`repositories/postgres_node_repository.py:1638`) takes the next row of a
  level for a neighbour and reports a broken chain while parents committed out of
  order leave a coordinate free between two others; `get_ready_left_children`
  (`repo:837`) leaves out a pair that waits when the coordinate before it is free.
  Both are stated, with their exact condition, in `ValidatorsAgree` and
  `QueriesAgree`. `validate_equal_leaf_depth`
  reports every forest of several roots; a root pruned between two others links
  them across a free coordinate until it is made again.
* Servers. On SQLite the lease has no row lock. `server status` trusts the pid
  file. `IndexingStatus.in_flight` counts documents, not jobs.
* Adapters. An append-only sync from the prompt hook hides reverts
  (`specs/stateless-transcript-sync.md:255`). A document is cut by time
  (`transcript_sync.py:874`), so a branch that goes on from a record written
  beside another one leaves those steps of the other branch in the document that
  are older than this record; and the steps of a branch that is taken up again are
  older than what is indexed and are not sent again. `ExactAfterSync` excepts
  both (`spoiled`: "return").

## 6. Not modelled, and why

Prompts, scores and embeddings (floating-point data); the splitter and
tokenization (functions of text: a chunk is its length); file import; rate limits
and the batching of embedding calls; sessions and connections of the databases;
migrations; the Claude backend of the search agent, which keeps its conversations
elsewhere; dashboards, event streams and what the command line prints; costs and
durations; telemetry analysis, evaluation and visualisation (offline); installers.

## 7. Plan

Done: the store and its abstractions; the engine; retrieval and seeds; the
Postgres backend; lease, daemon and locks; runs and telemetry; model calls;
search sessions; transcript adapters; validators and repair; the theorems above,
which state every invariant that the runs check but the two of "What stays with
TLC".

What is left, in this order: a progress measure for the engine, to bring a part of
`EverythingIsIndexed` within reach of safety arguments; the tables of
`DocumentsAreApart` as functions of a document and a coordinate, so that it can be
argued row by row; the servers' graceful shutdown beside running requests.
